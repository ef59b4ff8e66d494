SPECIFICATION FairSpec
CONSTANTS
  Procs = {p1, p2, p3}
  Nobody = Nobody
  Healer = Healer
  Managers = {"systemd", "sresard"}
  Cron = TRUE
  MaxConf = 0
  MaxDeaths = 0
PROPERTY ComesBack
PROPERTY StaysDown
