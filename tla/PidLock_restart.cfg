SPECIFICATION Spec
CONSTANTS
  Procs = {p1, p2, p3}
  Nobody = Nobody
  Healer = Healer
  Managers = {"systemd"}
  Cron = TRUE
  MaxConf = 1
  MaxDeaths = 0
INVARIANT RestartTakesEffect
