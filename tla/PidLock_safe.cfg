SPECIFICATION Spec
CONSTANTS
  Procs = {p1, p2, p3}
  Nobody = Nobody
  Healer = Healer
  Managers = {"systemd", "sresard"}
  Cron = TRUE
  MaxConf = 1
  MaxDeaths = 1
SYMMETRY ProcSymmetry
INVARIANT TypeOK
INVARIANT PidFileNamesHolder
PROPERTY OneCollects
