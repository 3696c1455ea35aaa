\* Three programs, a patient player, two sessions.
SPECIFICATION Spec
CONSTANTS
  Ports = {"raylib", "godot", "browser"}
  Tells = {"say"}
  Patient = TRUE
  MaxSessions = 2
  CmdRoom = 2
  LineRoom = 2
CHECK_DEADLOCK FALSE
INVARIANTS SessionsAreClosed  
PROPERTIES RequestsAreAnswered
