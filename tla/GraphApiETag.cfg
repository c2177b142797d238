CONSTANTS
  ApiSong = {"s", "t"}
  Routes = {"graph"}
  Callers = {"user"}
  MaxWrites = 2
SPECIFICATION ApiSpec
INVARIANT NotModifiedIsTrue
CHECK_DEADLOCK FALSE
