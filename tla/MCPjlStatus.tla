----------------------------- MODULE MCPjlStatus -----------------------------
(***************************************************************************)
(* The instance of PjlStatus that TLC explores: reports of each kind that  *)
(* the parser tells apart.                                                 *)
(***************************************************************************)
EXTENDS PjlStatus

Unit(kind)  == [kind |-> kind, code |-> 0]
CODE(n)     == [kind |-> "CODE", code |-> n]
Report(code, online) ==
  <<Unit("device"), CODE(code), Unit(online), Unit("FF")>>

MCFrames ==
  { Report(41004, "FALSE"),    \* load paper
    Report(10023, "TRUE"),     \* processing
    Report(10001, "TRUE"),     \* ready
    <<Unit("job"), Unit("END"), Unit("OK"), Unit("PAGES=1"), Unit("FF")>>,
    \* too long, and a ready message up to there
    <<Unit("device"), CODE(10001), Unit("TRUE"), Unit("text"), Unit("text"),
      Unit("FF")>> }

MCPortStatus == {{}, {"fault"}}
=============================================================================
