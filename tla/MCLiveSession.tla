--------------------------- MODULE MCLiveSession ---------------------------
(* Instances of a live session of two pages.                                  *)
EXTENDS LiveSession

\* The host shares two tabs, the joiner brings the "(collaboration)" template.
TwoTabs == [c \in Pages |-> IF c = Host THEN [names |-> <<1, 2>>, texts |-> << <<1>>, <<2>> >>]
                                        ELSE [names |-> <<1>>, texts |-> << <<>> >>]]

\* Tabs without text, of different names.
NoText == [c \in Pages |-> [names |-> <<IF c = Host THEN 2 ELSE 1>>, texts |-> << <<>> >>]]

InFlight == \E c \in Pages : down[c] # <<>> \/ sock[c] = "accepted"

\* The instances' clock: what a page sends is with the relay before anyone else
\* acts (messages to pages are as slow as they like), updateLastActive is
\* quick, and the relay's timers, of seconds and hours, do not overtake messages.
Calm ==
  /\ (\E c \in Pages : up[c] # <<>>) => \E c \in Pages : Len(up'[c]) < Len(up[c])
  /\ touches > 0 => touches' < touches \/ \E c \in Pages : Len(up'[c]) < Len(up[c])
  /\ InFlight => ~(timer /\ ~timer') /\ ~(alarm /\ ~alarm')
  /\ days = 0 => ~(alarm /\ ~alarm')

CalmSpec == Init /\ [][Next /\ Calm]_vars /\ Fairness
=============================================================================
