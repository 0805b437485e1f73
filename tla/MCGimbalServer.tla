-------------------------- MODULE MCGimbalServer --------------------------
(***************************************************************************)
(* A small instance of GimbalServer: two connections one after the other,   *)
(* and for each a release and a clutched command, in or out of order.       *)
(***************************************************************************)
EXTENDS GimbalServer

Frame(nonce, challenge, sequence) ==
  [wellFormed |-> TRUE, session |-> nonce, challenge |-> challenge,
   sequence |-> sequence, clientNs |-> sequence, kind |-> "hold",
   clutch |-> FALSE, pan |-> 0, lease |-> 1]

\* The challenge that a command answers is the one of the reply before it.
Headers ==
  {Frame(s, ch, q) : s \in 1..MaxSessions, ch \in 1..5, q \in 1..2}

MCInputs ==
  Headers
    \cup {[h EXCEPT !.kind = "aim", !.clutch = TRUE, !.pan = 1] : h \in Headers}
    \cup {[Frame(1, 1, 1) EXCEPT !.wellFormed = FALSE]}
    \cup {[Frame(1, 2, 2) EXCEPT !.kind = "aim", !.clutch = TRUE, !.pan = PanMax + 1]}

\* For the liveness run: one connection that releases, then aims, resets the
\* map, or repeats a command with the challenge or the sequence of another.
LiveInputs ==
  LET release == {Frame(1, 1, 1), Frame(1, 2, 2)}
      aims == {[Frame(1, ch, q) EXCEPT !.kind = "aim", !.clutch = TRUE, !.pan = PanMax] :
                 ch \in 1..3, q \in 1..2}
  IN  release \cup aims \cup {[Frame(1, 2, 2) EXCEPT !.kind = "resetMap"]}
=============================================================================
