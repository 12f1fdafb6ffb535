----------------------------- MODULE MCDelivery -----------------------------
(* An instance of Delivery for TLC: one device reports, is commanded,       *)
(* patched and joined, by its id and by an object; the other may be what a  *)
(* guard finds instead.                                                     *)
EXTENDS Delivery
CONSTANTS d1, d2, v1, v2

Sent(kind, dev, report, value, named) ==
  [kind |-> kind, dev |-> dev, report |-> report, value |-> value, named |-> named]

SentMessages ==
  {Sent("reading", d1, "absent", None, FALSE),
   Sent("reading", d1, "OFFLINE", v1, FALSE),
   Sent("reading", d1, "online", v2, FALSE),
   Sent("command", d1, "absent", v2, FALSE),
   Sent("patch", d1, "absent", None, FALSE),
   Sent("leave", d1, "absent", None, FALSE),
   Sent("join", d1, "absent", None, FALSE),
   Sent("join", d1, "absent", None, TRUE)}
=============================================================================
