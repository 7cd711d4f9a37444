------------------------------ MODULE MCPath1 ------------------------------
(* A buffer of ten words with a safe zone of two behind buffLimit, two-bit  *)
(* registers, and few enough A+D writes to check the whole composition.       *)
EXTENDS Path1

TwoBits == {1, 2}

\* Two SIGNALs, a FINISH, and two LABELs with different masks.
SomeWrites ==
  { [reg |-> "SIGNAL", data |-> {1},    msk |-> {1, 2}],
    [reg |-> "SIGNAL", data |-> {2},    msk |-> {2}],
    [reg |-> "FINISH", data |-> {},     msk |-> {}],
    [reg |-> "LABEL",  data |-> {1, 2}, msk |-> {1}],
    [reg |-> "LABEL",  data |-> {2},    msk |-> {1, 2}] }
=============================================================================
