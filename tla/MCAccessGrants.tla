--------------------------- MODULE MCAccessGrants ---------------------------
(* Instantiates AccessGrants for TLC: two sessions, two key ids, one      *)
(* secret, one user and one record, a clock of MaxTimeMC seconds.         *)
EXTENDS AccessGrants

\* A record access method with bearer grants, one second grant duration.
RecordBearerAC == [kind |-> "record", bearer |-> TRUE, subject |-> "record", duration |-> 1]

\* A bearer access method for users, one second grant duration.
UserBearerAC == [kind |-> "bearer", bearer |-> FALSE, subject |-> "user", duration |-> 1]

IdsMC == {1, 2}
MaxTimeMC == 2
U64MC == 2^16
=============================================================================
