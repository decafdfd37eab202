---------------------------- MODULE MC_UserReplica ----------------------------
(***************************************************************************)
(* Two user ids, three raw usernames, three requests of which two may      *)
(* overlap, and one consumer restart.  Usernames are spelled over ASCII    *)
(* letters, the two-byte letter "é" and a space; Username::MAX_LENGTH is    *)
(* scaled from 32 bytes to 4, which no name here reaches.                  *)
(***************************************************************************)
EXTENDS UserReplica

MCUsers == {"u1", "u2"}

MCNames ==
    { <<"a", "b", "c">>,        \* valid
      <<"é", "a">>,             \* two characters, three bytes
      <<"a", " ", "b">> }       \* a character outside the allowed ones

MCMultiByte == {"é"}
MCAlnum == {"a", "b", "c", "é"}

=============================================================================
