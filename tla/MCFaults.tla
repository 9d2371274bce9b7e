----------------------------- MODULE MCFaults -----------------------------
(***************************************************************************)
(* What is promised though the world outside fails: the files through      *)
(* power cuts and disk errors (Journal), a byte stream through lost,       *)
(* repeated and reordered segments (Tcp).  A behaviour is one of them:     *)
(* which.                                                                  *)
(***************************************************************************)
EXTENDS MCJournal

VARIABLES which, conn, net, listening, opened, faults, total, taken

\* numbers that wrap within the connection, and three bytes from A to B,
\* whose rings hold two each
Numbers == [h \in {"A", "B"} |-> IF h = "A" THEN 30 ELSE 31]
OneWay == [h \in {"A", "B"} |-> IF h = "A" THEN 3 ELSE 0]

T == INSTANCE Tcp WITH M <- 32, Iss <- Numbers, Bytes <- OneWay, MSS <- 2, Rbuf <- 2, Sbuf <- 2, OooMax <- 1,
                       Cwnds <- {3}, SynRetries <- 1, MaxRetries <- 1, MaxNet <- 2, MaxFaults <- 1,
                       Aborters <- {"B"}, Prompt <- FALSE

ASSUME TcpConstants == T!TcpAssumption

journalVars == vars
tcpVars == <<conn, net, listening, opened, faults, total, taken>>
all == <<which, journalVars, tcpVars>>

AllInit == which \in {"journal", "tcp"} /\ Init /\ T!Init

InJournal == which = "journal" /\ UNCHANGED <<which, tcpVars>>
InTcp == which = "tcp" /\ UNCHANGED <<which, journalVars>>

AllNext == (InJournal /\ Next) \/ (InTcp /\ T!Next)

AllSpec == AllInit /\ [][AllNext]_all

-----------------------------------------------------------------------------
(* Properties: those of Journal, and those of Tcp *)

\* the receiver's ring has the peer's bytes, in order, none twice: see Tcp
StreamInOrder == T!StreamInOrder

\* what an end lets go of as acknowledged the other has taken: see Tcp
AckedIsThere == T!AckedIsThere

\* who is told of the end has had all that was sent: see Tcp
EndIsTheEnd == T!EndIsTheEnd

\* what is not acknowledged is never left without a timer: see Tcp
TimerIsOn == T!TimerIsOn
============================================================================
