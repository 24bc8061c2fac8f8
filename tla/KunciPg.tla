------------------------------ MODULE KunciPg ------------------------------
(***************************************************************************)
(* The part of PostgreSQL's lock manager this system leans on: the         *)
(* transaction-scoped advisory locks behind pg_advisory_xact_lock and      *)
(* pg_advisory_xact_lock_shared, and row locks taken by FOR UPDATE.        *)
(*                                                                         *)
(* A request is a record [kunci, mode], mode "S" (shared) or "X".  A       *)
(* request that conflicts with a holder, or with somebody already waiting, *)
(* queues: depan[t] is the set of sessions ahead of t in that queue.       *)
(* Locks are only released all together, when the transaction ends.        *)
(*                                                                         *)
(* External: nothing here is code of the repository; it is modelled from   *)
(* how the repositories under src/internal/repository use it.              *)
(***************************************************************************)
EXTENDS Naturals, FiniteSets

CONSTANT Sesi                \* database sessions, each running one transaction

VARIABLES pegang,            \* [Sesi -> set of requests granted]
          tunggu,            \* [Sesi -> set of requests waited for, 0 or 1]
          depan              \* [Sesi -> sessions ahead in the same queue]

kunciVars == <<pegang, tunggu, depan>>

Mode == {"S", "X"}

\* Two requests of different sessions exclude each other.
Bentrok(p, q) == p.kunci = q.kunci /\ "X" \in {p.mode, q.mode}

Jalan(t) == tunggu[t] = {}

TipeKunci(P) ==              \* P: the requests there are
  /\ pegang \in [Sesi -> SUBSET P]
  /\ tunggu \in [Sesi -> SUBSET P]
  /\ depan  \in [Sesi -> SUBSET Sesi]

InitKunci ==
  /\ pegang = [t \in Sesi |-> {}]
  /\ tunggu = [t \in Sesi |-> {}]
  /\ depan  = [t \in Sesi |-> {}]

-----------------------------------------------------------------------------
\* ORDER BY id: rows are locked in the order of their numbers.
UrutNaik(S) ==
  CHOOSE s \in [1..Cardinality(S) -> S] :
    \A i, j \in 1..Cardinality(S) : i < j => s[i] < s[j]

\* Nobody but t holds anything p conflicts with.
BebasDariPemegang(t, p) ==
  \A u \in Sesi \ {t} : \A q \in pegang[u] : ~Bentrok(p, q)

SudahPunya(t, p) == \E q \in pegang[t] : q.kunci = p.kunci /\ q.mode \in {p.mode, "X"}

SebarisDengan(t, p) ==
  {u \in Sesi \ {t} : \E q \in tunggu[u] : q.kunci = p.kunci}

\* LockAcquire: granted at once when nothing held or queued conflicts,
\* otherwise to the end of the queue.
Minta(t, p) ==
  \/ /\ SudahPunya(t, p)
     /\ UNCHANGED kunciVars
  \/ /\ ~SudahPunya(t, p)
     /\ BebasDariPemegang(t, p)
     /\ \A u \in Sesi \ {t} : \A q \in tunggu[u] : ~Bentrok(p, q)
     /\ pegang' = [pegang EXCEPT ![t] = @ \cup {p}]
     /\ UNCHANGED <<tunggu, depan>>
  \/ /\ ~SudahPunya(t, p)
     /\ \/ ~BebasDariPemegang(t, p)
        \/ \E u \in Sesi \ {t} : \E q \in tunggu[u] : Bentrok(p, q)
     /\ tunggu' = [tunggu EXCEPT ![t] = {p}]
     /\ depan'  = [depan EXCEPT ![t] = SebarisDengan(t, p)]
     /\ UNCHANGED pegang

\* Sessions whose request can be granted once t has let go of everything:
\* no conflict with a remaining holder, nor with anybody queued ahead.
NaikSetelah(t) ==
  {u \in Sesi \ {t} :
     /\ tunggu[u] # {}
     /\ \A p \in tunggu[u] :
          /\ \A v \in Sesi \ {t, u} : \A q \in pegang[v] : ~Bentrok(p, q)
          /\ \A v \in depan[u] \ {t} : \A q \in tunggu[v] : ~Bentrok(p, q)}

\* Commit or rollback of t: everything is released and the queues move up.
LepasSemua(t) ==
  LET naik == NaikSetelah(t) IN
  /\ pegang' = [u \in Sesi |-> IF u = t THEN {}
                               ELSE IF u \in naik THEN pegang[u] \cup tunggu[u]
                               ELSE pegang[u]]
  /\ tunggu' = [u \in Sesi |-> IF u \in naik \cup {t} THEN {} ELSE tunggu[u]]
  /\ depan'  = [u \in Sesi |-> IF u \in naik \cup {t} THEN {}
                               ELSE depan[u] \ (naik \cup {t})]

-----------------------------------------------------------------------------
\* Wait-for edges: hard towards a holder, soft towards a waiter ahead.
Keras == {e \in Sesi \X Sesi :
            /\ e[1] # e[2]
            /\ \E p \in tunggu[e[1]], q \in pegang[e[2]] : Bentrok(p, q)}

Lunak == {e \in Sesi \X Sesi :
            /\ e[2] \in depan[e[1]]
            /\ \E p \in tunggu[e[1]], q \in tunggu[e[2]] : Bentrok(p, q)}

\* A set in which everybody waits for somebody of the set contains a cycle,
\* and a minimal one is a cycle.
Melingkar(E) == {C \in SUBSET Sesi :
                   C # {} /\ \A t \in C : \E u \in C : <<t, u>> \in E}

Siklus(E) == {C \in Melingkar(E) : \A D \in Melingkar(E) : D \subseteq C => D = C}

\* DeadLockCheck, soft case: a cycle that runs through the order of a queue
\* only is broken by letting t pass those ahead of it.
Susun(t) ==
  /\ \E C \in Siklus(Keras \cup Lunak) : t \in C
  /\ tunggu[t] # {}
  /\ \A p \in tunggu[t] : BebasDariPemegang(t, p)
  /\ pegang' = [pegang EXCEPT ![t] = @ \cup tunggu[t]]
  /\ tunggu' = [tunggu EXCEPT ![t] = {}]
  /\ depan'  = [u \in Sesi |-> IF u = t THEN {} ELSE depan[u] \ {t}]

\* DeadLockCheck, hard case: t is on a cycle of holders and is aborted.
Korban(t) == \E C \in Siklus(Keras) : t \in C

-----------------------------------------------------------------------------
\* No two sessions hold conflicting locks.
Eksklusif ==
  \A t, u \in Sesi : t # u =>
    \A p \in pegang[t], q \in pegang[u] : ~Bentrok(p, q)

\* Of two sessions waiting for one key, one is ahead of the other.
AntreanUrut ==
  \A t, u \in Sesi : t # u =>
    \A p \in tunggu[t], q \in tunggu[u] :
      p.kunci = q.kunci => t \in depan[u] \/ u \in depan[t]
=============================================================================
