---------------------------- MODULE Dasar_proof ----------------------------
(***************************************************************************)
(* What the proofs about single modules lean on: the lock manager, and     *)
(* sums and maxima over finite sets.                                       *)
(*                                                                         *)
(* Locks: no step of the manager breaks exclusion or the order of a queue, *)
(* nobody loses a lock, or a place in a queue, by what another session     *)
(* does, and a request is held or queued.                                  *)
(*                                                                         *)
(* Sums: the library's folds are recursive functions over the subsets of a *)
(* set.  That such a function exists, and that the order of the summands   *)
(* does not matter, is shown by a least counterexample: of the numbers of  *)
(* elements for which it fails, if any, there is a smallest.               *)
(***************************************************************************)
EXTENDS KunciPg, Integers, Sequences, FiniteSetsExt, SequencesExt, FiniteSetTheorems,
        WellFoundedInduction, TLAPS

\* What was held stays held, what was waited for is held or waited for.
Maju(u) == /\ pegang[u] \subseteq pegang'[u]
           /\ pegang[u] \cup tunggu[u] \subseteq pegang'[u] \cup tunggu'[u]

\* t holds, or waits for, a lock on p's key at least as strong as p.
Dipenuhi(t, p) ==
  \E q \in pegang[t] \cup tunggu[t] : q.kunci = p.kunci /\ q.mode \in {p.mode, "X"}

\* The locks are exclusive and the queues are ordered.
KunciBenar == Eksklusif /\ AntreanUrut

-----------------------------------------------------------------------------
\* A request takes nothing from anybody and is held or queued.
LEMMA MintaMaju ==
  ASSUME NEW P, NEW t \in Sesi, NEW p \in P, TipeKunci(P), Minta(t, p)
  PROVE  /\ TipeKunci(P)'
         /\ \A u \in Sesi : u # t => Maju(u)
         /\ pegang[t] \subseteq pegang'[t]
         /\ Dipenuhi(t, p)'
<1>1. CASE SudahPunya(t, p) /\ UNCHANGED kunciVars
  BY <1>1 DEF TipeKunci, Maju, Dipenuhi, kunciVars, SudahPunya
<1>2. CASE /\ pegang' = [pegang EXCEPT ![t] = @ \cup {p}]
           /\ UNCHANGED <<tunggu, depan>>
  BY <1>2 DEF TipeKunci, Maju, Dipenuhi
<1>3. CASE /\ tunggu' = [tunggu EXCEPT ![t] = {p}]
           /\ depan'  = [depan EXCEPT ![t] = SebarisDengan(t, p)]
           /\ UNCHANGED pegang
  BY <1>3 DEF TipeKunci, Maju, Dipenuhi, SebarisDengan
<1>4. QED BY <1>1, <1>2, <1>3 DEF Minta

\* A request is granted only when no holder conflicts with it, and queued
\* behind everybody who waits for the same key.
LEMMA MintaBenar ==
  ASSUME NEW P, NEW t \in Sesi, NEW p \in P, TipeKunci(P), KunciBenar, Jalan(t), Minta(t, p)
  PROVE  KunciBenar'
<1>1. CASE UNCHANGED kunciVars
  BY <1>1 DEF KunciBenar, Eksklusif, AntreanUrut, kunciVars
<1>2. CASE /\ BebasDariPemegang(t, p)
           /\ pegang' = [pegang EXCEPT ![t] = @ \cup {p}]
           /\ UNCHANGED <<tunggu, depan>>
  <2>1. Eksklusif'
    BY <1>2 DEF TipeKunci, KunciBenar, Eksklusif, BebasDariPemegang, Bentrok
  <2>2. AntreanUrut'
    BY <1>2 DEF KunciBenar, AntreanUrut
  <2>3. QED BY <2>1, <2>2 DEF KunciBenar
<1>3. CASE /\ tunggu' = [tunggu EXCEPT ![t] = {p}]
           /\ depan'  = [depan EXCEPT ![t] = SebarisDengan(t, p)]
           /\ UNCHANGED pegang
  <2>1. Eksklusif'
    BY <1>3 DEF KunciBenar, Eksklusif
  <2>2. AntreanUrut'
    BY <1>3 DEF TipeKunci, KunciBenar, AntreanUrut, SebarisDengan
  <2>3. QED BY <2>1, <2>2 DEF KunciBenar
<1>4. QED BY <1>1, <1>2, <1>3 DEF Minta

\* The end of t takes nothing from anybody else.
LEMMA LepasMaju ==
  ASSUME NEW P, NEW t \in Sesi, TipeKunci(P), LepasSemua(t)
  PROVE  /\ TipeKunci(P)'
         /\ \A u \in Sesi : u # t => Maju(u)
<1>1. NaikSetelah(t) \subseteq Sesi
  BY DEF NaikSetelah
<1>2. TipeKunci(P)'
  BY <1>1 DEF TipeKunci, LepasSemua
<1>3. \A u \in Sesi : u # t => Maju(u)
  BY <1>1 DEF TipeKunci, LepasSemua, Maju
<1>4. QED BY <1>2, <1>3

\* Those who move up are compatible with the holders and with each other.
LEMMA LepasBenar ==
  ASSUME NEW P, NEW t \in Sesi, TipeKunci(P), KunciBenar, LepasSemua(t)
  PROVE  KunciBenar'
<1> DEFINE naik == NaikSetelah(t)
<1>0. naik \subseteq Sesi \ {t}
  BY DEF NaikSetelah
<1>1. \A u \in Sesi : pegang'[u] = IF u = t THEN {}
                                  ELSE IF u \in naik THEN pegang[u] \cup tunggu[u]
                                  ELSE pegang[u]
  BY DEF LepasSemua, TipeKunci
<1>2. \A u, v \in Sesi \ {t} : u # v =>
        \A p \in pegang'[u], q \in pegang'[v] : ~Bentrok(p, q)
  <2> SUFFICES ASSUME NEW u \in Sesi \ {t}, NEW v \in Sesi \ {t}, u # v,
                      NEW p \in pegang'[u], NEW q \in pegang'[v]
               PROVE  ~Bentrok(p, q)
    OBVIOUS
  <2>1. CASE p \in pegang[u] /\ q \in pegang[v]
    BY <2>1 DEF KunciBenar, Eksklusif
  <2>2. CASE u \in naik /\ p \in tunggu[u] /\ q \in pegang[v]
    BY <2>2 DEF NaikSetelah
  <2>3. CASE v \in naik /\ q \in tunggu[v] /\ p \in pegang[u]
    BY <2>3 DEF NaikSetelah, Bentrok
  <2>4. CASE u \in naik /\ p \in tunggu[u] /\ v \in naik /\ q \in tunggu[v]
    <3>1. SUFFICES ASSUME p.kunci = q.kunci PROVE ~Bentrok(p, q)
      BY DEF Bentrok
    <3>2. u \in depan[v] \/ v \in depan[u]
      BY <2>4, <3>1 DEF KunciBenar, AntreanUrut
    <3>3. QED BY <2>4, <3>2 DEF NaikSetelah, Bentrok
  <2>5. QED BY <1>1, <2>1, <2>2, <2>3, <2>4
<1>3. Eksklusif'
  BY <1>1, <1>2 DEF Eksklusif
<1>4. AntreanUrut'
  BY <1>0 DEF KunciBenar, AntreanUrut, LepasSemua, TipeKunci
<1>5. QED BY <1>3, <1>4 DEF KunciBenar

\* The deadlock detector lets t pass: t gets what it waited for, nobody
\* loses anything.
LEMMA SusunMaju ==
  ASSUME NEW P, NEW t \in Sesi, TipeKunci(P), Susun(t)
  PROVE  TipeKunci(P)' /\ \A u \in Sesi : Maju(u)
BY DEF TipeKunci, Susun, Maju

LEMMA SusunBenar ==
  ASSUME NEW P, NEW t \in Sesi, TipeKunci(P), KunciBenar, Susun(t)
  PROVE  KunciBenar'
<1>1. Eksklusif'
  BY DEF TipeKunci, Susun, KunciBenar, Eksklusif, BebasDariPemegang, Bentrok
<1>2. AntreanUrut'
  BY DEF TipeKunci, Susun, KunciBenar, AntreanUrut
<1>3. QED BY <1>1, <1>2 DEF KunciBenar

-----------------------------------------------------------------------------
(* Sessions and the rows they lock.                                        *)
MemegangX(t, k) == \E q \in pegang[t] : q.kunci = k /\ q.mode = "X"

\* The locks are in order, whatever the requests are.
KunciSah == KunciBenar /\ \E P : TipeKunci(P)

\* What nobody but t can disturb: u keeps its locks and stays where it was
\* in a queue, or moves up.
Lain(u) == Maju(u) /\ tunggu'[u] \subseteq tunggu[u]

LEMMA KunciAwal == InitKunci => KunciSah
<1>1. InitKunci => TipeKunci({})
  BY DEF InitKunci, TipeKunci
<1>2. InitKunci => KunciBenar
  BY DEF InitKunci, KunciBenar, Eksklusif, AntreanUrut
<1>3. QED BY <1>1, <1>2 DEF KunciSah

LEMMA MintaSah ==
  ASSUME KunciSah, NEW t \in Sesi, NEW p, Jalan(t), Minta(t, p)
  PROVE  /\ KunciSah'
         /\ \A u \in Sesi : u # t => Lain(u)
         /\ pegang[t] \subseteq pegang'[t]
         /\ Dipenuhi(t, p)'
<1>1. PICK P : TipeKunci(P)
  BY DEF KunciSah
<1> DEFINE Q == P \cup {p}
<1>2. TipeKunci(Q) /\ p \in Q
  BY <1>1 DEF TipeKunci
<1> HIDE DEF Q
<1>3. /\ TipeKunci(Q)' /\ pegang[t] \subseteq pegang'[t] /\ Dipenuhi(t, p)'
      /\ \A u \in Sesi : u # t => Maju(u)
  BY <1>2, MintaMaju
<1>4. KunciBenar'
  BY <1>2, MintaBenar DEF KunciSah
<1>5. \A u \in Sesi : u # t => tunggu'[u] = tunggu[u]
  BY <1>1 DEF Minta, kunciVars, TipeKunci
<1>6. QED BY <1>3, <1>4, <1>5 DEF KunciSah, Lain

LEMMA LepasSah ==
  ASSUME KunciSah, NEW t \in Sesi, LepasSemua(t)
  PROVE  /\ KunciSah'
         /\ \A u \in Sesi : u # t => Lain(u)
         /\ Jalan(t)'
<1>1. PICK P : TipeKunci(P)
  BY DEF KunciSah
<1>2. TipeKunci(P)' /\ \A u \in Sesi : u # t => Maju(u)
  BY <1>1, LepasMaju
<1>3. KunciBenar'
  BY <1>1, LepasBenar DEF KunciSah
<1>4. /\ \A u \in Sesi : u # t => tunggu'[u] \subseteq tunggu[u]
      /\ tunggu'[t] = {}
  BY DEF LepasSemua
<1>5. QED BY <1>2, <1>3, <1>4 DEF KunciSah, Lain, Jalan

\* A request brings t this one lock, or a place in its queue, and no other.
LEMMA MintaHanya ==
  ASSUME KunciSah, NEW t \in Sesi, NEW p, Jalan(t), Minta(t, p)
  PROVE  /\ \A u \in Sesi : u # t => pegang'[u] = pegang[u] /\ tunggu'[u] = tunggu[u]
         /\ pegang'[t] \subseteq pegang[t] \cup {p} /\ tunggu'[t] \subseteq {p}
BY DEF KunciSah, TipeKunci, Minta, kunciVars, Jalan

\* It is granted when nobody holds or waits for the key.
LEMMA MintaLangsung ==
  ASSUME KunciSah, NEW t \in Sesi, NEW p, Jalan(t), Minta(t, p),
         \A u \in Sesi : \A q \in pegang[u] \cup tunggu[u] : q.kunci # p.kunci
  PROVE  p \in pegang'[t]
<1>1. ~SudahPunya(t, p)
  BY DEF SudahPunya
<1>2. BebasDariPemegang(t, p) /\ \A u \in Sesi \ {t} : \A q \in tunggu[u] : ~Bentrok(p, q)
  BY DEF BebasDariPemegang, Bentrok
<1>3. QED BY <1>1, <1>2 DEF Minta, KunciSah, TipeKunci

\* The end of t brings nobody a lock that was not asked for.
LEMMA LepasHanya ==
  ASSUME KunciSah, NEW t \in Sesi, LepasSemua(t)
  PROVE  \A u \in Sesi : /\ pegang'[u] \subseteq pegang[u] \cup tunggu[u]
                         /\ tunggu'[u] \subseteq tunggu[u]
BY DEF KunciSah, TipeKunci, LepasSemua

\* Who does not wait holds what was asked for.
LEMMA Dapat ==
  ASSUME NEW t, NEW k, Jalan(t), Dipenuhi(t, [kunci |-> k, mode |-> "X"])
  PROVE  MemegangX(t, k)
BY DEF Jalan, Dipenuhi, MemegangX

\* A row has one holder.
LEMMA PemegangTunggal ==
  ASSUME KunciSah, NEW t \in Sesi, NEW u \in Sesi, t # u, NEW k, MemegangX(t, k)
  PROVE  ~MemegangX(u, k)
BY DEF KunciSah, KunciBenar, Eksklusif, Bentrok, MemegangX

\* Without a change of locks, nobody loses any.
LEMMA KunciDiam ==
  ASSUME KunciSah, UNCHANGED kunciVars
  PROVE  /\ KunciSah' /\ \A u \in Sesi : Lain(u)
         /\ \A u, k : MemegangX(u, k)' <=> MemegangX(u, k)
         /\ \A u, p : Dipenuhi(u, p)' <=> Dipenuhi(u, p)
<1>1. KunciSah'
  BY DEF KunciSah, KunciBenar, Eksklusif, AntreanUrut, TipeKunci, kunciVars
<1>2. QED BY <1>1 DEF kunciVars, Lain, Maju, MemegangX, Dipenuhi

\* Nobody else's step takes a lock from u.
LEMMA LainTetap ==
  ASSUME NEW u, Lain(u)
  PROVE  /\ Jalan(u) => Jalan(u)'
         /\ \A k : MemegangX(u, k) => MemegangX(u, k)'
         /\ \A p : Dipenuhi(u, p) => Dipenuhi(u, p)'
BY DEF Lain, Maju, Jalan, MemegangX, Dipenuhi

-----------------------------------------------------------------------------
(* Queues, and circles of waiting.                                         *)
\* Who waits, waits for one lock; who is ahead waits for the same key, and
\* whoever is ahead of him is ahead of both.
AntreanLurus ==
  /\ \A t \in Sesi : \A p, q \in tunggu[t] : p = q
  /\ \A t, u \in Sesi : u \in depan[t] =>
       /\ u # t
       /\ \E p \in tunggu[t], q \in tunggu[u] : p.kunci = q.kunci
       /\ depan[u] \subseteq depan[t]

\* u gets what it waits for, or nothing changes for it.
Geser(u) == \/ pegang'[u] = pegang[u] /\ tunggu'[u] = tunggu[u]
            \/ pegang'[u] = pegang[u] \cup tunggu[u] /\ tunggu'[u] = {}

LEMMA AntreanAwal == InitKunci => AntreanLurus
BY DEF InitKunci, AntreanLurus

LEMMA AntreanDiam ==
  ASSUME AntreanLurus, UNCHANGED kunciVars
  PROVE  AntreanLurus' /\ \A u \in Sesi : Geser(u)
BY DEF AntreanLurus, kunciVars, Geser

\* A request joins the end of its queue.
LEMMA MintaLurus ==
  ASSUME KunciSah, AntreanLurus, NEW t \in Sesi, NEW p, Jalan(t), Minta(t, p)
  PROVE  AntreanLurus' /\ \A u \in Sesi : u # t => Geser(u)
<1>1. CASE UNCHANGED kunciVars
  BY <1>1, AntreanDiam
<1>2. CASE /\ pegang' = [pegang EXCEPT ![t] = @ \cup {p}]
           /\ UNCHANGED <<tunggu, depan>>
  BY <1>2 DEF KunciSah, TipeKunci, AntreanLurus, Geser
<1>3. CASE /\ tunggu' = [tunggu EXCEPT ![t] = {p}]
           /\ depan'  = [depan EXCEPT ![t] = SebarisDengan(t, p)]
           /\ UNCHANGED pegang
  <2>1. /\ tunggu'[t] = {p} /\ depan'[t] = SebarisDengan(t, p) /\ tunggu[t] = {}
        /\ \A u \in Sesi : u # t => tunggu'[u] = tunggu[u] /\ depan'[u] = depan[u] /\ pegang'[u] = pegang[u]
    BY <1>3 DEF KunciSah, TipeKunci, Jalan
  <2>2. \A u \in Sesi : t \notin depan[u]
    BY <2>1 DEF AntreanLurus
  <2>3. depan[t] = {}
    BY <2>1 DEF AntreanLurus, KunciSah, TipeKunci
  <2>4. \A u \in Sesi : depan[u] \subseteq Sesi
    BY DEF KunciSah, TipeKunci
  <2>5. \A u \in Sesi : \A q, r \in tunggu'[u] : q = r
    BY <2>1 DEF AntreanLurus
  <2>6. ASSUME NEW v \in Sesi, NEW u \in Sesi, u \in depan'[v]
        PROVE  /\ u # v
               /\ \E q \in tunggu'[v], r \in tunggu'[u] : q.kunci = r.kunci
               /\ depan'[u] \subseteq depan'[v]
    <3>1. CASE v # t
      BY <2>1, <2>2, <2>6, <3>1 DEF AntreanLurus
    <3>2. CASE v = t
      <4>1. u # t /\ \E r \in tunggu[u] : r.kunci = p.kunci
        BY <2>1, <2>6, <3>2 DEF SebarisDengan
      <4>2. ASSUME NEW w \in depan[u] PROVE w \in SebarisDengan(t, p)
        <5>1. w \in Sesi /\ w # t
          BY <2>2, <2>4
        <5>2. PICK q \in tunggu[u], r \in tunggu[w] : q.kunci = r.kunci
          BY <5>1 DEF AntreanLurus
        <5>3. r.kunci = p.kunci
          BY <4>1, <5>2 DEF AntreanLurus
        <5>4. QED BY <5>1, <5>2, <5>3 DEF SebarisDengan
      <4>3. QED BY <2>1, <3>2, <4>1, <4>2
    <3>3. QED BY <3>1, <3>2
  <2>7. QED BY <2>1, <2>5, <2>6 DEF AntreanLurus, Geser
<1>4. QED BY <1>1, <1>2, <1>3 DEF Minta

\* Who moves up leaves every queue.
LEMMA LepasLurus ==
  ASSUME KunciSah, AntreanLurus, NEW t \in Sesi, LepasSemua(t)
  PROVE  /\ AntreanLurus' /\ \A u \in Sesi : u # t => Geser(u)
         /\ pegang'[t] = {} /\ tunggu'[t] = {}
<1>1. PICK N : N = NaikSetelah(t)
  OBVIOUS
<1>2. \A u \in Sesi : /\ u # t => pegang'[u] = IF u \in N THEN pegang[u] \cup tunggu[u] ELSE pegang[u]
                      /\ tunggu'[u] = IF u \in N \cup {t} THEN {} ELSE tunggu[u]
                      /\ depan'[u] = IF u \in N \cup {t} THEN {} ELSE depan[u] \ (N \cup {t})
  BY <1>1 DEF LepasSemua
<1>3. \A u \in Sesi : depan[u] \subseteq Sesi
  BY DEF KunciSah, TipeKunci
<1>4. ASSUME NEW u \in Sesi, NEW q \in tunggu'[u], NEW r \in tunggu'[u] PROVE q = r
  <2>1. q \in tunggu[u] /\ r \in tunggu[u]
    BY <1>2
  <2>2. QED BY <2>1 DEF AntreanLurus
<1>5. ASSUME NEW v \in Sesi, NEW u \in Sesi, u \in depan'[v]
      PROVE  /\ u # v
             /\ \E q \in tunggu'[v], r \in tunggu'[u] : q.kunci = r.kunci
             /\ depan'[u] \subseteq depan'[v]
  <2>1. v \notin N \cup {t} /\ u \notin N \cup {t} /\ u \in depan[v]
    BY <1>2, <1>5
  <2>2. /\ u # v /\ depan[u] \subseteq depan[v]
        /\ \E q \in tunggu[v], r \in tunggu[u] : q.kunci = r.kunci
    BY <2>1 DEF AntreanLurus
  <2>3. /\ tunggu'[v] = tunggu[v] /\ tunggu'[u] = tunggu[u]
        /\ depan'[v] = depan[v] \ (N \cup {t}) /\ depan'[u] = depan[u] \ (N \cup {t})
    BY <1>2, <2>1
  <2>4. QED BY <2>2, <2>3
<1>6. \A u \in Sesi : u # t => Geser(u)
  BY <1>2 DEF Geser
<1>7. pegang'[t] = {} /\ tunggu'[t] = {}
  BY DEF LepasSemua
<1>8. QED BY <1>4, <1>5, <1>6, <1>7 DEF AntreanLurus

LEMMA SusunLurus ==
  ASSUME KunciSah, AntreanLurus, NEW t \in Sesi, Susun(t)
  PROVE  AntreanLurus' /\ \A u \in Sesi : Geser(u)
<1>1. \A u \in Sesi : /\ pegang'[u] = IF u = t THEN pegang[u] \cup tunggu[u] ELSE pegang[u]
                      /\ tunggu'[u] = IF u = t THEN {} ELSE tunggu[u]
                      /\ depan'[u] = IF u = t THEN {} ELSE depan[u] \ {t}
  BY DEF Susun, KunciSah, TipeKunci
<1>2. ASSUME NEW u \in Sesi, NEW q \in tunggu'[u], NEW r \in tunggu'[u] PROVE q = r
  <2>1. q \in tunggu[u] /\ r \in tunggu[u]
    BY <1>1
  <2>2. QED BY <2>1 DEF AntreanLurus
<1>3. ASSUME NEW v \in Sesi, NEW u \in Sesi, u \in depan'[v]
      PROVE  /\ u # v
             /\ \E q \in tunggu'[v], r \in tunggu'[u] : q.kunci = r.kunci
             /\ depan'[u] \subseteq depan'[v]
  <2>1. v # t /\ u # t /\ u \in depan[v]
    BY <1>1, <1>3
  <2>2. /\ u # v /\ depan[u] \subseteq depan[v]
        /\ \E q \in tunggu[v], r \in tunggu[u] : q.kunci = r.kunci
    BY <2>1 DEF AntreanLurus
  <2>3. /\ tunggu'[v] = tunggu[v] /\ tunggu'[u] = tunggu[u]
        /\ depan'[v] = depan[v] \ {t} /\ depan'[u] = depan[u] \ {t}
    BY <1>1, <2>1
  <2>4. QED BY <2>2, <2>3
<1>4. QED BY <1>1, <1>2, <1>3 DEF AntreanLurus, Geser

\* An order in which everybody waits for somebody greater leaves no circle:
\* of a smallest set in which everybody waits for one of the set, those above
\* one of them would be a smaller one.
LEMMA TanpaLingkar ==
  ASSUME NEW E, NEW L,
         \A t, u \in Sesi : <<t, u>> \in E /\ (\E v \in Sesi : <<u, v>> \in E) => <<t, u>> \in L,
         \A t \in Sesi : <<t, t>> \notin L,
         \A t, u, v \in Sesi : <<t, u>> \in L /\ <<u, v>> \in L => <<t, v>> \in L
  PROVE  Siklus(E) = {}
<1>1. SUFFICES ASSUME NEW C \in Siklus(E) PROVE FALSE
  OBVIOUS
<1>2. C \in SUBSET Sesi /\ C # {} /\ \A t \in C : \E u \in C : <<t, u>> \in E
  BY DEF Siklus, Melingkar
<1>3. \A t \in C : \E u \in C : <<t, u>> \in L
  BY <1>2
<1>4. PICK t \in C : TRUE
  BY <1>2
<1>5. PICK D : D = {u \in C : <<t, u>> \in L}
  OBVIOUS
<1>6. D # {} /\ D \subseteq C /\ t \notin D
  BY <1>2, <1>3, <1>5
<1>7. ASSUME NEW u \in D PROVE \E v \in D : <<u, v>> \in E
  <2>1. PICK v \in C : <<u, v>> \in E
    BY <1>2, <1>6
  <2>2. \E w \in Sesi : <<v, w>> \in E
    BY <1>2
  <2>3. <<u, v>> \in L
    BY <1>2, <1>6, <2>1, <2>2
  <2>4. <<t, v>> \in L
    BY <1>2, <1>5, <1>6, <2>3
  <2>5. QED BY <1>5, <2>1, <2>4
<1>8. D \in Melingkar(E)
  BY <1>2, <1>6, <1>7 DEF Melingkar
<1>9. QED BY <1>6, <1>8 DEF Siklus

-----------------------------------------------------------------------------
(* Numbers and sums.                                                       *)
\* What is left of a list after its head.
LEMMA KepalaEkor ==
  ASSUME NEW S, NEW s \in Seq(S), s # <<>>
  PROVE  /\ Tail(s) \in Seq(S) /\ Head(s) \in S
         /\ \A x \in ToSet(s) : x = Head(s) \/ x \in ToSet(Tail(s))
         /\ Head(s) \in ToSet(s) /\ ToSet(Tail(s)) \subseteq ToSet(s)
<1>1. \A i \in 1..Len(s) : i = 1 \/ (i - 1 \in 1..Len(Tail(s)) /\ Tail(s)[i - 1] = s[i])
  OBVIOUS
<1>2. DOMAIN s = 1..Len(s) /\ DOMAIN Tail(s) = 1..Len(Tail(s)) /\ Head(s) = s[1]
  OBVIOUS
<1>3. ASSUME NEW x \in ToSet(s) PROVE x = Head(s) \/ x \in ToSet(Tail(s))
  <2>1. PICK i \in 1..Len(s) : x = s[i]
    BY <1>2 DEF ToSet
  <2>2. QED BY <1>1, <1>2, <2>1 DEF ToSet
<1>4. \A i \in 1..Len(Tail(s)) : i + 1 \in 1..Len(s) /\ Tail(s)[i] = s[i + 1]
  OBVIOUS
<1>5. ToSet(Tail(s)) \subseteq ToSet(s)
  BY <1>2, <1>4 DEF ToSet
<1>6. 1 \in 1..Len(s) /\ s[1] \in S
  OBVIOUS
<1>7. QED BY <1>2, <1>3, <1>5, <1>6 DEF ToSet

LEMMA Terkecil ==
  ASSUME NEW N \in SUBSET Nat, N # {}
  PROVE  \E n \in N : \A m \in N : n <= m
<1>1. PICK n \in N : \A m \in N : ~(<<m, n>> \in OpToRel(<, Nat))
  BY NatLessThanWellFounded, WFMin
<1>2. \A m \in N : ~(m < n)
  BY <1>1 DEF OpToRel
<1>3. QED BY <1>2

Ambil(s) == CHOOSE x \in s : TRUE

Jml(f, S) == MapThenSumSet(LAMBDA x : f[x], S)

\* F adds f up over the sets of D.
Menjumlah(F, f, D) ==
  F = [s \in D |-> IF s = {} THEN 0 ELSE f[Ambil(s)] + F[s \ {Ambil(s)}]]

Lapis(S, n) == {s \in SUBSET S : Cardinality(s) <= n}

LEMMA Ambilan == ASSUME NEW s, s # {} PROVE Ambil(s) \in s
BY DEF Ambil

LEMMA LapisTurun ==
  ASSUME NEW S, IsFiniteSet(S), NEW n \in Nat, NEW s \in Lapis(S, n), NEW x \in s
  PROVE  n > 0 /\ s \ {x} \in Lapis(S, n - 1)
<1>1. IsFiniteSet(s) /\ Cardinality(s) \in Nat
  BY FS_Subset, FS_CardinalityType DEF Lapis
<1>2. Cardinality(s \ {x}) = Cardinality(s) - 1 /\ IsFiniteSet(s \ {x})
  BY <1>1, FS_RemoveElement
<1>3. Cardinality(s \ {x}) \in Nat
  BY <1>2, FS_CardinalityType
<1>4. QED BY <1>1, <1>2, <1>3 DEF Lapis

LEMMA LapisAda ==
  ASSUME NEW S, IsFiniteSet(S), NEW f, NEW n \in Nat
  PROVE  \E F : Menjumlah(F, f, Lapis(S, n))
<1> DEFINE Buruk == {m \in Nat : ~\E F : Menjumlah(F, f, Lapis(S, m))}
<1>1. SUFFICES ASSUME Buruk # {} PROVE FALSE
  OBVIOUS
<1>2. PICK m \in Buruk : \A k \in Buruk : m <= k
  BY <1>1, Terkecil
<1>3. CASE m = 0
  <2>1. ASSUME NEW s \in Lapis(S, 0), NEW x \in s PROVE FALSE
    <3>1. 0 \in Nat
      OBVIOUS
    <3>2. 0 > 0
      BY <3>1, LapisTurun
    <3>3. QED BY <3>2
  <2>2. Menjumlah([s \in Lapis(S, 0) |-> 0], f, Lapis(S, 0))
    BY <2>1 DEF Menjumlah
  <2>3. QED BY <1>3, <2>2
<1>4. CASE m > 0
  <2>1. m - 1 \in Nat /\ m - 1 \notin Buruk
    BY <1>2, <1>4
  <2>2. PICK G : Menjumlah(G, f, Lapis(S, m - 1))
    BY <2>1
  <2> DEFINE F == [s \in Lapis(S, m) |-> IF s = {} THEN 0 ELSE f[Ambil(s)] + G[s \ {Ambil(s)}]]
  <2>3. Lapis(S, m - 1) \subseteq Lapis(S, m)
    BY FS_Subset, FS_CardinalityType DEF Lapis
  <2>4. \A s \in Lapis(S, m - 1) : F[s] = G[s]
    BY <2>2, <2>3 DEF Menjumlah
  <2>5. \A s \in Lapis(S, m) : s # {} => s \ {Ambil(s)} \in Lapis(S, m - 1)
    BY LapisTurun, Ambilan
  <2>6. \A s \in Lapis(S, m) : s # {} => F[s \ {Ambil(s)}] = G[s \ {Ambil(s)}]
    BY <2>4, <2>5
  <2>7. F = [s \in Lapis(S, m) |-> IF s = {} THEN 0 ELSE f[Ambil(s)] + F[s \ {Ambil(s)}]]
    BY <2>6
  <2>8. QED BY <2>7 DEF Menjumlah
<1>5. QED BY <1>2, <1>3, <1>4

LEMMA PenjumlahAda ==
  ASSUME NEW S, IsFiniteSet(S), NEW f
  PROVE  \E F : Menjumlah(F, f, SUBSET S)
<1>1. Cardinality(S) \in Nat
  BY FS_CardinalityType
<1>2. Lapis(S, Cardinality(S)) = SUBSET S
  BY FS_Subset DEF Lapis
<1>3. QED BY <1>1, <1>2, LapisAda

LEMMA Tunggal ==
  ASSUME NEW S, IsFiniteSet(S), NEW f, NEW F, NEW G,
         Menjumlah(F, f, SUBSET S), Menjumlah(G, f, SUBSET S)
  PROVE  F = G
<1> DEFINE Beda == {n \in Nat : \E s \in SUBSET S : Cardinality(s) = n /\ F[s] # G[s]}
<1>0. \A s \in SUBSET S : /\ F[s] = IF s = {} THEN 0 ELSE f[Ambil(s)] + F[s \ {Ambil(s)}]
                          /\ G[s] = IF s = {} THEN 0 ELSE f[Ambil(s)] + G[s \ {Ambil(s)}]
  BY DEF Menjumlah
<1>1. Beda = {}
  <2>1. SUFFICES ASSUME Beda # {} PROVE FALSE
    OBVIOUS
  <2>2. PICK n \in Beda : \A m \in Beda : n <= m
    BY <2>1, Terkecil
  <2>3. PICK s \in SUBSET S : Cardinality(s) = n /\ F[s] # G[s]
    BY <2>2
  <2>4. s # {}
    BY <1>0, <2>3
  <2>5. Ambil(s) \in s /\ s \ {Ambil(s)} \in SUBSET S
    BY <2>4, Ambilan
  <2>6. F[s \ {Ambil(s)}] # G[s \ {Ambil(s)}]
    BY <1>0, <2>3, <2>4
  <2>7. IsFiniteSet(s) /\ Cardinality(s \ {Ambil(s)}) = n - 1 /\ Cardinality(s \ {Ambil(s)}) \in Nat
    BY <2>3, <2>5, FS_Subset, FS_RemoveElement, FS_CardinalityType
  <2>8. n - 1 \in Beda
    BY <2>5, <2>6, <2>7
  <2>9. QED BY <2>2, <2>8
<1>2. \A s \in SUBSET S : F[s] = G[s]
  BY <1>1, FS_Subset, FS_CardinalityType
<1>3. QED BY <1>2 DEF Menjumlah

\* The fold of the library is that sum.
LEMMA JmlAdalah ==
  ASSUME NEW S, IsFiniteSet(S), NEW f, NEW F, Menjumlah(F, f, SUBSET S)
  PROVE  Jml(f, S) = F[S]
<1> DEFINE G == CHOOSE G : G = [s \in SUBSET S |-> IF s = {} THEN 0 ELSE f[CHOOSE x \in s : TRUE] + G[s \ {CHOOSE x \in s : TRUE}]]
<1>1. Menjumlah(G, f, SUBSET S)
  BY DEF Menjumlah, Ambil
<1>2. F = G
  BY <1>1, Tunggal
<1>3. Jml(f, S) = G[S]
  BY DEF Jml, MapThenSumSet, MapThenFoldSet
<1>4. QED BY <1>2, <1>3

-----------------------------------------------------------------------------
(* What a sum is: nothing for no summand, and any summand plus the rest.   *)
LEMMA JmlKosong == ASSUME NEW f PROVE Jml(f, {}) = 0
<1>1. PICK F : Menjumlah(F, f, SUBSET {})
  BY FS_EmptySet, PenjumlahAda
<1>2. F[{}] = 0
  BY <1>1 DEF Menjumlah
<1>3. QED BY <1>1, <1>2, FS_EmptySet, JmlAdalah

\* The sum over part of S is what the fold of S has for that part.
LEMMA JmlBagian ==
  ASSUME NEW S, IsFiniteSet(S), NEW T \in SUBSET S, NEW f, NEW F, Menjumlah(F, f, SUBSET S)
  PROVE  Jml(f, T) = F[T]
<1> DEFINE G == [s \in SUBSET T |-> F[s]]
<1>1. \A s \in SUBSET T : s # {} => Ambil(s) \in s /\ s \ {Ambil(s)} \in SUBSET T
  BY Ambilan
<1>2. \A s \in SUBSET T : G[s] = IF s = {} THEN 0 ELSE f[Ambil(s)] + G[s \ {Ambil(s)}]
  BY <1>1 DEF Menjumlah
<1>3. Menjumlah(G, f, SUBSET T)
  BY <1>2 DEF Menjumlah
<1>4. IsFiniteSet(T)
  BY FS_Subset
<1>5. QED BY <1>3, <1>4, JmlAdalah

LEMMA JmlLepas ==
  ASSUME NEW S, IsFiniteSet(S), S # {}, NEW f
  PROVE  Jml(f, S) = f[Ambil(S)] + Jml(f, S \ {Ambil(S)})
<1>1. PICK F : Menjumlah(F, f, SUBSET S)
  BY PenjumlahAda
<1>2. F[S] = f[Ambil(S)] + F[S \ {Ambil(S)}]
  BY <1>1 DEF Menjumlah
<1>3. QED BY <1>1, <1>2, JmlBagian

\* Sums of integers: a set of the least size for which something goes wrong
\* is not empty, and taking an element from it leaves one that is right.
LEMMA JmlBulat ==
  ASSUME NEW S, IsFiniteSet(S), NEW f, \A x \in S : f[x] \in Int
  PROVE  Jml(f, S) \in Int
<1> DEFINE Buruk == {n \in Nat : \E s \in SUBSET S : Cardinality(s) = n /\ Jml(f, s) \notin Int}
<1>1. Buruk = {}
  <2>1. SUFFICES ASSUME Buruk # {} PROVE FALSE
    OBVIOUS
  <2>2. PICK n \in Buruk : \A m \in Buruk : n <= m
    BY <2>1, Terkecil
  <2>3. PICK s \in SUBSET S : Cardinality(s) = n /\ Jml(f, s) \notin Int
    BY <2>2
  <2>4. s # {} /\ IsFiniteSet(s)
    <3>1. ASSUME s = {} PROVE FALSE
      <4>1. Jml(f, {}) = 0
        BY JmlKosong
      <4>2. QED BY <2>3, <3>1, <4>1
    <3>2. QED BY <3>1, FS_Subset
  <2> DEFINE r == s \ {Ambil(s)}
  <2>5. /\ Ambil(s) \in s /\ r \in SUBSET S
        /\ Cardinality(r) = n - 1 /\ Cardinality(r) \in Nat
    BY <2>3, <2>4, Ambilan, FS_RemoveElement, FS_CardinalityType
  <2>6. Jml(f, r) \notin Int
    <3>1. Jml(f, s) = f[Ambil(s)] + Jml(f, r)
      BY <2>4, JmlLepas
    <3>2. f[Ambil(s)] \in Int
      BY <2>5
    <3>3. QED BY <2>3, <3>1, <3>2
  <2>7. n - 1 \in Buruk
    BY <2>5, <2>6
  <2>8. QED BY <2>2, <2>7
<1>2. QED BY <1>1, FS_CardinalityType

\* Any element may be taken out first.
LEMMA JmlAmbil ==
  ASSUME NEW S, IsFiniteSet(S), NEW f, \A x \in S : f[x] \in Int, NEW x \in S
  PROVE  Jml(f, S) = f[x] + Jml(f, S \ {x})
<1> DEFINE Salah(s) == \E y \in s : Jml(f, s) # f[y] + Jml(f, s \ {y})
<1> DEFINE Buruk == {n \in Nat : \E s \in SUBSET S : Cardinality(s) = n /\ Salah(s)}
<1>1. Buruk = {}
  <2>1. SUFFICES ASSUME Buruk # {} PROVE FALSE
    OBVIOUS
  <2>2. PICK n \in Buruk : \A m \in Buruk : n <= m
    BY <2>1, Terkecil
  <2>3. PICK s \in SUBSET S : Cardinality(s) = n /\ Salah(s)
    BY <2>2
  <2>4. PICK y \in s : Jml(f, s) # f[y] + Jml(f, s \ {y})
    BY <2>3
  <2> DEFINE z == Ambil(s)
  <2>5. IsFiniteSet(s) /\ z \in s /\ Jml(f, s) = f[z] + Jml(f, s \ {z})
    BY <2>4, FS_Subset, Ambilan, JmlLepas
  <2>6. y # z
    BY <2>4, <2>5
  <2> DEFINE r == s \ {z}
  <2>7. /\ r \in SUBSET S /\ y \in r /\ IsFiniteSet(r) /\ Cardinality(r) = n - 1
        /\ Cardinality(r) \in Nat
    BY <2>3, <2>5, <2>6, FS_RemoveElement, FS_CardinalityType
  <2>8. ~Salah(r)
    BY <2>2, <2>7
  <2>9. Jml(f, r) = f[y] + Jml(f, r \ {y})
    BY <2>7, <2>8
  <2> DEFINE q == s \ {y}
  <2>10. /\ q \in SUBSET S /\ z \in q /\ IsFiniteSet(q) /\ Cardinality(q) = n - 1
         /\ Cardinality(q) \in Nat
    BY <2>3, <2>5, <2>6, FS_RemoveElement, FS_CardinalityType
  <2>11. ~Salah(q)
    BY <2>2, <2>10
  <2>12. Jml(f, q) = f[z] + Jml(f, q \ {z})
    BY <2>10, <2>11
  <2>13. q \ {z} = r \ {y} /\ IsFiniteSet(r \ {y}) /\ r \ {y} \in SUBSET S
    BY <2>7, FS_RemoveElement
  <2>14. Jml(f, r \ {y}) \in Int /\ f[y] \in Int /\ f[z] \in Int
    BY <2>5, <2>13, JmlBulat
  <2>15. QED BY <2>4, <2>5, <2>9, <2>12, <2>13, <2>14
<1>2. QED BY <1>1, FS_CardinalityType

\* A sum only depends on its summands, and grows with them.
LEMMA JmlNaik ==
  ASSUME NEW S, IsFiniteSet(S), NEW f, NEW g,
         \A x \in S : f[x] \in Int /\ g[x] \in Int /\ f[x] <= g[x]
  PROVE  Jml(f, S) <= Jml(g, S)
<1> DEFINE Buruk == {n \in Nat : \E s \in SUBSET S : Cardinality(s) = n /\ ~(Jml(f, s) <= Jml(g, s))}
<1>1. Buruk = {}
  <2>1. SUFFICES ASSUME Buruk # {} PROVE FALSE
    OBVIOUS
  <2>2. PICK n \in Buruk : \A m \in Buruk : n <= m
    BY <2>1, Terkecil
  <2>3. PICK s \in SUBSET S : Cardinality(s) = n /\ ~(Jml(f, s) <= Jml(g, s))
    BY <2>2
  <2>4. s # {} /\ IsFiniteSet(s)
    <3>1. ASSUME s = {} PROVE FALSE
      <4>1. Jml(f, {}) = 0 /\ Jml(g, {}) = 0
        BY JmlKosong
      <4>2. QED BY <2>3, <3>1, <4>1
    <3>2. QED BY <3>1, FS_Subset
  <2> DEFINE z == Ambil(s)
  <2> DEFINE r == s \ {z}
  <2>5. /\ z \in s /\ r \in SUBSET S /\ IsFiniteSet(r)
        /\ Cardinality(r) = n - 1 /\ Cardinality(r) \in Nat
    BY <2>3, <2>4, Ambilan, FS_RemoveElement, FS_CardinalityType
  <2>6. Jml(f, s) = f[z] + Jml(f, r) /\ Jml(g, s) = g[z] + Jml(g, r)
    BY <2>4, JmlLepas
  <2>7. Jml(f, r) \in Int /\ Jml(g, r) \in Int /\ f[z] \in Int /\ g[z] \in Int /\ f[z] <= g[z]
    BY <2>5, JmlBulat
  <2>8. ~(Jml(f, r) <= Jml(g, r))
    BY <2>3, <2>6, <2>7
  <2>9. n - 1 \in Buruk
    BY <2>5, <2>8
  <2>10. QED BY <2>2, <2>9
<1>2. QED BY <1>1, FS_CardinalityType

LEMMA JmlSama ==
  ASSUME NEW S, IsFiniteSet(S), NEW f, NEW g, \A x \in S : f[x] = g[x]
  PROVE  Jml(f, S) = Jml(g, S)
<1>1. PICK F : Menjumlah(F, f, SUBSET S)
  BY PenjumlahAda
<1>2. \A s \in SUBSET S : s # {} => f[Ambil(s)] = g[Ambil(s)]
  BY Ambilan
<1>3. Menjumlah(F, g, SUBSET S)
  BY <1>1, <1>2 DEF Menjumlah
<1>4. QED BY <1>1, <1>3, JmlAdalah

LEMMA JmlAlami ==
  ASSUME NEW S, IsFiniteSet(S), NEW f, \A x \in S : f[x] \in Nat
  PROVE  Jml(f, S) \in Nat
<1> DEFINE nol == [x \in S |-> 0]
<1>1. Jml(f, S) \in Int
  BY JmlBulat
<1>2. Jml(nol, S) <= Jml(f, S)
  BY JmlNaik
<1>3. Jml(nol, S) = 0
  <2> DEFINE F == [s \in SUBSET S |-> 0]
  <2>1. \A s \in SUBSET S : s # {} => Ambil(s) \in s /\ s \ {Ambil(s)} \in SUBSET S
    BY Ambilan
  <2>2. \A s \in SUBSET S : F[s] = IF s = {} THEN 0 ELSE nol[Ambil(s)] + F[s \ {Ambil(s)}]
    BY <2>1
  <2>3. Menjumlah(F, nol, SUBSET S)
    BY <2>2 DEF Menjumlah
  <2>4. QED BY <2>3, JmlAdalah
<1>4. QED BY <1>1, <1>2, <1>3

\* Summands that are nothing may be left out.
LEMMA JmlSempit ==
  ASSUME NEW S, IsFiniteSet(S), NEW T \in SUBSET S, NEW f, \A x \in S : f[x] \in Int,
         \A x \in S \ T : f[x] = 0
  PROVE  Jml(f, T) = Jml(f, S)
<1> DEFINE Salah(s) == T \subseteq s /\ Jml(f, s) # Jml(f, T)
<1> DEFINE Buruk == {n \in Nat : \E s \in SUBSET S : Cardinality(s) = n /\ Salah(s)}
<1>1. Buruk = {}
  <2>1. SUFFICES ASSUME Buruk # {} PROVE FALSE
    OBVIOUS
  <2>2. PICK n \in Buruk : \A m \in Buruk : n <= m
    BY <2>1, Terkecil
  <2>3. PICK s \in SUBSET S : Cardinality(s) = n /\ Salah(s)
    BY <2>2
  <2>4. PICK z \in s : z \notin T
    <3>1. s # T
      BY <2>3
    <3>2. QED BY <2>3, <3>1
  <2> DEFINE r == s \ {z}
  <2>5. /\ r \in SUBSET S /\ T \subseteq r /\ IsFiniteSet(s) /\ IsFiniteSet(r)
        /\ Cardinality(r) = n - 1 /\ Cardinality(r) \in Nat
    BY <2>3, <2>4, FS_Subset, FS_RemoveElement, FS_CardinalityType
  <2>6. Jml(f, s) = f[z] + Jml(f, r)
    BY <2>5, JmlAmbil
  <2>7. f[z] = 0 /\ Jml(f, r) \in Int
    BY <2>4, <2>5, JmlBulat
  <2>8. Salah(r)
    BY <2>3, <2>5, <2>6, <2>7
  <2>9. n - 1 \in Buruk
    BY <2>5, <2>8
  <2>10. QED BY <2>2, <2>9
<1>2. QED BY <1>1, FS_CardinalityType

LEMMA JmlNol ==
  ASSUME NEW S, IsFiniteSet(S), NEW f, \A x \in S : f[x] = 0
  PROVE  Jml(f, S) = 0
<1>1. {} \in SUBSET S /\ \A x \in S : f[x] \in Int
  OBVIOUS
<1>2. Jml(f, {}) = Jml(f, S)
  BY <1>1, JmlSempit
<1>3. QED BY <1>2, JmlKosong

\* Sums are added term by term.
LEMMA JmlTambah ==
  ASSUME NEW S, IsFiniteSet(S), NEW f, NEW g, NEW h,
         \A x \in S : f[x] \in Int /\ g[x] \in Int /\ h[x] = f[x] + g[x]
  PROVE  Jml(h, S) = Jml(f, S) + Jml(g, S)
<1> DEFINE Salah(s) == Jml(h, s) # Jml(f, s) + Jml(g, s)
<1> DEFINE Buruk == {n \in Nat : \E s \in SUBSET S : Cardinality(s) = n /\ Salah(s)}
<1>1. Buruk = {}
  <2>1. SUFFICES ASSUME Buruk # {} PROVE FALSE
    OBVIOUS
  <2>2. PICK n \in Buruk : \A m \in Buruk : n <= m
    BY <2>1, Terkecil
  <2>3. PICK s \in SUBSET S : Cardinality(s) = n /\ Salah(s)
    BY <2>2
  <2>4. s # {} /\ IsFiniteSet(s)
    <3>1. ASSUME s = {} PROVE FALSE
      <4>1. Jml(f, {}) = 0 /\ Jml(g, {}) = 0 /\ Jml(h, {}) = 0
        BY JmlKosong
      <4>2. QED BY <2>3, <3>1, <4>1
    <3>2. QED BY <3>1, FS_Subset
  <2> DEFINE z == Ambil(s)
  <2> DEFINE r == s \ {z}
  <2>5. /\ z \in s /\ r \in SUBSET S /\ IsFiniteSet(r)
        /\ Cardinality(r) = n - 1 /\ Cardinality(r) \in Nat
    BY <2>3, <2>4, Ambilan, FS_RemoveElement, FS_CardinalityType
  <2>6. /\ Jml(f, s) = f[z] + Jml(f, r) /\ Jml(g, s) = g[z] + Jml(g, r)
        /\ Jml(h, s) = h[z] + Jml(h, r)
    BY <2>4, JmlLepas
  <2>7. Jml(f, r) \in Int /\ Jml(g, r) \in Int /\ f[z] \in Int /\ g[z] \in Int /\ h[z] = f[z] + g[z]
    BY <2>5, JmlBulat
  <2>8. Salah(r)
    BY <2>3, <2>6, <2>7
  <2>9. n - 1 \in Buruk
    BY <2>5, <2>8
  <2>10. QED BY <2>2, <2>9
<1>2. QED BY <1>1, FS_CardinalityType

\* The sum over two sets that share nothing.
LEMMA JmlPisah ==
  ASSUME NEW S, NEW T, IsFiniteSet(S), IsFiniteSet(T), S \cap T = {}, NEW f,
         \A x \in S \cup T : f[x] \in Int
  PROVE  Jml(f, S \cup T) = Jml(f, S) + Jml(f, T)
<1>1. PICK U : U = S \cup T
  OBVIOUS
<1>2. IsFiniteSet(U) /\ S \in SUBSET U /\ T \in SUBSET U
  BY <1>1, FS_Union
<1>3. PICK a : a = [x \in U |-> IF x \in S THEN f[x] ELSE 0]
  OBVIOUS
<1>4. PICK b : b = [x \in U |-> IF x \in S THEN 0 ELSE f[x]]
  OBVIOUS
<1>5. /\ \A x \in U : a[x] \in Int /\ b[x] \in Int /\ f[x] = a[x] + b[x]
      /\ \A x \in S : a[x] = f[x]
      /\ \A x \in T : b[x] = f[x]
      /\ \A x \in U \ S : a[x] = 0
      /\ \A x \in U \ T : b[x] = 0
  BY <1>1, <1>3, <1>4
<1>6. Jml(f, U) = Jml(a, U) + Jml(b, U)
  BY <1>2, <1>5, JmlTambah
<1>7. Jml(a, S) = Jml(a, U) /\ Jml(b, T) = Jml(b, U)
  BY <1>2, <1>5, JmlSempit
<1>8. Jml(a, S) = Jml(f, S) /\ Jml(b, T) = Jml(f, T)
  BY <1>5, JmlSama
<1>9. QED BY <1>1, <1>6, <1>7, <1>8

\* A table is summed by rows or by columns.
LEMMA JmlTukar ==
  ASSUME NEW S, NEW T, IsFiniteSet(S), IsFiniteSet(T), NEW f,
         \A x \in S : \A y \in T : f[x][y] \in Int
  PROVE  Jml([x \in S |-> Jml(f[x], T)], S) = Jml([y \in T |-> Jml([x \in S |-> f[x][y]], S)], T)
<1>1. PICK g : g = [x \in S |-> Jml(f[x], T)]
  OBVIOUS
<1>2. PICK k : k = [y \in T |-> [x \in S |-> f[x][y]]]
  OBVIOUS
<1> DEFINE Kol(s) == [y \in T |-> Jml(k[y], s)]
<1> DEFINE Salah(s) == Jml(g, s) # Jml(Kol(s), T)
<1> DEFINE Buruk == {n \in Nat : \E s \in SUBSET S : Cardinality(s) = n /\ Salah(s)}
<1>3. \A x \in S : g[x] = Jml(f[x], T) /\ g[x] \in Int
  BY <1>1, JmlBulat
<1>4. \A y \in T : \A x \in S : k[y][x] = f[x][y] /\ k[y][x] \in Int
  BY <1>2
<1>5. Buruk = {}
  <2>1. SUFFICES ASSUME Buruk # {} PROVE FALSE
    OBVIOUS
  <2>2. PICK n \in Buruk : \A m \in Buruk : n <= m
    BY <2>1, Terkecil
  <2>3. PICK s \in SUBSET S : Cardinality(s) = n /\ Salah(s)
    BY <2>2
  <2>4. s # {} /\ IsFiniteSet(s)
    <3>1. ASSUME s = {} PROVE FALSE
      <4>1. Jml(g, {}) = 0 /\ \A y \in T : Jml(k[y], {}) = 0
        BY JmlKosong
      <4>2. PICK c : c = Kol({})
        OBVIOUS
      <4>3. \A y \in T : c[y] = 0
        BY <4>1, <4>2
      <4>4. Jml(c, T) = 0
        BY <4>3, JmlNol
      <4>5. QED BY <2>3, <3>1, <4>1, <4>2, <4>4
    <3>2. QED BY <3>1, FS_Subset
  <2>5. PICK z : z \in s
    BY <2>4
  <2>6. PICK r : r = s \ {z}
    OBVIOUS
  <2>7. /\ z \in s /\ r \in SUBSET S /\ IsFiniteSet(r) /\ z \in S
        /\ Cardinality(r) = n - 1 /\ Cardinality(r) \in Nat
    BY <2>3, <2>4, <2>5, <2>6, FS_RemoveElement, FS_CardinalityType
  <2>8. Jml(g, s) = g[z] + Jml(g, r)
    BY <1>3, <2>3, <2>4, <2>6, <2>7, JmlAmbil
  <2>9. \A y \in T : /\ Jml(k[y], s) = k[y][z] + Jml(k[y], r)
                     /\ Jml(k[y], r) \in Int
    <3> SUFFICES ASSUME NEW y \in T
                 PROVE  Jml(k[y], s) = k[y][z] + Jml(k[y], r) /\ Jml(k[y], r) \in Int
      OBVIOUS
    <3>1. PICK c : c = k[y]
      OBVIOUS
    <3>2. \A x \in s : c[x] \in Int
      BY <1>4, <2>3, <3>1
    <3>3. Jml(c, s) = c[z] + Jml(c, r)
      BY <2>4, <2>5, <2>6, <3>2, JmlAmbil
    <3>4. Jml(c, r) \in Int
      BY <2>6, <2>7, <3>2, JmlBulat
    <3>5. QED BY <3>1, <3>3, <3>4
  <2>10. PICK p : p = Kol(s)
    OBVIOUS
  <2>11. PICK q : q = Kol(r)
    OBVIOUS
  <2>12. \A y \in T : f[z][y] \in Int /\ q[y] \in Int /\ p[y] = f[z][y] + q[y]
    BY <1>4, <2>7, <2>9, <2>10, <2>11
  <2>13. PICK b : b = f[z]
    OBVIOUS
  <2>14. Jml(p, T) = Jml(b, T) + Jml(q, T)
    BY <2>12, <2>13, JmlTambah
  <2>15. g[z] = Jml(b, T)
    BY <1>3, <2>7, <2>13
  <2>16. Jml(b, T) \in Int /\ Jml(q, T) \in Int /\ Jml(g, r) \in Int
    BY <1>3, <2>7, <2>12, <2>13, JmlBulat
  <2>17. Salah(r)
    BY <2>3, <2>8, <2>10, <2>11, <2>14, <2>15, <2>16
  <2>18. n - 1 \in Buruk
    BY <2>7, <2>17
  <2>19. QED BY <2>2, <2>18
<1>6. ~Salah(S)
  <2>1. S \in SUBSET S /\ Cardinality(S) \in Nat
    BY FS_CardinalityType
  <2>2. QED BY <1>5, <2>1
<1>7. PICK c : c = Kol(S)
  OBVIOUS
<1>8. Jml(g, S) = Jml(c, T)
  BY <1>6, <1>7
<1>9. PICK d : d = [y \in T |-> Jml([x \in S |-> f[x][y]], S)]
  OBVIOUS
<1>10. \A y \in T : c[y] = d[y]
  BY <1>2, <1>7, <1>9
<1>11. Jml(c, T) = Jml(d, T)
  BY <1>10, JmlSama
<1>12. QED BY <1>1, <1>8, <1>9, <1>11

\* Two terms apart, the others stay out of a difference of sums.
LEMMA JmlDua ==
  ASSUME NEW S, IsFiniteSet(S), NEW f, NEW g, \A r \in S : f[r] \in Int /\ g[r] \in Int,
         NEW a \in S, NEW b \in S, a # b, \A r \in S : r # a /\ r # b => g[r] = f[r]
  PROVE  Jml(g, S) - Jml(f, S) = (g[a] - f[a]) + (g[b] - f[b])
<1>1. PICK U : U = S \ {a}
  OBVIOUS
<1>2. PICK T : T = U \ {b}
  OBVIOUS
<1>3. IsFiniteSet(U) /\ IsFiniteSet(T) /\ U \subseteq S /\ T \subseteq S /\ b \in U
  BY <1>1, <1>2, FS_Subset
<1>4. Jml(f, S) = f[a] + Jml(f, U) /\ Jml(g, S) = g[a] + Jml(g, U)
  BY <1>1, JmlAmbil
<1>5. Jml(f, U) = f[b] + Jml(f, T) /\ Jml(g, U) = g[b] + Jml(g, T)
  BY <1>2, <1>3, JmlAmbil
<1>6. Jml(f, T) = Jml(g, T)
  <2>1. \A r \in T : f[r] = g[r]
    BY <1>1, <1>2
  <2>2. QED BY <1>3, <2>1, JmlSama
<1>7. Jml(f, T) \in Int
  BY <1>3, JmlBulat
<1>8. QED BY <1>4, <1>5, <1>6, <1>7

\* The sum of a set of numbers.
LEMMA SumSetJml ==
  ASSUME NEW S, IsFiniteSet(S)
  PROVE  SumSet(S) = Jml([x \in S |-> x], S)
<1> DEFINE f == [x \in S |-> x]
<1> DEFINE G == CHOOSE G : G = [s \in SUBSET S |-> IF s = {} THEN 0
                   ELSE (CHOOSE x \in s : TRUE) + G[s \ {CHOOSE x \in s : TRUE}]]
<1>1. PICK F : Menjumlah(F, f, SUBSET S)
  BY PenjumlahAda
<1>2. \A s \in SUBSET S : s # {} => f[Ambil(s)] = CHOOSE x \in s : TRUE
  BY DEF Ambil
<1>3. F = [s \in SUBSET S |-> IF s = {} THEN 0
             ELSE (CHOOSE x \in s : TRUE) + F[s \ {CHOOSE x \in s : TRUE}]]
  BY <1>1, <1>2 DEF Ambil, Menjumlah
<1>4. G = [s \in SUBSET S |-> IF s = {} THEN 0
             ELSE (CHOOSE x \in s : TRUE) + G[s \ {CHOOSE x \in s : TRUE}]]
  BY <1>3
<1>5. SumSet(S) = G[S]
  BY DEF SumSet, FoldSet, MapThenFoldSet
<1> HIDE DEF G
<1>6. Menjumlah(G, f, SUBSET S)
  BY <1>4, <1>2 DEF Menjumlah, Ambil
<1>7. QED BY <1>5, <1>6, JmlAdalah

LEMMA SumSetKecil ==
  /\ SumSet({}) = 0
  /\ \A x \in Int : SumSet({x}) = x
<1>1. SumSet({}) = 0
  BY FS_EmptySet, SumSetJml, JmlKosong
<1>2. ASSUME NEW x \in Int PROVE SumSet({x}) = x
  <2> DEFINE f == [y \in {x} |-> y]
  <2>1. IsFiniteSet({x}) /\ {x} \ {x} = {} /\ x \in {x} /\ f[x] = x
    BY FS_Singleton
  <2>2. SumSet({x}) = Jml(f, {x})
    BY <2>1, SumSetJml
  <2>3. \A y \in {x} : f[y] \in Int
    OBVIOUS
  <2> HIDE DEF f
  <2>4. Jml(f, {x}) = f[x] + Jml(f, {x} \ {x})
    BY <2>1, <2>3, JmlAmbil
  <2>5. Jml(f, {x} \ {x}) = 0
    BY <2>1, JmlKosong
  <2>6. QED BY <2>1, <2>2, <2>4, <2>5
<1>3. QED BY <1>1, <1>2

LEMMA SumSetAlami ==
  ASSUME NEW S \in SUBSET Nat, IsFiniteSet(S)
  PROVE  SumSet(S) \in Nat
BY SumSetJml, JmlAlami

\* What a function makes of a finite set is finite.
LEMMA Citra ==
  ASSUME NEW S, IsFiniteSet(S), NEW f
  PROVE  IsFiniteSet({f[x] : x \in S})
<1> DEFINE g == [x \in S |-> f[x]]
<1>1. g \in Surjection(S, {f[x] : x \in S})
  BY DEF Surjection
<1>2. QED BY <1>1, FS_Surjection

\* What a list holds is finite.
LEMMA ToSetTerhingga ==
  ASSUME NEW S, NEW s \in Seq(S)
  PROVE  ToSet(s) \subseteq S /\ IsFiniteSet(ToSet(s))
<1>1. DOMAIN s = 1..Len(s) /\ Len(s) \in Nat /\ \A i \in DOMAIN s : s[i] \in S
  OBVIOUS
<1>2. IsFiniteSet(DOMAIN s)
  BY <1>1, FS_Interval
<1>3. IsFiniteSet({s[i] : i \in DOMAIN s})
  BY <1>2, Citra
<1>4. QED BY <1>1, <1>3 DEF ToSet

\* A finite set of numbers has a greatest one.
LEMMA AdaMaks ==
  ASSUME NEW S, IsFiniteSet(S), S \subseteq Int, S # {}
  PROVE  Max(S) \in S /\ \A x \in S : x <= Max(S)
<1> DEFINE Tinggi(s) == \E x \in s : \A y \in s : x >= y
<1> DEFINE Buruk == {n \in Nat : \E s \in SUBSET S : Cardinality(s) = n /\ s # {} /\ ~Tinggi(s)}
<1>1. Buruk = {}
  <2>1. SUFFICES ASSUME Buruk # {} PROVE FALSE
    OBVIOUS
  <2>2. PICK n \in Buruk : \A m \in Buruk : n <= m
    BY <2>1, Terkecil
  <2>3. PICK s \in SUBSET S : Cardinality(s) = n /\ s # {} /\ ~Tinggi(s)
    BY <2>2
  <2>4. PICK z \in s : TRUE
    BY <2>3
  <2> DEFINE r == s \ {z}
  <2>5. /\ r \in SUBSET S /\ Cardinality(r) = n - 1 /\ Cardinality(r) \in Nat
    BY <2>3, FS_Subset, FS_RemoveElement, FS_CardinalityType
  <2>6. CASE r = {}
    BY <2>3, <2>6
  <2>7. CASE r # {}
    <3>1. Tinggi(r)
      BY <2>2, <2>5, <2>7
    <3>2. PICK x \in r : \A y \in r : x >= y
      BY <3>1
    <3>3. Tinggi(s)
      BY <3>2
    <3>4. QED BY <2>3, <3>3
  <2>8. QED BY <2>6, <2>7
<1>2. Tinggi(S)
  BY <1>1, FS_CardinalityType
<1>3. QED BY <1>2 DEF Max

-----------------------------------------------------------------------------
(* Lists of what is in a set.                                              *)
\* A list that names each element once names them all.
LEMMA SekaliSemua ==
  ASSUME NEW S, IsFiniteSet(S), NEW s \in [1..Cardinality(S) -> S], IsInjective(s)
  PROVE  s \in Seq(S) /\ ToSet(s) = S
<1>1. Cardinality(S) \in Nat
  BY FS_CardinalityType
<1>2. s \in Seq(S) /\ Len(s) = Cardinality(S) /\ DOMAIN s = 1..Cardinality(S)
  BY <1>1
<1>3. IsFiniteSet(1..Cardinality(S)) /\ Cardinality(1..Cardinality(S)) = Cardinality(S)
  BY <1>1, FS_Interval
<1>4. s \in Injection(1..Cardinality(S), S)
  BY DEF IsInjective, Injection
<1>5. s \in Surjection(1..Cardinality(S), S)
  BY <1>3, <1>4, FS_Injection
<1>6. QED BY <1>2, <1>5 DEF Surjection, ToSet

LEMMA SetToSeqBenar ==
  ASSUME NEW S, IsFiniteSet(S)
  PROVE  SetToSeq(S) \in Seq(S) /\ ToSet(SetToSeq(S)) = S
<1>1. PICK f : f \in Bijection(1..Cardinality(S), S)
  BY FS_CardinalityType DEF ExistsBijection
<1>2. f \in [1..Cardinality(S) -> S] /\ IsInjective(f)
  BY <1>1 DEF Bijection, Injection, IsInjective
<1>3. SetToSeq(S) \in [1..Cardinality(S) -> S] /\ IsInjective(SetToSeq(S))
  BY <1>2 DEF SetToSeq
<1>4. QED BY <1>3, SekaliSemua

\* A finite set of numbers can be put in order.
Terurut(s, S) ==
  /\ s \in [1..Cardinality(S) -> S]
  /\ \A i, j \in 1..Cardinality(S) : i < j => s[i] < s[j]

LEMMA UrutanAda ==
  ASSUME NEW S \in SUBSET Nat, IsFiniteSet(S)
  PROVE  \E s : Terurut(s, S)
<1> DEFINE Buruk == {n \in Nat : \E T \in SUBSET S : Cardinality(T) = n /\ ~\E s : Terurut(s, T)}
<1>1. Buruk = {}
  <2>1. SUFFICES ASSUME Buruk # {} PROVE FALSE
    OBVIOUS
  <2>2. PICK n \in Buruk : \A m \in Buruk : n <= m
    BY <2>1, Terkecil
  <2>3. PICK T \in SUBSET S : Cardinality(T) = n /\ ~\E s : Terurut(s, T)
    BY <2>2
  <2>4. IsFiniteSet(T) /\ n \in Nat
    BY FS_Subset
  <2>5. T # {}
    <3>1. SUFFICES ASSUME T = {} PROVE FALSE
      OBVIOUS
    <3>2. Cardinality(T) = 0
      BY <3>1, FS_EmptySet
    <3>3. Terurut([i \in 1..0 |-> 0], T)
      BY <3>2 DEF Terurut
    <3>4. QED BY <2>3, <3>3
  <2>6. PICK m : m \in T /\ \A x \in T : x <= m
    <3>1. T \subseteq Int
      OBVIOUS
    <3>2. QED BY <2>4, <2>5, <3>1, AdaMaks
  <2> DEFINE r == T \ {m}
  <2>7. r \in SUBSET S /\ Cardinality(r) = n - 1 /\ n - 1 \in Nat
    <3>1. IsFiniteSet(r) /\ Cardinality(r) = Cardinality(T) - 1
      BY <2>4, <2>6, FS_RemoveElement
    <3>2. Cardinality(r) \in Nat
      BY <3>1, FS_CardinalityType
    <3>3. QED BY <2>3, <3>1, <3>2
  <2>8. n - 1 \notin Buruk
    BY <2>2, <2>4
  <2>9. PICK q : Terurut(q, r)
    BY <2>7, <2>8
  <2> DEFINE s == [i \in 1..n |-> IF i < n THEN q[i] ELSE m]
  <2>10. \A i \in 1..n : i < n => i \in 1..(n - 1) /\ q[i] \in T /\ q[i] < m
    <3>1. SUFFICES ASSUME NEW i \in 1..n, i < n PROVE i \in 1..(n - 1) /\ q[i] \in T /\ q[i] < m
      OBVIOUS
    <3>2. i \in 1..(n - 1)
      BY <2>4, <3>1
    <3>3. q[i] \in r
      BY <2>7, <2>9, <3>2 DEF Terurut
    <3>4. q[i] \in T /\ q[i] # m /\ q[i] <= m /\ q[i] \in Nat /\ m \in Nat
      BY <2>6, <3>3
    <3>5. QED BY <3>2, <3>4
  <2>11. s \in [1..n -> T]
    BY <2>6, <2>10
  <2>12. \A i, j \in 1..n : i < j => s[i] < s[j]
    <3>1. SUFFICES ASSUME NEW i \in 1..n, NEW j \in 1..n, i < j PROVE s[i] < s[j]
      OBVIOUS
    <3>2. i < n
      BY <2>4, <3>1
    <3>3. CASE j < n
      <4>1. q[i] < q[j]
        BY <2>7, <2>9, <2>10, <3>1, <3>2, <3>3 DEF Terurut
      <4>2. QED BY <3>2, <3>3, <4>1
    <3>4. CASE ~(j < n)
      BY <2>10, <3>2, <3>4
    <3>5. QED BY <3>3, <3>4
  <2>13. Terurut(s, T)
    BY <2>3, <2>11, <2>12 DEF Terurut
  <2>14. QED BY <2>3, <2>13
<1>2. QED BY <1>1, FS_CardinalityType

LEMMA UrutNaikBenar ==
  ASSUME NEW S \in SUBSET Nat, IsFiniteSet(S)
  PROVE  UrutNaik(S) \in Seq(S) /\ ToSet(UrutNaik(S)) = S
<1> DEFINE s == UrutNaik(S)
<1>1. Terurut(s, S)
  BY UrutanAda DEF Terurut, UrutNaik
<1>2. Cardinality(S) \in Nat
  BY FS_CardinalityType
<1> HIDE DEF s
<1>3. IsInjective(s)
  <2>1. SUFFICES ASSUME NEW i \in 1..Cardinality(S), NEW j \in 1..Cardinality(S), s[i] = s[j]
                 PROVE  i = j
    BY <1>1 DEF IsInjective, Terurut
  <2>2. s[i] \in Nat
    BY <1>1 DEF Terurut
  <2>3. ~(i < j) /\ ~(j < i)
    BY <1>1, <2>1, <2>2 DEF Terurut
  <2>4. QED BY <2>3
<1>4. s \in [1..Cardinality(S) -> S]
  BY <1>1 DEF Terurut
<1>5. QED BY <1>3, <1>4, SekaliSemua DEF s

LEMMA BagianHingga ==
  ASSUME NEW n \in Nat
  PROVE  IsFiniteSet(1..n) /\ 1..n \subseteq Nat
BY FS_Interval

\* A term larger, the sum is.
LEMMA JmlTitik ==
  ASSUME NEW S, IsFiniteSet(S), NEW f, NEW g, NEW t \in S, NEW c \in Int,
         \A x \in S : f[x] \in Int /\ g[x] = f[x] + (IF x = t THEN c ELSE 0)
  PROVE  Jml(g, S) = Jml(f, S) + c
<1>1. PICK e : e = [x \in S |-> IF x = t THEN c ELSE 0]
  OBVIOUS
<1>2. \A x \in S : f[x] \in Int /\ e[x] \in Int /\ g[x] = f[x] + e[x]
  BY <1>1
<1>3. Jml(g, S) = Jml(f, S) + Jml(e, S)
  BY <1>2, JmlTambah
<1>4. Jml(e, S) = c
  <2>1. Jml(e, S) = e[t] + Jml(e, S \ {t})
    BY <1>2, JmlAmbil
  <2>2. IsFiniteSet(S \ {t}) /\ \A x \in S \ {t} : e[x] = 0
    BY <1>1, FS_Subset
  <2>3. Jml(e, S \ {t}) = 0
    BY <2>2, JmlNol
  <2>4. e[t] = c
    BY <1>1
  <2>5. QED BY <2>1, <2>3, <2>4
<1>5. QED BY <1>3, <1>4

\* A product with a factor that is not negative keeps an order.
LEMMA KaliNaik ==
  ASSUME NEW a \in Int, NEW b \in Int, NEW c \in Nat, a <= b
  PROVE  c * a <= c * b /\ c * a \in Int /\ c * b \in Int
OBVIOUS

\* A factor above zero can be left out.
LEMMA KaliTurun ==
  ASSUME NEW q \in Nat, q > 0, NEW a \in Int, NEW b \in Int, q * a <= q * b
  PROVE  a <= b
<1>1. SUFFICES ASSUME b + 1 <= a PROVE FALSE
  OBVIOUS
<1>2. q * (b + 1) <= q * a
  BY <1>1, KaliNaik
<1>3. q * (b + 1) = q * b + q /\ q * b \in Int /\ q * a \in Int
  OBVIOUS
<1>4. QED BY <1>2, <1>3

\* A factor all terms have.
LEMMA JmlKali ==
  ASSUME NEW S, IsFiniteSet(S), NEW c \in Int, NEW f, NEW g,
         \A x \in S : f[x] \in Int /\ g[x] = c * f[x]
  PROVE  Jml(g, S) = c * Jml(f, S)
<1> DEFINE Salah(s) == Jml(g, s) # c * Jml(f, s)
<1> DEFINE Buruk == {n \in Nat : \E s \in SUBSET S : Cardinality(s) = n /\ Salah(s)}
<1>1. Buruk = {}
  <2>1. SUFFICES ASSUME Buruk # {} PROVE FALSE
    OBVIOUS
  <2>2. PICK n \in Buruk : \A m \in Buruk : n <= m
    BY <2>1, Terkecil
  <2>3. PICK s \in SUBSET S : Cardinality(s) = n /\ Salah(s)
    BY <2>2
  <2>4. s # {} /\ IsFiniteSet(s)
    <3>1. ASSUME s = {} PROVE FALSE
      <4>1. Jml(f, {}) = 0 /\ Jml(g, {}) = 0
        BY JmlKosong
      <4>2. QED BY <2>3, <3>1, <4>1
    <3>2. QED BY <3>1, FS_Subset
  <2> DEFINE z == Ambil(s)
  <2> DEFINE r == s \ {z}
  <2>5. /\ z \in s /\ r \in SUBSET S /\ IsFiniteSet(r)
        /\ Cardinality(r) = n - 1 /\ Cardinality(r) \in Nat
    BY <2>3, <2>4, Ambilan, FS_RemoveElement, FS_CardinalityType
  <2>6. Jml(f, s) = f[z] + Jml(f, r) /\ Jml(g, s) = g[z] + Jml(g, r)
    BY <2>4, JmlLepas
  <2>7. Jml(f, r) \in Int /\ f[z] \in Int /\ g[z] = c * f[z]
    BY <2>5, JmlBulat
  <2>8. Salah(r)
    <3>1. PICK a \in Int : a = f[z]
      BY <2>7
    <3>2. PICK b \in Int : b = Jml(f, r)
      BY <2>7
    <3>3. c * (a + b) = c * a + c * b
      OBVIOUS
    <3>4. PICK ca \in Int : ca = c * a
      OBVIOUS
    <3>5. PICK cb \in Int : cb = c * b
      OBVIOUS
    <3>6. SUFFICES ASSUME Jml(g, r) = cb PROVE FALSE
      BY <3>2, <3>5
    <3>7. Jml(g, s) = ca + cb
      BY <2>6, <2>7, <3>1, <3>4, <3>6
    <3>8. Jml(f, s) = a + b
      BY <2>6, <3>1, <3>2
    <3>9. QED BY <2>3, <3>3, <3>4, <3>5, <3>7, <3>8
  <2>9. n - 1 \in Buruk
    BY <2>5, <2>8
  <2>10. QED BY <2>2, <2>9
<1>2. QED BY <1>1, FS_CardinalityType

\* The summands may be named by something else, one name for each.
LEMMA JmlCitra ==
  ASSUME NEW S, IsFiniteSet(S), NEW h, \A x, y \in S : h[x] = h[y] => x = y,
         NEW f, NEW g, \A x \in S : g[x] \in Int /\ f[h[x]] = g[x]
  PROVE  Jml(f, {h[x] : x \in S}) = Jml(g, S)
<1> DEFINE Rupa(s) == {h[x] : x \in s}
<1> DEFINE Salah(s) == Jml(f, Rupa(s)) # Jml(g, s)
<1> DEFINE Buruk == {n \in Nat : \E s \in SUBSET S : Cardinality(s) = n /\ Salah(s)}
<1>1. Buruk = {}
  <2>1. SUFFICES ASSUME Buruk # {} PROVE FALSE
    OBVIOUS
  <2>2. PICK n \in Buruk : \A m \in Buruk : n <= m
    BY <2>1, Terkecil
  <2>3. PICK s \in SUBSET S : Cardinality(s) = n /\ Salah(s)
    BY <2>2
  <2>4. s # {} /\ IsFiniteSet(s)
    <3>1. ASSUME s = {} PROVE FALSE
      <4>1. Rupa(s) = {}
        BY <3>1
      <4>2. QED BY <2>3, <3>1, <4>1, JmlKosong
    <3>2. QED BY <3>1, FS_Subset
  <2>5. PICK z : z \in s
    BY <2>4
  <2>6. PICK r : r = s \ {z}
    OBVIOUS
  <2>7. /\ r \in SUBSET S /\ IsFiniteSet(r)
        /\ Cardinality(r) = n - 1 /\ Cardinality(r) \in Nat
    BY <2>3, <2>4, <2>5, <2>6, FS_RemoveElement, FS_CardinalityType
  <2>8. Jml(g, s) = g[z] + Jml(g, r)
    BY <2>4, <2>5, <2>6, JmlAmbil
  <2>9. IsFiniteSet(Rupa(s))
    BY <2>4, Citra
  <2>10. h[z] \in Rupa(s) /\ Rupa(s) \ {h[z]} = Rupa(r) /\ \A w \in Rupa(s) : f[w] \in Int
    BY <2>3, <2>5, <2>6
  <2>11. PICK R : R = Rupa(s)
    OBVIOUS
  <2>12. Jml(f, R) = f[h[z]] + Jml(f, R \ {h[z]})
    BY <2>9, <2>10, <2>11, JmlAmbil
  <2>13. Jml(f, Rupa(s)) = g[z] + Jml(f, Rupa(r))
    BY <2>5, <2>10, <2>11, <2>12
  <2>14. Salah(r)
    BY <2>3, <2>8, <2>13
  <2>15. n - 1 \in Buruk
    BY <2>7, <2>14
  <2>16. n \in Nat
    BY <2>2
  <2> HIDE DEF Buruk
  <2>17. QED BY <2>2, <2>15, <2>16
<1>2. QED BY <1>1, FS_CardinalityType
=============================================================================
