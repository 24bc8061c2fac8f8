------------------------------ MODULE Throttle ------------------------------
(***************************************************************************)
(* The throttle of login: a counter in Redis for each address and          *)
(* username.  Login peeks at it, then counts a failure with INCR, and with *)
(* EXPIRE when that failure created the key, or resets it on success.      *)
(***************************************************************************)
EXTENDS Integers, FiniteSets

CONSTANTS KunciThrottle,      \* throttle keys
          Pelogin,    \* logins running at once
          Jendela,    \* throttleWindow
          MaksGagal,  \* maxAttempts
          MaksWaktu   \* bound: ticks of the clock

ASSUME AsumsiThrottle ==
  Jendela \in Nat \ {0} /\ MaksGagal \in Nat \ {0} /\ MaksWaktu \in Nat

VARIABLES gagal,   \* login_throttle:<key>: [n, habis]; n = 0 is no key
          waktu,   \* the clock of Redis
          login,   \* [Pelogin -> [langkah, k]]
          putus    \* history: keys whose EXPIRE was never sent

varsThrottle == <<gagal, waktu, login, putus>>

TanpaBatas == -1   \* a key without a time to live
KunciHilang == [n |-> 0, habis |-> TanpaBatas]

InitThrottle ==
  /\ gagal = [k \in KunciThrottle |-> KunciHilang]
  /\ waktu = 0 /\ login = [p \in Pelogin |-> [langkah |-> "diam", k |-> 0]] /\ putus = {}

LanjutLogin(p, langkah) == login' = [login EXCEPT ![p].langkah = langkah]
Akhiri(p) == login' = [login EXCEPT ![p] = [langkah |-> "diam", k |-> 0]]

\* A full counter answers as a wrong password does, without counting.
Peek(p, k) ==
  /\ login[p].langkah = "diam" /\ gagal[k].n < MaksGagal
  /\ login' = [login EXCEPT ![p] = [langkah |-> "sandi", k |-> k]]
  /\ UNCHANGED <<gagal, waktu, putus>>

PeriksaSandi(p) ==
  /\ login[p].langkah = "sandi"
  /\ LanjutLogin(p, "catat") \/ LanjutLogin(p, "reset")
  /\ UNCHANGED <<gagal, waktu, putus>>

\* Fault: armed by the failure that closes the door.
PerluJendelaDiBatas(n) == n = MaksGagal

\* Increment: the window is armed by the failure that created the key.
PerluJendela(n) == n = 1

Increment(p) ==
  LET k == login[p].k IN
  /\ login[p].langkah = "catat"
  /\ gagal' = [gagal EXCEPT ![k].n = @ + 1]
  /\ IF PerluJendela(gagal'[k].n) THEN LanjutLogin(p, "pasang") ELSE Akhiri(p)
  /\ UNCHANGED <<waktu, putus>>

\* EXPIRE of a key that was reset meanwhile does nothing.
PasangJendela(p) ==
  LET k == login[p].k IN
  /\ login[p].langkah = "pasang"
  /\ gagal' = IF gagal[k].n = 0 THEN gagal ELSE [gagal EXCEPT ![k].habis = waktu + Jendela]
  /\ Akhiri(p) /\ UNCHANGED <<waktu, putus>>

Reset(p) ==
  /\ login[p].langkah = "reset"
  /\ gagal' = [gagal EXCEPT ![login[p].k] = KunciHilang]
  /\ putus' = putus \ {login[p].k}
  /\ Akhiri(p) /\ UNCHANGED waktu

\* The process dies or loses Redis; both counts are best effort.
PutusLogin(p) ==
  /\ login[p].langkah # "diam" /\ Akhiri(p)
  /\ putus' = IF login[p].langkah = "pasang" THEN putus \cup {login[p].k} ELSE putus
  /\ UNCHANGED <<gagal, waktu>>

HabisWaktu(k) == gagal[k].habis # TanpaBatas /\ gagal[k].habis <= waktu + 1

WaktuMaju ==
  /\ waktu < MaksWaktu /\ waktu' = waktu + 1
  /\ gagal' = [k \in KunciThrottle |-> IF HabisWaktu(k) THEN KunciHilang ELSE gagal[k]]
  /\ UNCHANGED <<login, putus>>

NextThrottle ==
  \/ \E p \in Pelogin :
       \/ PeriksaSandi(p) \/ Increment(p) \/ PasangJendela(p) \/ Reset(p) \/ PutusLogin(p)
       \/ \E k \in KunciThrottle : Peek(p, k)
  \/ WaktuMaju

SpecThrottle == InitThrottle /\ [][NextThrottle]_varsThrottle

(***************************************************************************)
(* Properties.                                                             *)
(***************************************************************************)
TypeOKThrottle ==
  /\ waktu \in 0..MaksWaktu /\ putus \subseteq KunciThrottle
  /\ \A k \in KunciThrottle : gagal[k].n \in Nat /\ gagal[k].habis \in TanpaBatas..(MaksWaktu + Jendela)
  /\ \A p \in Pelogin :
       login[p].langkah \in {"diam", "sandi", "catat", "pasang", "reset"}

\* A counter without a time to live would refuse its user for ever.  Only a
\* login that has not sent its EXPIRE yet, or died before it, leaves one,
\* whatever resets and failures of other logins come in between.
JendelaTerpasang ==
  \A k \in KunciThrottle \ putus : gagal[k].n > 0 /\ gagal[k].habis = TanpaBatas =>
    \E p \in Pelogin : login[p] = [langkah |-> "pasang", k |-> k]
=============================================================================
