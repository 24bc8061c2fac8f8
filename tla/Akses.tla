------------------------------- MODULE Akses -------------------------------
(***************************************************************************)
(* Sessions: login, the rotation of refresh tokens in Redis, logout, and   *)
(* the revocation that follows a change of password, of is_aktif or of     *)
(* the grants.  Redis runs one command at a time, and a handler sends      *)
(* several: every command is an action, and the process may die or lose    *)
(* Redis between two of them.  The throttle of login is module Throttle.   *)
(***************************************************************************)
EXTENDS Sequences, Integers, FiniteSets

CONSTANTS Akun,       \* users
          Pemohon,    \* requests running at once
          Umur,       \* refreshTTL
          MaksDetak,  \* bound: ticks of the clock
          MaksToken   \* bound: tokens ever issued

ASSUME AsumsiAkses ==
  /\ Umur \in Nat \ {0} /\ MaksDetak \in Nat /\ MaksToken \in Nat
  /\ Pemohon \cap (1..MaksToken) = {}

VARIABLES akun,      \* [Akun -> is_aktif]
          token,     \* every token ever issued, by number
          hidup,     \* refresh:<token> keys that exist
          indeks,    \* refresh:user:<id>: [isi, habis]
          detak,     \* the clock of Redis
          sesi,      \* [Pemohon -> where its request stands]
          terkirim,  \* tokens a client was given
          terlewat   \* history: tokens an index lost while their Store ran

varsAkses == <<akun, token, hidup, indeks, detak, sesi, terkirim, terlewat>>
redis == <<token, hidup, indeks, detak, terkirim, terlewat>>

Abadi    == -1           \* a key without a time to live
TanpaSesi == [langkah |-> "diam", u |-> 0, t |-> 0, daftar |-> {}]
IndeksKosong == [isi |-> {}, habis |-> Abadi]

InitAkses ==
  /\ akun = [u \in Akun |-> TRUE]
  /\ token = <<>> /\ hidup = {} /\ terkirim = {} /\ terlewat = {}
  /\ indeks = [u \in Akun |-> IndeksKosong]
  /\ detak = 0 /\ sesi = [p \in Pemohon |-> TanpaSesi]

KeSesi(p, langkah) == sesi' = [sesi EXCEPT ![p].langkah = langkah]
Usai(p) == sesi' = [sesi EXCEPT ![p] = TanpaSesi]
Buka(p, langkah, u, t) ==
  /\ sesi[p] = TanpaSesi
  /\ sesi' = [sesi EXCEPT ![p] = [langkah |-> langkah, u |-> u, t |-> t, daftar |-> {}]]

(***************************************************************************)
(* Login with the right password of an active user.  The context of a      *)
(* session, which grant is active, changes no step and is left out.        *)
(***************************************************************************)
Login(p, u) ==
  /\ akun[u]
  /\ Buka(p, "simpan", u, 0)
  /\ UNCHANGED <<akun, redis>>

(***************************************************************************)
(* Store: SET, SADD, EXPIRE; the client has the token after the last.      *)
(***************************************************************************)
SimpanToken(p) ==
  LET t == Len(token) + 1 IN
  /\ sesi[p].langkah = "simpan" /\ t <= MaksToken
  /\ token' = Append(token, [u |-> sesi[p].u, asal |-> sesi[p].t, habis |-> detak + Umur])
  /\ hidup' = hidup \cup {t}
  /\ sesi' = [sesi EXCEPT ![p].langkah = "indeks", ![p].t = t]
  /\ UNCHANGED <<akun, indeks, detak, terkirim, terlewat>>

IndeksToken(p) ==
  /\ sesi[p].langkah = "indeks"
  /\ indeks' = [indeks EXCEPT ![sesi[p].u].isi = @ \cup {sesi[p].t}]
  /\ KeSesi(p, "panjangkan")
  /\ UNCHANGED <<akun, token, hidup, detak, terkirim, terlewat>>

\* EXPIRE of a key that is gone does nothing and is no error.
UmurBaru(u) == IF indeks[u].isi = {} THEN indeks[u].habis ELSE detak + Umur

PanjangkanIndeks(p) ==
  LET u == sesi[p].u IN
  /\ sesi[p].langkah = "panjangkan"
  /\ indeks' = [indeks EXCEPT ![u].habis = UmurBaru(u)]
  /\ terkirim' = terkirim \cup {sesi[p].t}
  /\ Usai(p)
  /\ UNCHANGED <<akun, token, hidup, detak, terlewat>>

(***************************************************************************)
(* Refresh and Logout: Consume is GETDEL and a best-effort SREM.           *)
(***************************************************************************)
\* Fault: a plain GET, the key left to its time to live.
GetSaja(t) == hidup

GetDel(t) == hidup \ {t}

Consume(p, t, lalu) ==
  /\ t \in hidup \cap terkirim
  /\ Buka(p, lalu, token[t].u, t)
  /\ hidup' = GetDel(t)
  /\ UNCHANGED <<akun, token, indeks, detak, terkirim, terlewat>>

Refresh(p, t) == Consume(p, t, "lepas")
Logout(p, t)  == Consume(p, t, "lepas_keluar")

\* SREM; a set without members does not exist.
Tanpa(u, buang) ==
  LET sisa == indeks[u].isi \ buang IN
  IF sisa = {} THEN [indeks EXCEPT ![u] = IndeksKosong] ELSE [indeks EXCEPT ![u].isi = sisa]

LepasIndeks(p) ==
  /\ sesi[p].langkah \in {"lepas", "lepas_keluar"}
  /\ indeks' \in {indeks, Tanpa(sesi[p].u, {sesi[p].t})}
  /\ IF sesi[p].langkah = "lepas" THEN KeSesi(p, "akun") ELSE Usai(p)
  /\ UNCHANGED <<akun, token, hidup, detak, terkirim, terlewat>>

\* The user is read again.
PeriksaAkun(p) ==
  /\ sesi[p].langkah = "akun"
  /\ IF akun[sesi[p].u] THEN KeSesi(p, "simpan") ELSE Usai(p)
  /\ UNCHANGED <<akun, redis>>

(***************************************************************************)
(* ChangePassword and user Update: commit, then RevokeAllForUser when the  *)
(* password changed, the user was switched off or lost every grant.        *)
(***************************************************************************)
UbahAkun(p, u) ==
  /\ Buka(p, "daftar", u, 0)
  /\ akun' \in {akun, [akun EXCEPT ![u] = FALSE]}
  /\ UNCHANGED redis

\* A user is switched on again.
AktifkanAkun(u) ==
  ~akun[u] /\ akun' = [akun EXCEPT ![u] = TRUE] /\ UNCHANGED <<redis, sesi>>

DaftarToken(p) ==
  /\ sesi[p].langkah = "daftar"
  /\ sesi' = [sesi EXCEPT ![p].langkah = "cabut", ![p].daftar = indeks[sesi[p].u].isi]
  /\ UNCHANGED <<akun, redis>>

\* The pipeline is no transaction: other commands run between its DELs.
CabutToken(p) ==
  /\ sesi[p].langkah = "cabut"
  /\ \E t \in sesi[p].daftar :
       hidup' = hidup \ {t} /\ sesi' = [sesi EXCEPT ![p].daftar = @ \ {t}]
  /\ UNCHANGED <<akun, token, indeks, detak, terkirim, terlewat>>

CabutIndeks(p) ==
  LET u == sesi[p].u IN
  /\ sesi[p].langkah = "cabut" /\ sesi[p].daftar = {}
  /\ indeks' = [indeks EXCEPT ![u] = IndeksKosong]
  /\ terlewat' = terlewat \cup (indeks[u].isi \cap hidup)
  /\ Usai(p)
  /\ UNCHANGED <<akun, token, hidup, detak, terkirim>>

(***************************************************************************)
(* Faults and time.                                                        *)
(***************************************************************************)
GagalSesi(p) ==
  /\ sesi[p] # TanpaSesi /\ Usai(p) /\ UNCHANGED <<akun, redis>>

Kedaluwarsa(k) == k.habis # Abadi /\ k.habis <= detak'

\* A key goes when its time is up; a member added since the last EXPIRE of
\* the index goes with it.
DetakMaju ==
  /\ detak < MaksDetak /\ detak' = detak + 1
  /\ hidup' = {t \in hidup : ~Kedaluwarsa(token[t])}
  /\ indeks' = [u \in Akun |-> IF Kedaluwarsa(indeks[u]) THEN IndeksKosong ELSE indeks[u]]
  /\ terlewat' = terlewat \cup {sesi[p].t : p \in {q \in Pemohon :
                   sesi[q].langkah = "panjangkan" /\ Kedaluwarsa(indeks[sesi[q].u])}}
  /\ UNCHANGED <<akun, token, sesi, terkirim>>

NextAkses ==
  \/ \E p \in Pemohon :
       \/ SimpanToken(p) \/ IndeksToken(p) \/ PanjangkanIndeks(p)
       \/ LepasIndeks(p) \/ PeriksaAkun(p)
       \/ DaftarToken(p) \/ CabutToken(p) \/ CabutIndeks(p) \/ GagalSesi(p)
       \/ \E u \in Akun : Login(p, u) \/ UbahAkun(p, u)
       \/ \E t \in hidup : Refresh(p, t) \/ Logout(p, t)
  \/ \E u \in Akun : AktifkanAkun(u)
  \/ DetakMaju

SpecAkses == InitAkses /\ [][NextAkses]_varsAkses

(***************************************************************************)
(* Properties.                                                             *)
(***************************************************************************)
TypeOKAkses ==
  /\ akun \in [Akun -> BOOLEAN]
  /\ hidup \cup terkirim \cup terlewat \subseteq DOMAIN token
  /\ \A u \in Akun : indeks[u].isi \subseteq DOMAIN token /\ indeks[u].habis >= Abadi

\* A refresh token is spent at most once: whatever requests present it, at
\* most one of them goes on to a new pair, and then the old key is gone.
Penerus(t) ==
  {j \in DOMAIN token : token[j].asal = t}
    \cup {p \in Pemohon : sesi[p].t = t /\ sesi[p].langkah \in {"lepas", "akun", "simpan"}}

SekaliPakai ==
  \A t \in DOMAIN token : Penerus(t) # {} => t \notin hidup /\ Cardinality(Penerus(t)) = 1

\* RevokeAllForUser deletes what the index names, so the index must name
\* every live token a client holds.  It loses one only while that token's
\* own Store is under way: to a revocation between its SMEMBERS and its DEL,
\* or to the end of an older index between SADD and EXPIRE.
IndeksCakup ==
  \A t \in (hidup \cap terkirim) \ terlewat : t \in indeks[token[t].u].isi

\* What logging out everywhere relies on: no token has two heirs, and the
\* index a revocation reads knows them all.
AksesTerjaga == SekaliPakai /\ IndeksCakup
=============================================================================
