------------------------------ MODULE Presensi ------------------------------
(***************************************************************************)
(* Attendance: one button in, one button out, corrections by an            *)
(* administrator and the daily sweep of the worker.  A handler is split    *)
(* where it reads the clock or a row and acts on it in a later statement;  *)
(* the unique indexes and the CHECK decide at the write.                   *)
(***************************************************************************)
EXTENDS Sequences, Integers, FiniteSets

CONSTANTS Karyawan,     \* people
          Permintaan,   \* requests and workers running at once
          PerHari,      \* moments in a day
          BatasShift,   \* first moment of the night shift, 17:30
          MaksJam,      \* bound: moments in a behaviour
          MaksBaris     \* bound: rows ever inserted

ASSUME AsumsiPresensi ==
  /\ PerHari \in Nat \ {0} /\ BatasShift \in 1..(PerHari - 1)
  /\ MaksJam \in Nat /\ MaksBaris \in Nat

VARIABLES jam,        \* the server's clock
          presensi,   \* committed rows, by id
          tap         \* [Permintaan -> what the request has read]

varsPresensi == <<jam, presensi, tap>>

BelumPulang == -1
TanpaTap == [langkah |-> "diam", u |-> 0, t |-> 0, id |-> 0]

tanggalPresensi(t) == t \div PerHari
simpulkanShift(t) == IF t % PerHari < BatasShift THEN "PAGI" ELSE "MALAM"

BarisPresensi(u, t) ==
  [u |-> u, tgl |-> tanggalPresensi(t), shift |-> simpulkanShift(t),
   masuk |-> t, pulang |-> BelumPulang, status |-> "BUKA"]

InitPresensi == jam = 0 /\ presensi = <<>> /\ tap = [p \in Permintaan |-> TanpaTap]

Slot(r) == <<r.u, r.tgl, r.shift>>
\* presensi_terbuka_uidx, presensi_user_tanggal_shift_uidx, presensi_jam_check.
SahPresensi(rows) ==
  /\ \A i, j \in DOMAIN rows : i # j =>
       /\ Slot(rows[i]) # Slot(rows[j])
       /\ ~(rows[i].u = rows[j].u /\ rows[i].status = "BUKA" /\ rows[j].status = "BUKA")
  /\ \A i \in DOMAIN rows : rows[i].pulang # BelumPulang => rows[i].pulang > rows[i].masuk

TerbukaMilik(u) == {i \in DOMAIN presensi : presensi[i].u = u /\ presensi[i].status = "BUKA"}

SelesaiTap(p) == tap' = [tap EXCEPT ![p] = TanpaTap]

(***************************************************************************)
(* Masuk: tolakJikaSlotTerisi, FindTerbuka, then the writes.               *)
(***************************************************************************)
Masuk(p, u) ==
  /\ tap[p] = TanpaTap
  /\ \A i \in DOMAIN presensi : Slot(presensi[i]) # Slot(BarisPresensi(u, jam))
  /\ tap' = [tap EXCEPT ![p] = [langkah |-> "cari", u |-> u, t |-> jam, id |-> 0]]
  /\ UNCHANGED <<jam, presensi>>

FindTerbuka(p) ==
  /\ tap[p].langkah = "cari"
  /\ \E i \in IF TerbukaMilik(tap[p].u) = {} THEN {0} ELSE TerbukaMilik(tap[p].u) :
       tap' = [tap EXCEPT ![p].langkah = "tulis", ![p].id = i]
  /\ UNCHANGED <<jam, presensi>>

\* Fault: the status is not asked again.
TandaiTanpaPeriksa(rows, i) ==
  [j \in DOMAIN rows |->
     IF j = i THEN [rows[j] EXCEPT !.status = "LUPA_PULANG"] ELSE rows[j]]

TandaiLupaPulang(rows, i) ==
  [j \in DOMAIN rows |->
     IF j = i /\ rows[j].status = "BUKA"
     THEN [rows[j] EXCEPT !.status = "LUPA_PULANG"] ELSE rows[j]]

\* A refused INSERT takes the mark back with it.
BuatPresensi(p) ==
  LET ditandai == TandaiLupaPulang(presensi, tap[p].id)
      rows     == Append(ditandai, BarisPresensi(tap[p].u, tap[p].t)) IN
  /\ tap[p].langkah = "tulis" /\ Len(presensi) < MaksBaris
  /\ presensi' = IF SahPresensi(rows) THEN rows ELSE presensi
  /\ SelesaiTap(p) /\ UNCHANGED jam

(***************************************************************************)
(* Pulang: the moment is taken first; one UPDATE finds the open row.       *)
(***************************************************************************)
Pulang(p, u) ==
  /\ tap[p] = TanpaTap
  /\ tap' = [tap EXCEPT ![p] = [langkah |-> "pulang", u |-> u, t |-> jam, id |-> 0]]
  /\ UNCHANGED <<jam, presensi>>

TutupShift(p) ==
  LET rows == [i \in DOMAIN presensi |->
                 IF i \in TerbukaMilik(tap[p].u)
                 THEN [presensi[i] EXCEPT !.pulang = tap[p].t, !.status = "SELESAI"]
                 ELSE presensi[i]] IN
  /\ tap[p].langkah = "pulang"
  /\ presensi' = IF SahPresensi(rows) THEN rows ELSE presensi
  /\ SelesaiTap(p) /\ UNCHANGED jam

(***************************************************************************)
(* Koreksi: hours on the row's own date, the shift, or both; the status    *)
(* follows from jam_pulang.                                                *)
(***************************************************************************)
JamDari(tgl) == {t \in 0..MaksJam : tanggalPresensi(t) = tgl}

Koreksi(i) ==
  \E m \in JamDari(presensi[i].tgl) \cup {presensi[i].masuk},
     k \in JamDari(presensi[i].tgl) \cup {presensi[i].pulang},
     s \in {"PAGI", "MALAM"} :
    LET r    == [presensi[i] EXCEPT !.masuk = m, !.pulang = k, !.shift = s,
                   !.status = IF k # BelumPulang THEN "SELESAI" ELSE @]
        rows == [presensi EXCEPT ![i] = r] IN
    /\ r # presensi[i] /\ SahPresensi(rows)
    /\ presensi' = rows /\ UNCHANGED <<jam, tap>>

(***************************************************************************)
(* SapuanLupaPulang: under an advisory lock, batas is today.               *)
(***************************************************************************)
SapuanMulai(p) ==
  /\ tap[p] = TanpaTap /\ \A q \in Permintaan : tap[q].langkah # "sapu"
  /\ tap' = [tap EXCEPT ![p] = [langkah |-> "sapu", u |-> 0, t |-> tanggalPresensi(jam), id |-> 0]]
  /\ UNCHANGED <<jam, presensi>>

SapuanLupaPulang(p) ==
  /\ tap[p].langkah = "sapu"
  /\ presensi' = [i \in DOMAIN presensi |->
                    IF presensi[i].status = "BUKA" /\ presensi[i].tgl < tap[p].t
                    THEN [presensi[i] EXCEPT !.status = "LUPA_PULANG"] ELSE presensi[i]]
  /\ SelesaiTap(p) /\ UNCHANGED jam

\* A request that fails or dies rolls back; the advisory lock goes with its
\* connection.
GagalTap(p) == tap[p] # TanpaTap /\ SelesaiTap(p) /\ UNCHANGED <<jam, presensi>>

JamMaju == jam < MaksJam /\ jam' = jam + 1 /\ UNCHANGED <<presensi, tap>>

NextPresensi ==
  \/ \E p \in Permintaan :
       \/ FindTerbuka(p) \/ BuatPresensi(p) \/ TutupShift(p)
       \/ SapuanMulai(p) \/ SapuanLupaPulang(p) \/ GagalTap(p)
       \/ \E u \in Karyawan : Masuk(p, u) \/ Pulang(p, u)
  \/ \E i \in DOMAIN presensi : Koreksi(i)
  \/ JamMaju

SpecPresensi == InitPresensi /\ [][NextPresensi]_varsPresensi

(***************************************************************************)
(* Properties.                                                             *)
(***************************************************************************)
TypeOKPresensi ==
  /\ jam \in 0..MaksJam
  /\ presensi \in Seq([u : Karyawan, tgl : Nat, shift : {"PAGI", "MALAM"}, masuk : 0..MaksJam,
                       pulang : -1..MaksJam, status : {"BUKA", "SELESAI", "LUPA_PULANG"}])
  /\ SahPresensi(presensi)

\* A row is SELESAI exactly when it has the hour of leaving: a check-in or a
\* sweep that read the row as open cannot overwrite a check-out that came
\* first, and the recap counts the minutes of SELESAI rows only.
JamPulangTerhitung ==
  \A i \in DOMAIN presensi :
    (presensi[i].status = "SELESAI") <=> (presensi[i].pulang # BelumPulang)

\* A row is only called forgotten when its date has passed or its owner has
\* checked in again: what a refused check-in marked is taken back.
LupaBeralasan ==
  \A i \in DOMAIN presensi : presensi[i].status = "LUPA_PULANG" =>
    \/ presensi[i].tgl < tanggalPresensi(jam)
    \/ \E j \in DOMAIN presensi : j > i /\ presensi[j].u = presensi[i].u

\* What the recap relies on, whatever check-ins, check-outs, corrections and
\* sweeps overlap: every accepted check-out counts, and no shift is closed as
\* forgotten without a reason.
PresensiTerjaga == JamPulangTerhitung /\ LupaBeralasan

\* src/README.md:1178: a check-out after midnight still closes last night's
\* shift instead of answering that there was no check-in.
PulangMenutupMalamKemarin ==
  \A p \in Permintaan, i \in DOMAIN presensi :
    /\ tap[p].langkah = "pulang"
    /\ presensi[i].u = tap[p].u /\ presensi[i].shift = "MALAM"
    /\ presensi[i].tgl = tanggalPresensi(tap[p].t) - 1
    /\ presensi[i].pulang = BelumPulang
    /\ \A j \in DOMAIN presensi : j > i => presensi[j].u # tap[p].u
    => presensi[i].status = "BUKA"
=============================================================================
