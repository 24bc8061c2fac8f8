------------------------------ MODULE HargaJual ------------------------------
(***************************************************************************)
(* The price list of one product in one unit of measure: versions with a   *)
(* period [dari, sampai), opened, corrected and removed by transactions    *)
(* that overlap, and the sale lines filled from them.  READ COMMITTED: an  *)
(* UPDATE picks its rows in the snapshot of its start, waits for the ones  *)
(* another transaction holds, and asks its condition again.                *)
(***************************************************************************)
EXTENDS Integers, FiniteSets

CONSTANTS Pemakai,      \* concurrent requests
          AkhirTanggal, \* bound: dates are 1..AkhirTanggal
          Harga,        \* prices
          MaksVersi     \* bound: versions ever inserted

ASSUME AsumsiHarga == AkhirTanggal \in Nat /\ MaksVersi \in Nat

VARIABLES versi,       \* [1..MaksVersi -> committed version, or none]
          idTerakhir,  \* the identity last drawn
          jual,        \* committed sale lines: the version and its price then
          trx,         \* [Pemakai -> the open transaction]
          bertabrakan  \* ghost: two removals have overlapped

varsHarga == <<versi, idTerakhir, jual, trx, bertabrakan>>

Tanggal == 1..AkhirTanggal
Seterusnya == AkhirTanggal + 1
TakAdaVersi == [dari |-> 0, sampai |-> 0, harga |-> 0]
TanpaTrx == [langkah |-> "diam", id |-> 0, dari |-> 0, baca |-> TakAdaVersi,
             cocok |-> {}, ubah |-> {}]

\* ubah: the writes of the transaction, as pairs of an id and its new row.
Ditulis(p) == {w[1] : w \in trx[p].ubah}
Dikunci(p) == Ditulis(p) \cup (IF trx[p].langkah \in {"hapus", "cari", "buka"}
                               THEN {trx[p].id} ELSE {})

Bebas(p, i) == \A q \in Pemakai \ {p} : i \notin Dikunci(q)

LihatHarga(p) == [i \in 1..MaksVersi |->
               IF i \in Ditulis(p) THEN (CHOOSE w \in trx[p].ubah : w[1] = i)[2]
               ELSE versi[i]]

Ada(v) == v # TakAdaVersi
Berlaku(v, t) == Ada(v) /\ v.dari <= t /\ t < v.sampai
Tumpang(v, w) == Ada(v) /\ Ada(w) /\ v.dari < w.sampai /\ w.dari < v.sampai
\* product_harga_jual_no_overlap.
SahHarga(rows) ==
  \A i, j \in 1..MaksVersi : i # j => ~Tumpang(rows[i], rows[j])

InitHarga ==
  /\ versi = [i \in 1..MaksVersi |-> TakAdaVersi] /\ idTerakhir = 0 /\ jual = {}
  /\ trx = [p \in Pemakai |-> TanpaTrx] /\ bertabrakan = FALSE

Pasang(p, t) == trx' = [trx EXCEPT ![p] = t]
SelesaiTrx(p) == Pasang(p, TanpaTrx)

\* The exclusion constraint waits for a transaction whose row would conflict.
TungguKonflik(p, v) ==
  \A q \in Pemakai \ {p} :
    /\ \A i \in Dikunci(q) : ~Tumpang(versi[i], v)
    /\ \A w \in trx[q].ubah : ~Tumpang(w[2], v)

(***************************************************************************)
(* AddHargaJual: close the open version, insert the new one, commit.       *)
(***************************************************************************)
AddHargaJual(p, t) ==
  /\ trx[p] = TanpaTrx
  /\ Pasang(p, [TanpaTrx EXCEPT !.langkah = "tutup", !.dari = t,
                 !.cocok = {i \in 1..MaksVersi : versi[i].sampai = Seterusnya
                                                 /\ versi[i].dari < t}])
  /\ UNCHANGED <<versi, idTerakhir, jual, bertabrakan>>

\* Fault: the closing is committed by itself.
TutupTerpisah(p) ==
  LET kena == {i \in trx[p].cocok : versi[i].sampai = Seterusnya
                                    /\ versi[i].dari < trx[p].dari} IN
  /\ trx[p].langkah = "tutup" /\ \A i \in trx[p].cocok : Bebas(p, i)
  /\ versi' = [i \in 1..MaksVersi |->
                 IF i \in kena THEN [versi[i] EXCEPT !.sampai = trx[p].dari] ELSE versi[i]]
  /\ Pasang(p, [trx[p] EXCEPT !.langkah = "sisip"])
  /\ UNCHANGED <<idTerakhir, jual, bertabrakan>>

CloseOpenHargaJual(p) ==
  LET kena == {i \in trx[p].cocok : versi[i].sampai = Seterusnya
                                    /\ versi[i].dari < trx[p].dari} IN
  /\ trx[p].langkah = "tutup" /\ \A i \in trx[p].cocok : Bebas(p, i)
  /\ Pasang(p, [trx[p] EXCEPT !.langkah = "sisip",
                  !.ubah = {<<i, [versi[i] EXCEPT !.sampai = trx[p].dari]>> : i \in kena}])
  /\ UNCHANGED <<versi, idTerakhir, jual, bertabrakan>>

\* A refused insert rolls the closing back.
InsertHargaJual(p, h) ==
  LET baru == [dari |-> trx[p].dari, sampai |-> Seterusnya, harga |-> h]
      rows == [LihatHarga(p) EXCEPT ![idTerakhir + 1] = baru] IN
  /\ trx[p].langkah = "sisip" /\ idTerakhir < MaksVersi
  /\ TungguKonflik(p, baru)
  /\ versi' = IF SahHarga(rows) THEN rows ELSE versi
  /\ idTerakhir' = idTerakhir + 1
  /\ SelesaiTrx(p) /\ UNCHANGED <<jual, bertabrakan>>

(***************************************************************************)
(* DeleteHargaJual: lock, refuse when a line uses it, delete, hand its end *)
(* back to the version before it.                                          *)
(***************************************************************************)
Dipakai(i) == \E n \in jual : n.id = i

DeleteHargaJual(p, i) ==
  /\ trx[p] = TanpaTrx /\ Ada(versi[i]) /\ Bebas(p, i)
  /\ Pasang(p, [TanpaTrx EXCEPT !.langkah = "hapus", !.id = i, !.baca = versi[i]])
  /\ bertabrakan' = (bertabrakan \/ \E q \in Pemakai : trx[q].langkah \in {"hapus", "cari", "buka"})
  /\ UNCHANGED <<versi, idTerakhir, jual>>

HapusVersi(p) ==
  /\ trx[p].langkah = "hapus"
  /\ IF Dipakai(trx[p].id) THEN SelesaiTrx(p)
     ELSE Pasang(p, [trx[p] EXCEPT !.langkah = "cari", !.ubah = {<<trx[p].id, TakAdaVersi>>}])
  /\ UNCHANGED <<versi, idTerakhir, jual, bertabrakan>>

Sebelumnya(p, rows) == {i \in 1..MaksVersi : Ada(rows[i]) /\ rows[i].sampai = trx[p].baca.dari}

CariSebelumnya(p) ==
  /\ trx[p].langkah = "cari"
  /\ Pasang(p, [trx[p] EXCEPT !.langkah = "buka", !.cocok = Sebelumnya(p, LihatHarga(p))])
  /\ UNCHANGED <<versi, idTerakhir, jual, bertabrakan>>

ReopenPreviousHargaJual(p) ==
  LET kena == trx[p].cocok \cap Sebelumnya(p, LihatHarga(p))
      rows == [i \in 1..MaksVersi |->
                 IF i \in kena THEN [versi[i] EXCEPT !.sampai = trx[p].baca.sampai]
                 ELSE LihatHarga(p)[i]] IN
  /\ trx[p].langkah = "buka" /\ \A i \in trx[p].cocok : Bebas(p, i)
  /\ \A i \in kena : TungguKonflik(p, rows[i])
  /\ versi' = IF SahHarga(rows) THEN rows ELSE versi
  /\ SelesaiTrx(p) /\ UNCHANGED <<idTerakhir, jual, bertabrakan>>

(***************************************************************************)
(* UpdateHargaJual: the check, then the write.                             *)
(***************************************************************************)
UpdateHargaJual(p, i) ==
  /\ trx[p] = TanpaTrx /\ i <= idTerakhir /\ ~Dipakai(i)
  /\ Pasang(p, [TanpaTrx EXCEPT !.langkah = "ubah", !.id = i])
  /\ UNCHANGED <<versi, idTerakhir, jual, bertabrakan>>

TulisHarga(p, h) ==
  /\ trx[p].langkah = "ubah" /\ Bebas(p, trx[p].id)
  /\ versi' = IF Ada(versi[trx[p].id]) THEN [versi EXCEPT ![trx[p].id].harga = h] ELSE versi
  /\ SelesaiTrx(p) /\ UNCHANGED <<idTerakhir, jual, bertabrakan>>

(***************************************************************************)
(* A sale: FindHargaBerlakuBatch, then the line with its foreign key,      *)
(* which waits for a version somebody is deleting.  A draft may drop it.   *)
(***************************************************************************)
FindHargaBerlaku(p, t) ==
  /\ trx[p] = TanpaTrx
  /\ \E i \in 1..MaksVersi :
       /\ Berlaku(versi[i], t)
       /\ Pasang(p, [TanpaTrx EXCEPT !.langkah = "nota", !.id = i, !.baca = versi[i]])
  /\ UNCHANGED <<versi, idTerakhir, jual, bertabrakan>>

TulisNota(p) ==
  /\ trx[p].langkah = "nota"
  /\ \A q \in Pemakai : trx[q].langkah \in {"hapus", "cari", "buka"} => trx[q].id # trx[p].id
  /\ jual' = IF Ada(versi[trx[p].id])
             THEN jual \cup {[id |-> trx[p].id, harga |-> trx[p].baca.harga]} ELSE jual
  /\ SelesaiTrx(p) /\ UNCHANGED <<versi, idTerakhir, bertabrakan>>

LepasNota(n) == jual' = jual \ {n} /\ UNCHANGED <<versi, idTerakhir, trx, bertabrakan>>

GagalTrx(p) ==
  /\ trx[p] # TanpaTrx /\ SelesaiTrx(p)
  /\ UNCHANGED <<versi, idTerakhir, jual, bertabrakan>>

NextHarga ==
  \/ \E p \in Pemakai :
       \/ CloseOpenHargaJual(p) \/ HapusVersi(p) \/ CariSebelumnya(p)
       \/ ReopenPreviousHargaJual(p) \/ TulisNota(p) \/ GagalTrx(p)
       \/ \E t \in Tanggal : AddHargaJual(p, t) \/ FindHargaBerlaku(p, t)
       \/ \E h \in Harga : InsertHargaJual(p, h) \/ TulisHarga(p, h)
       \/ \E i \in 1..MaksVersi : DeleteHargaJual(p, i) \/ UpdateHargaJual(p, i)
  \/ \E n \in jual : LepasNota(n)

SpecHarga == InitHarga /\ [][NextHarga]_varsHarga

(***************************************************************************)
(* Properties.                                                             *)
(***************************************************************************)
TypeOKHarga ==
  /\ versi \in [1..MaksVersi -> [dari : 0..AkhirTanggal, sampai : 0..Seterusnya,
                                 harga : Harga \cup {0}]]
  /\ \A i \in 1..MaksVersi : i > idTerakhir => ~Ada(versi[i])
  /\ \A n \in jual : Ada(versi[n.id])
  /\ SahHarga(versi)

\* product_repository.go:607: what a version stops covering, a later one
\* covers from that day on; no date after the first is left without a price.
RantaiHarga ==
  \A i \in 1..MaksVersi : Ada(versi[i]) /\ versi[i].sampai # Seterusnya =>
    \E j \in 1..MaksVersi : Ada(versi[j]) /\ versi[j].dari = versi[i].sampai

\* The chain survives every overlap of openings, corrections, sales and one
\* removal at a time.
RantaiHargaSatuPenghapus == ~bertabrakan => RantaiHarga
=============================================================================
