---------------------------- MODULE SatuanProduk ----------------------------
(***************************************************************************)
(* One product and its units of conversion: creation, which registers the  *)
(* base unit by itself, patches, and the addition of a unit, which may     *)
(* move the default flag from another one.  product_satuan_default_uidx    *)
(* allows one flagged row for the product.                                 *)
(***************************************************************************)
EXTENDS Sequences, Integers, FiniteSets

CONSTANTS Pengolah,      \* requests running at once
          SatuanAda,     \* units of measure
          Dasar,         \* the base unit of the product
          FaktorIsian,   \* factors a request may name
          UnitAktif,     \* unit_kerja that are active
          UnitPensiun,   \* unit_kerja that are not
          MaksOlah       \* bound: requests begun

ASSUME AsumsiSatuanProduk ==
  /\ Dasar \in SatuanAda /\ FaktorIsian \subseteq Nat \ {0} /\ MaksOlah \in Nat

VARIABLES produk,          \* the row of product: ada, stok_minimum, aktif
          konversi,        \* product_satuan: [unit -> [faktor, bawaan]], as committed
          katalogProduk,   \* product_unit_kerja
          olah,            \* [Pengolah -> its open transaction]
          jumlahOlah       \* requests begun

varsProduk == <<produk, konversi, katalogProduk, olah, jumlahOlah>>

\* The rows k after those of w are written.
Timpa(w, k) == [u \in DOMAIN w \cup DOMAIN k |-> IF u \in DOMAIN w THEN w[u] ELSE k[u]]

BarisSatuan == [faktor : Nat \ {0}, bawaan : BOOLEAN]
TanpaOlah ==
  [langkah |-> "diam", u |-> Dasar, f |-> 1, d |-> FALSE, lama |-> {}, tulis |-> <<>>]

InitProduk ==
  /\ produk = [ada |-> FALSE, stok_minimum |-> 0, aktif |-> TRUE]
  /\ konversi = <<>> /\ katalogProduk = {}
  /\ olah = [s \in Pengolah |-> TanpaOlah] /\ jumlahOlah = 0

Isian(u, f, d) == [satuan |-> u, faktor |-> f, bawaan |-> d]
IsianSatuan == {Isian(u, f, d) : u \in SatuanAda, f \in FaktorIsian, d \in BOOLEAN}

(***************************************************************************)
(* mergeSatuan: the base unit first, repeats collapse into the first of    *)
(* them when they agree.                                                   *)
(***************************************************************************)
mergeSatuan(q) ==
  LET semua == <<Isian(Dasar, 1, FALSE)>> \o q IN
  [u \in {semua[i].satuan : i \in DOMAIN semua} |->
     [faktor |-> semua[CHOOSE i \in DOMAIN semua : /\ semua[i].satuan = u
                                                   /\ \A j \in 1..(i - 1) : semua[j].satuan # u].faktor,
      bawaan |-> \E i \in DOMAIN semua : semua[i].satuan = u /\ semua[i].bawaan]]

Bawaan(k) == {u \in DOMAIN k : k[u].bawaan}

DiterimaMerge(q) ==
  /\ \A i \in DOMAIN q : q[i].faktor = mergeSatuan(q)[q[i].satuan].faktor
  /\ Cardinality(Bawaan(mergeSatuan(q))) <= 1

\* The catalog starts in the caller's unit, or in every active one.
unitKerjaAwal(aktif) == IF aktif = {} THEN UnitAktif ELSE aktif

CreateProduk ==
  /\ ~produk.ada /\ jumlahOlah < MaksOlah /\ jumlahOlah' = jumlahOlah + 1
  /\ \E q \in {<<>>} \cup [1..1 -> IsianSatuan] \cup [1..2 -> IsianSatuan],
        aktif \in {{}} \cup {{x} : x \in UnitAktif \cup UnitPensiun} :
       /\ DiterimaMerge(q) /\ aktif \subseteq UnitAktif
       /\ konversi' = mergeSatuan(q)
       /\ katalogProduk' = unitKerjaAwal(aktif)
  /\ produk' = [produk EXCEPT !.ada = TRUE]
  /\ UNCHANGED olah

\* One UPDATE outside any transaction; no column is ever cleared.
UpdateProduk ==
  /\ produk.ada /\ jumlahOlah < MaksOlah /\ jumlahOlah' = jumlahOlah + 1
  /\ \/ \E n \in {0, 1} : produk' = [produk EXCEPT !.stok_minimum = n]
     \/ \E b \in BOOLEAN : produk' = [produk EXCEPT !.aktif = b]
  /\ UNCHANGED <<konversi, katalogProduk, olah>>

(***************************************************************************)
(* AddSatuan: clear the other flags, then insert or overwrite the row.     *)
(***************************************************************************)
AddSatuan(s) ==
  /\ produk.ada /\ olah[s] = TanpaOlah /\ jumlahOlah < MaksOlah /\ jumlahOlah' = jumlahOlah + 1
  /\ \E i \in IsianSatuan :
       /\ i.satuan = Dasar => i.faktor = 1
       /\ olah' = [olah EXCEPT ![s] =
                     [TanpaOlah EXCEPT !.langkah = IF i.bawaan THEN "lihat" ELSE "sisip",
                                       !.u = i.satuan, !.f = i.faktor, !.d = i.bawaan]]
  /\ UNCHANGED <<produk, konversi, katalogProduk>>

DipegangLain(s) == UNION {DOMAIN olah[t].tulis : t \in Pengolah \ {s}}

\* The UPDATE of ClearDefaultSatuan picks its rows in the snapshot it began
\* with, waits for whoever holds them and looks at each again.
LihatBawaan(s) ==
  /\ olah[s].langkah = "lihat"
  /\ olah' = [olah EXCEPT ![s].lama = Bawaan(konversi) \ {olah[s].u}, ![s].langkah = "bersih"]
  /\ UNCHANGED <<produk, konversi, katalogProduk, jumlahOlah>>

\* Fault: the flags are cleared outside the transaction.
BersihTerpisah(s) ==
  LET K == olah[s].lama \cap Bawaan(konversi) IN
  /\ olah[s].langkah = "bersih" /\ olah[s].lama \cap DipegangLain(s) = {}
  /\ konversi' = Timpa([u \in K |-> [konversi[u] EXCEPT !.bawaan = FALSE]], konversi)
  /\ olah' = [olah EXCEPT ![s].langkah = "sisip"]
  /\ UNCHANGED <<produk, katalogProduk, jumlahOlah>>

ClearDefaultSatuan(s) ==
  LET K == olah[s].lama \cap Bawaan(konversi) IN
  /\ olah[s].langkah = "bersih" /\ olah[s].lama \cap DipegangLain(s) = {}
  /\ olah' = [olah EXCEPT ![s].tulis = [u \in K |-> [konversi[u] EXCEPT !.bawaan = FALSE]],
                          ![s].langkah = "sisip"]
  /\ UNCHANGED <<produk, konversi, katalogProduk, jumlahOlah>>

\* INSERT ... ON CONFLICT DO UPDATE waits for the row and, when it claims the
\* flag, for whoever has taken or given up a flag; one that is still held
\* refuses it and rolls the request back.
InsertSatuan(s) ==
  LET m == olah[s]
      lain == DipegangLain(s)
      dilihat == Timpa(m.tulis, konversi)
      berbendera == {u \in lain : u \in Bawaan(konversi) \/ \E t \in Pengolah \ {s} :
                                    u \in DOMAIN olah[t].tulis /\ olah[t].tulis[u].bawaan} IN
  /\ m.langkah = "sisip" /\ m.u \notin lain /\ (m.d => berbendera = {})
  /\ olah' = [olah EXCEPT ![s] =
       IF m.d /\ Bawaan(dilihat) \ {m.u} # {} THEN TanpaOlah
       ELSE [m EXCEPT !.tulis = Timpa([u \in {m.u} |-> [faktor |-> m.f, bawaan |-> m.d]], @), !.langkah = "commit"]]
  /\ UNCHANGED <<produk, konversi, katalogProduk, jumlahOlah>>

CommitSatuan(s) ==
  /\ olah[s].langkah = "commit"
  /\ konversi' = Timpa(olah[s].tulis, konversi)
  /\ olah' = [olah EXCEPT ![s] = TanpaOlah]
  /\ UNCHANGED <<produk, katalogProduk, jumlahOlah>>

GagalOlah(s) ==
  /\ olah[s] # TanpaOlah /\ olah' = [olah EXCEPT ![s] = TanpaOlah]
  /\ UNCHANGED <<produk, konversi, katalogProduk, jumlahOlah>>

NextProduk ==
  \/ CreateProduk \/ UpdateProduk
  \/ \E s \in Pengolah : \/ AddSatuan(s) \/ LihatBawaan(s) \/ ClearDefaultSatuan(s)
                         \/ InsertSatuan(s) \/ CommitSatuan(s) \/ GagalOlah(s)

SpecProduk == InitProduk /\ [][NextProduk]_varsProduk

(***************************************************************************)
(* Properties.                                                             *)
(***************************************************************************)
TypeOKProduk ==
  /\ produk \in [ada : BOOLEAN, stok_minimum : Nat, aktif : BOOLEAN]
  /\ DOMAIN konversi \subseteq SatuanAda
  /\ \A u \in DOMAIN konversi : konversi[u] \in BarisSatuan
  /\ katalogProduk \subseteq UnitAktif

\* A product is never without its base unit at faktor 1, which every quantity
\* of every document is converted by, and has one default at most.
SatuanDasarAda ==
  produk.ada => /\ Dasar \in DOMAIN konversi /\ konversi[Dasar].faktor = 1
                /\ Cardinality(Bawaan(konversi)) <= 1

\* The default only disappears when a request stores its own row without the
\* flag: two requests that move it at once, or one that fails halfway, leave a
\* default behind.
BawaanTidakHilang ==
  [][Bawaan(konversi) # {} /\ Bawaan(konversi') = {} =>
       \E s \in Pengolah : olah[s].langkah = "commit" /\ olah[s].u \in Bawaan(konversi) /\ ~olah[s].d]_varsProduk
=============================================================================
