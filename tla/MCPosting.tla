----------------------------- MODULE MCPosting -----------------------------
(***************************************************************************)
(* Small instances of PostingStok: the documents and the ledger each run   *)
(* starts from.  Two products, two rooms, months 1 (closed by a run) and 2 *)
(* (now).                                                                  *)
(***************************************************************************)
EXTENDS PostingBuku, TLC

CONSTANTS s1, s2, s3
Simetri == Permutations(Sesi)

Isian(jenis, bulan, ruang, tujuan, induk, garis) ==
  [jenis |-> jenis, bulan |-> bulan, ruang |-> ruang, tujuan |-> tujuan,
   induk |-> induk, baris |-> garis]

Garis(b, q) == [barang |-> b, qty |-> q]

\* An opening row: the history of a pair before the model begins.
Riwayat(id, b, r, q) ==
  [id |-> id, barang |-> b, ruang |-> r, masuk |-> q, keluar |-> 0, awal |-> 0,
   akhir |-> q, bulan |-> BulanIni, dok |-> Nol, asal |-> Nol]

\* No count has pulled its lines yet.
SistemKosong == [d \in Dokumen |-> [b \in Barang |-> -1]]

\* Opposite transfers of the same goods, the first of them into a room that
\* has never seen them, and the opening balance of that room.
IsiMutasi ==
  1 :> Isian("mutasi", 2, 1, 2, Nol, <<Garis(1, 1)>>) @@
  2 :> Isian("mutasi", 2, 2, 1, Nol, <<Garis(1, 2)>>) @@
  3 :> Isian("saldo_awal", 2, 2, 2, Nol, <<Garis(1, 2)>>)
StatusMutasi == 3 :> "DIAJUKAN" @@ [d \in 1..2 |-> "DRAFT"]
KartuMutasi == {Riwayat(1, 1, 1, 2)}

\* A count of room 1 (one missing of product 1), a sale out of the room and a
\* transfer into it.
IsiOpname ==
  1 :> Isian("stok_opname", 2, 1, 1, Nol, <<Garis(1, 1)>>) @@
  2 :> Isian("penjualan", 2, 1, 1, Nol, <<Garis(1, 1)>>) @@
  3 :> Isian("mutasi", 2, 2, 1, Nol, <<Garis(1, 1)>>)
StatusOpname == 1 :> "BELUM" @@ [d \in 2..3 |-> "DRAFT"]

KartuOpname == {Riwayat(1, 1, 1, 2), Riwayat(2, 1, 2, 1)}

\* A purchase already received, its follow-up receipt and its return, and an
\* internal use of the same goods.
IsiPembelian ==
  1 :> Isian("pembelian", 2, 1, 1, Nol, <<Garis(1, 1)>>) @@
  2 :> Isian("penerimaan_susulan", 1, 1, 1, 1, <<Garis(1, 1)>>) @@
  3 :> Isian("retur_pembelian", 2, 1, 1, 1, <<Garis(1, 1)>>) @@
  4 :> Isian("pemakaian", 2, 1, 1, Nol, <<Garis(1, 1)>>)
StatusPembelian == 1 :> "POSTED" @@ 4 :> "DISETUJUI" @@ [d \in 2..3 |-> "DIAJUKAN"]
KartuPembelian ==
  {[id |-> 1, barang |-> 1, ruang |-> 1, masuk |-> 1, keluar |-> 0, awal |-> 0,
    akhir |-> 1, bulan |-> 2, dok |-> 1, asal |-> Nol]}

\* Two purchases of the same two products, typed in opposite order.
IsiDuaPembelian ==
  1 :> Isian("pembelian", 2, 1, 1, Nol, <<Garis(1, 1), Garis(2, 1)>>) @@
  2 :> Isian("pembelian", 2, 1, 1, Nol, <<Garis(2, 1), Garis(1, 1)>>)
KartuKosong == {}
StatusDuaPembelian == [d \in 1..2 |-> "DIAJUKAN"]

\* The same purchases, and a count of their room that is already POSTED.
IsiOpnamePosted ==
  IsiDuaPembelian @@ 3 :> Isian("stok_opname", 2, 1, 1, Nol, <<Garis(1, 1)>>)
StatusOpnamePosted == StatusDuaPembelian @@ 3 :> "POSTED"
SistemOpnamePosted == [SistemKosong EXCEPT ![3][1] = 2]
KartuOpnamePosted ==
  {Riwayat(1, 1, 1, 2),
   [id |-> 2, barang |-> 1, ruang |-> 1, masuk |-> 0, keluar |-> 1, awal |-> 2,
    akhir |-> 1, bulan |-> 2, dok |-> 3, asal |-> Nol]}

\* A purchase received into the room a sale goes out of.
IsiPembelianPenjualan ==
  1 :> Isian("pembelian", 2, 1, 1, Nol, <<Garis(1, 1)>>) @@
  2 :> Isian("penjualan", 2, 1, 1, Nol, <<Garis(1, 1)>>)
StatusPembelianPenjualan == 1 :> "DIAJUKAN" @@ 2 :> "DRAFT"
KartuPembelianPenjualan == {Riwayat(1, 1, 1, 2)}
=============================================================================
