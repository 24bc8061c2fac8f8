----------------------------- MODULE NilaiStok -----------------------------
(***************************************************************************)
(* The value of the stock of one product in several rooms, through the     *)
(* documents that move it.  PostingStok shows that postings of a pair are  *)
(* serial, so a document is one step here; what it leaves out, the cents,  *)
(* is the subject.  A refused row refuses its whole document (ROLLBACK):   *)
(* the step is then not taken.                                             *)
(***************************************************************************)
EXTENDS MesinSaldo, Sequences, FiniteSetsExt

CONSTANTS Ruang, Qty, Nilai,   \* rooms, quantities and invoice values (cents)
          MaksDok              \* bound: documents in a behaviour

ASSUME AsumsiNilai ==
  /\ IsFiniteSet(Ruang) /\ MaksDok \in Nat
  /\ Qty \subseteq Nat \ {0} /\ Nilai \subseteq Nat

VARIABLES kartu,    \* [Ruang -> rows of the ledger, oldest first]
          dokumen   \* documents posted, with what their rows recorded

varsNilai == <<kartu, dokumen>>

Sesudah(k, r) == IF k[r] = <<>> THEN SaldoKosong ELSE k[r][Len(k[r])].saldo

Saldo(r) == Sesudah(kartu, r)

\* A row: what it did, and the balance after it.
Tambah(k, r, jenis, saldo) ==
  [k EXCEPT ![r] = Append(@, [jenis |-> jenis, saldo |-> saldo])]

Catat(jenis, r, tujuan, qty, nilai) ==
  dokumen' = Append(dokumen, [jenis |-> jenis, ruang |-> r, tujuan |-> tujuan,
                              qty |-> qty, nilai |-> nilai, batal |-> FALSE])

InitNilai == kartu = [r \in Ruang |-> <<>>] /\ dokumen = <<>>

\* Pembelian, penerimaan susulan, saldo awal: the document brings the value.
Terima(r, q, n) ==
  /\ kartu' = Tambah(kartu, r, "masuk", SetelahMasuk(Saldo(r), q, n))
  /\ Catat("masuk", r, r, q, n)

\* Penjualan, pemakaian, retur, an opname deficit: the trigger values it.
Keluarkan(r, q) ==
  LET sesudah == SetelahKeluar(Saldo(r), q) IN
  /\ Diterima(sesudah)
  /\ kartu' = Tambah(kartu, r, "keluar", sesudah)
  /\ Catat("keluar", r, r, q, NilaiDari(q, Saldo(r).hpp))

\* Fault: the goods arrive at the average of the room they come to.
MutasiHargaTujuan(a, b, q) ==
  LET keluar == SetelahKeluar(Saldo(a), q)
      n      == NilaiDari(q, Saldo(b).hpp) IN
  /\ a # b /\ Diterima(keluar)
  /\ kartu' = Tambah(Tambah(kartu, a, "keluar", keluar), b, "masuk",
                     SetelahMasuk(Saldo(b), q, n))
  /\ Catat("mutasi", a, b, q, n)

\* Mutasi: the incoming row is valued at the nilai_keluar of the outgoing one.
Mutasi(a, b, q) ==
  LET keluar == SetelahKeluar(Saldo(a), q)
      n      == NilaiDari(q, Saldo(a).hpp) IN
  /\ a # b /\ Diterima(keluar)
  /\ kartu' = Tambah(Tambah(kartu, a, "keluar", keluar), b, "masuk",
                     SetelahMasuk(Saldo(b), q, n))
  /\ Catat("mutasi", a, b, q, n)

\* Surplus of a stock count, in a room that has seen the product: at the
\* room's own average.
Lebih(r, q) ==
  LET n == NilaiDari(q, Saldo(r).hpp) IN
  /\ kartu[r] # <<>>
  /\ kartu' = Tambah(kartu, r, "lebih", SetelahMasuk(Saldo(r), q, n))
  /\ Catat("masuk", r, r, q, n)

\* Reversing rows: goods that came in leave at today's average, goods that
\* left come back at what the ledger recorded them leaving for.  Of a
\* transfer the outgoing row, written first, is reversed first.
Batal(i) ==
  LET d == dokumen[i]
      pulang == Tambah(kartu, d.ruang, "masuk", SetelahMasuk(Saldo(d.ruang), d.qty, d.nilai))
      tarik(k, r) == SetelahKeluar(Sesudah(k, r), d.qty) IN
  /\ ~d.batal
  /\ \/ d.jenis = "keluar" /\ kartu' = pulang
     \/ /\ d.jenis = "masuk" /\ Diterima(tarik(kartu, d.ruang))
        /\ kartu' = Tambah(kartu, d.ruang, "keluar", tarik(kartu, d.ruang))
     \/ /\ d.jenis = "mutasi" /\ Diterima(tarik(pulang, d.tujuan))
        /\ kartu' = Tambah(pulang, d.tujuan, "keluar", tarik(pulang, d.tujuan))
  /\ dokumen' = [dokumen EXCEPT ![i].batal = TRUE]

Buat ==
  /\ Len(dokumen) < MaksDok
  /\ \E r \in Ruang, q \in Qty :
       \/ \E n \in Nilai : Terima(r, q, n)
       \/ Keluarkan(r, q)
       \/ \E b \in Ruang : Mutasi(r, b, q)
       \/ Lebih(r, q)

\* The bound is reached and everything is cancelled, or cannot be.
Habis == Len(dokumen) = MaksDok /\ UNCHANGED varsNilai

NextNilai == Buat \/ (\E i \in DOMAIN dokumen : Batal(i)) \/ Habis

SpecNilai == InitNilai /\ [][NextNilai]_varsNilai

-----------------------------------------------------------------------------
TypeOKNilai ==
  /\ \A r \in Ruang : \A i \in DOMAIN kartu[r] :
       kartu[r][i].saldo \in [stok : Nat, nilai : Nat, hpp : Nat]
  /\ Len(dokumen) <= MaksDok

\* The last row that recomputed the average, and the rows after it.
RataDihitung(r) == Max({i \in DOMAIN kartu[r] : kartu[r][i].jenis # "keluar"})

\* How far rounding can have taken a room's value from stok * hpp, twice, in
\* ten-thousandths.
BatasSelisih(r) ==
  LET j == RataDihitung(r) IN kartu[r][j].saldo.stok + 100 * (Len(kartu[r]) - j)

\* Between value and stok * hpp there is only rounding: half a unit of hpp
\* per piece where the average was computed, half a cent per row since.
SelisihTerbatas ==
  \A r \in Ruang : kartu[r] # <<>> /\ Saldo(r).stok > 0 =>
    LET beda == 100 * Saldo(r).nilai - Saldo(r).stok * Saldo(r).hpp
    IN 2 * beda <= BatasSelisih(r) /\ -2 * beda <= BatasSelisih(r)

NilaiSeluruh(k) == MapThenSumSet(LAMBDA r : Sesudah(k, r).nilai, Ruang)

\* A transfer that leaves goods behind moves value and makes or loses none;
\* one that empties the room changes the total by no more than what rounding
\* had left there (mutasi_usecase.go, "the conservation law").
MutasiTerjaga ==
  [][Len(dokumen') > Len(dokumen) =>
       \A a, b \in Ruang : \A q \in Qty : Mutasi(a, b, q) =>
         LET beda == NilaiSeluruh(kartu') - NilaiSeluruh(kartu)
             batas == IF Sesudah(kartu', a).stok > 0 THEN 0 ELSE BatasSelisih(a) + 100
         IN 200 * beda <= batas /\ -200 * beda <= batas]_varsNilai

\* Claimed at 000004:85: a value below zero means a broken chain, so goods
\* that are there can always leave.
SelaluBisaKeluar ==
  \A r \in Ruang : \A q \in 1..Saldo(r).stok : Diterima(SetelahKeluar(Saldo(r), q))
=============================================================================
