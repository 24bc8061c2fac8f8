------------------------------ MODULE Laporan ------------------------------
(***************************************************************************)
(* What is read back from kartu_stok: balances, the stock minimum list,    *)
(* movements by date, the value of the stock, dead stock, and the job that *)
(* walks every balance chain.  The ledger below is written the way the     *)
(* postings write it, in id order and with dates that need not follow that *)
(* order; a hand outside the program may change one stored figure.         *)
(***************************************************************************)
EXTENDS MesinSaldo, Sequences, FiniteSetsExt

CONSTANTS BarangLap, RuangLap,
          UnitRuang,       \* [RuangLap -> id_unit_kerja, a number above 0]
          MinimumLap,      \* [BarangLap -> stok_minimum]
          QtyLap, NilaiLap, TglLap,
          BatasMati,       \* first day of the demand window
          MaksKartu        \* bound: rows of the ledger

ASSUME AsumsiLaporan ==
  /\ IsFiniteSet(BarangLap) /\ IsFiniteSet(RuangLap)
  /\ UnitRuang \in [RuangLap -> Nat \ {0}] /\ MinimumLap \in [BarangLap -> Nat]
  /\ QtyLap \subseteq Nat \ {0} /\ NilaiLap \subseteq Nat
  /\ TglLap \subseteq Nat /\ IsFiniteSet(TglLap) /\ MaksKartu \in Nat

VARIABLES ledger,   \* rows of kartu_stok, by id
          rusak     \* ids of the rows changed by hand

varsLaporan == <<ledger, rusak>>

InitLaporan == ledger = <<>> /\ rusak = {}

Semua == 0   \* a nil aktifIDUnitKerja
Lingkup == {Semua} \cup {UnitRuang[r] : r \in RuangLap}
DalamLingkup(r, u) == u = Semua \/ UnitRuang[r] = u

BarisPasangan(k, b, r) == {i \in DOMAIN k : k[i].b = b /\ k[i].r = r}

\* The last row of a pair, by id, never by date.
Terakhir(k, b, r) ==
  LET I == BarisPasangan(k, b, r) IN
  IF I = {} THEN SaldoKosong
  ELSE [stok |-> k[Max(I)].akhir, nilai |-> k[Max(I)].nilai, hpp |-> k[Max(I)].hpp]

(***************************************************************************)
(* The ledger is written.                                                  *)
(***************************************************************************)
\* A row as the trigger completes it.
BarisLedger(k, b, r, tgl, jenis, masuk, keluar, nm, asal, mitra) ==
  LET lalu == Terakhir(k, b, r)
      s == IF masuk > 0 THEN SetelahMasuk(lalu, masuk, nm) ELSE SetelahKeluar(lalu, keluar) IN
  [b |-> b, r |-> r, tgl |-> tgl, jenis |-> jenis, awal |-> lalu.stok, masuk |-> masuk,
   keluar |-> keluar, akhir |-> s.stok, nm |-> nm,
   nk |-> IF masuk > 0 THEN 0 ELSE NilaiDari(keluar, lalu.hpp),
   nilai |-> s.nilai, hpp |-> s.hpp, asal |-> asal, mitra |-> mitra]

BolehTulis(k) == k[Len(k)].akhir >= 0 /\ k[Len(k)].nilai >= 0

DatangLap(b, r, q, n, t) ==
  ledger' = Append(ledger, BarisLedger(ledger, b, r, t, "PEMBELIAN", q, 0, n, 0, r))

JualLap(b, r, q, t) ==
  /\ Terakhir(ledger, b, r).stok >= q
  /\ ledger' = Append(ledger, BarisLedger(ledger, b, r, t, "PENJUALAN", 0, q, 0, 0, r))
  /\ BolehTulis(ledger')

\* Out of a, then into c at what it left a for.
MutasiLap(b, a, c, q, t) ==
  LET keluar == Append(ledger, BarisLedger(ledger, b, a, t, "MUTASI_KELUAR", 0, q, 0, 0, c)) IN
  /\ a # c /\ Terakhir(ledger, b, a).stok >= q /\ BolehTulis(keluar)
  /\ ledger' = Append(keluar, BarisLedger(keluar, b, c, t, "MUTASI_MASUK", q, 0,
                                          keluar[Len(keluar)].nk, 0, a))

\* A cancelled sale or receipt: the row backwards, dated by the cancellation.
BalikLap(i, t) ==
  LET x == ledger[i] IN
  /\ x.jenis \in {"PEMBELIAN", "PENJUALAN"}
  /\ \A j \in DOMAIN ledger : ledger[j].asal # i
  /\ x.masuk > 0 => Terakhir(ledger, x.b, x.r).stok >= x.masuk
  /\ ledger' = Append(ledger, BarisLedger(ledger, x.b, x.r, t, "PEMBATALAN_TRANSAKSI",
                                          x.keluar, x.masuk, x.nk, i, x.r))
  /\ BolehTulis(ledger')

\* Somebody writes to kartu_stok directly, once.
UbahTangan(i, kolom) ==
  /\ rusak = {} /\ rusak' = {i}
  /\ ledger' = [ledger EXCEPT ![i][kolom] = @ + 1]

NextLaporan ==
  \/ /\ Len(ledger) < MaksKartu /\ UNCHANGED rusak
     /\ \E b \in BarangLap, r \in RuangLap, q \in QtyLap, t \in TglLap :
          \/ \E n \in NilaiLap : DatangLap(b, r, q, n, t)
          \/ JualLap(b, r, q, t)
          \/ Len(ledger) + 2 <= MaksKartu /\ \E c \in RuangLap : MutasiLap(b, r, c, q, t)
  \/ /\ Len(ledger) < MaksKartu /\ UNCHANGED rusak
     /\ \E i \in DOMAIN ledger, t \in TglLap : BalikLap(i, t)
  \/ \E i \in DOMAIN ledger, kolom \in {"awal", "akhir", "nk", "nilai", "hpp"} : UbahTangan(i, kolom)

SpecLaporan == InitLaporan /\ [][NextLaporan]_varsLaporan

(***************************************************************************)
(* PeriksaRantai: every row against the row before it as that is stored.   *)
(***************************************************************************)
Lag(k, i) ==
  LET I == {j \in BarisPasangan(k, k[i].b, k[i].r) : j < i} IN
  IF I = {} THEN SaldoKosong
  ELSE [stok |-> k[Max(I)].akhir, nilai |-> k[Max(I)].nilai, hpp |-> k[Max(I)].hpp]

\* Fault: the query forgets that an empty balance is worth nothing.
HarapTanpaNol(k, i) ==
  LET x == k[i]
      l == Lag(k, i)
      akhir == l.stok + x.masuk - x.keluar IN
  [awal |-> l.stok, akhir |-> akhir,
   nk |-> IF x.masuk > 0 THEN 0 ELSE NilaiDari(x.keluar, l.hpp),
   hpp |-> IF x.masuk > 0 /\ akhir > 0 THEN HppDari(l.nilai + x.nm, akhir) ELSE l.hpp,
   nilai |-> IF x.masuk > 0 THEN l.nilai + x.nm ELSE l.nilai - NilaiDari(x.keluar, l.hpp)]

Harap(k, i) ==
  LET x == k[i]
      l == Lag(k, i)
      akhir == l.stok + x.masuk - x.keluar IN
  [awal |-> l.stok, akhir |-> akhir,
   nk |-> IF x.masuk > 0 THEN 0 ELSE NilaiDari(x.keluar, l.hpp),
   hpp |-> IF x.masuk > 0 /\ akhir > 0 THEN HppDari(l.nilai + x.nm, akhir) ELSE l.hpp,
   nilai |-> IF akhir = 0 THEN 0
             ELSE IF x.masuk > 0 THEN l.nilai + x.nm ELSE l.nilai - NilaiDari(x.keluar, l.hpp)]

Menyimpang(k, i) ==
  k[i].akhir < 0 \/ \E kolom \in {"awal", "akhir", "nk", "hpp", "nilai"} : k[i][kolom] # Harap(k, i)[kolom]

\* The pairs that deviate, each with id_pertama.
PeriksaRantai(k) ==
  LET I == {i \in DOMAIN k : Menyimpang(k, i)} IN
  {<<k[i].b, k[i].r, Min(I \cap BarisPasangan(k, k[i].b, k[i].r))>> : i \in I}

(***************************************************************************)
(* The reports of the ledger k, for the unit u of the caller.              *)
(***************************************************************************)
\* Riwayat: the ids of the rows of a pair between two days, read in id order.
Riwayat(k, b, r, dari, sampai, u) ==
  {i \in BarisPasangan(k, b, r) : k[i].tgl \in dari..sampai /\ DalamLingkup(r, u)}

\* SaldoPerRuang, SaldoPerRuangBatch, SaldoBatch: pairs that ever moved.
SaldoPerRuang(k, b, u) ==
  [r \in {x \in RuangLap : DalamLingkup(x, u) /\ BarisPasangan(k, b, x) # {}} |->
     Terakhir(k, b, r)]

TotalStok(k, b, u) ==
  LET s == SaldoPerRuang(k, b, u) IN MapThenSumSet(LAMBDA r : s[r].stok, DOMAIN s)

\* StokMinimum: a product that never moved in scope counts as 0.
StokMinimum(k, u) == {b \in BarangLap : MinimumLap[b] > 0 /\ TotalStok(k, b, u) <= MinimumLap[b]}

\* KesehatanStokProduk: only products that moved in scope are judged.
Dinilai(k, u) == {b \in BarangLap : MinimumLap[b] > 0 /\ DOMAIN SaldoPerRuang(k, b, u) # {}}
Sehat(k, u)   == {b \in Dinilai(k, u) : TotalStok(k, b, u) > MinimumLap[b]}
Menipis(k, u) == {b \in Dinilai(k, u) : TotalStok(k, b, u) \in 1..MinimumLap[b]}
Habis_(k, u)  == {b \in Dinilai(k, u) : TotalStok(k, b, u) = 0}

\* NilaiPersediaan: every room in scope, also at 0.
NilaiPersediaan(k, u) ==
  [r \in {x \in RuangLap : DalamLingkup(x, u)} |->
     MapThenSumSet(LAMBDA b : Terakhir(k, b, r).nilai, BarangLap)]

\* Pergerakan of a pair between two days, in minus out, over all kinds.
Pergerakan(k, b, r, dari, sampai) ==
  MapThenSumSet(LAMBDA i : k[i].masuk - k[i].keluar, Riwayat(k, b, r, dari, sampai, Semua))

\* Fault: a transfer inside the unit counts as an arrival.
KedatanganSemua(k, b, u) ==
  {i \in DOMAIN k : /\ k[i].b = b /\ DalamLingkup(k[i].r, u)
                    /\ k[i].masuk > 0 /\ k[i].asal = 0}

\* Arrivals into the unit: no reversal, no transfer inside it.
Kedatangan(k, b, u) ==
  {i \in DOMAIN k :
     LET x == k[i] IN
     /\ x.b = b /\ DalamLingkup(x.r, u) /\ x.masuk > 0 /\ x.asal = 0
     /\ x.jenis # "MUTASI_MASUK" \/ ~DalamLingkup(x.mitra, u)}

\* Demand in the window, anywhere in the unit, that is no reversal.
AdaPermintaan(k, b, u) ==
  \E i \in DOMAIN k :
    LET x == k[i] IN
    /\ x.b = b /\ DalamLingkup(x.r, u) /\ x.asal = 0
    /\ x.jenis \in {"PENJUALAN", "PEMAKAIAN"} /\ x.tgl >= BatasMati

\* KesehatanStokRuang: in stock, without demand, and not new.
StokMati(k, u) ==
  {b \in BarangLap :
     /\ TotalStok(k, b, u) > 0 /\ ~AdaPermintaan(k, b, u)
     /\ \/ Kedatangan(k, b, u) = {}
        \/ \E i \in Kedatangan(k, b, u) : k[i].tgl < BatasMati}

(***************************************************************************)
(* Properties.                                                             *)
(***************************************************************************)
TypeOKLaporan ==
  /\ Len(ledger) <= MaksKartu /\ rusak \subseteq DOMAIN ledger
  /\ \A i \in DOMAIN ledger :
       /\ ledger[i].b \in BarangLap /\ ledger[i].r \in RuangLap
       /\ \A kolom \in {"awal", "masuk", "keluar", "akhir", "nm", "nk", "nilai", "hpp"} :
            ledger[i][kolom] \in Nat
       /\ ledger[i].asal \in 0..(i - 1)

\* The job and the trigger agree to the last cent: a ledger nobody touched is
\* never reported, and of one row that was touched exactly its pair is, at
\* that row, although later rows were correctly built on top of it.
RantaiTerlapor ==
  PeriksaRantai(ledger) = {<<ledger[i].b, ledger[i].r, i>> : i \in rusak}

\* What the balances of a product are worth together.
NilaiBarang(k, b, u) ==
  LET s == SaldoPerRuang(k, b, u) IN MapThenSumSet(LAMBDA r : s[r].nilai, DOMAIN s)

\* The reports agree with one another: whatever the dates of the documents,
\* the movements up to a day and since add up to the balance; the rooms a
\* product is in add up to the value; and every product the health score
\* calls low or out is on the stock minimum list of the same scope.
Sepadan(k) ==
  /\ \A b \in BarangLap, r \in RuangLap, d \in TglLap :
       Pergerakan(k, b, r, 0, d) + Pergerakan(k, b, r, d + 1, Max(TglLap)) = Terakhir(k, b, r).stok
  /\ \A u \in Lingkup :
       /\ Menipis(k, u) \cup Habis_(k, u) = StokMinimum(k, u) \cap Dinilai(k, u)
       /\ Sehat(k, u) \cap StokMinimum(k, u) = {}
       /\ MapThenSumSet(LAMBDA r : NilaiPersediaan(k, u)[r], DOMAIN NilaiPersediaan(k, u)) =
            MapThenSumSet(LAMBDA b : NilaiBarang(k, b, u), BarangLap)

LaporanSepadan == rusak = {} /\ ledger # <<>> => Sepadan(ledger)

\* What is read back from the ledger is what was written to it, by the job
\* and by the reports alike.
LaporanTerjaga == RantaiTerlapor /\ LaporanSepadan

\* Dead stock cannot be revived by shuttling it between the rooms of its unit
\* or by cancelling documents: as long as some is left, it stays dead.
StokMatiTetapMati ==
  [][Len(ledger') > Len(ledger) =>
       LET x == ledger'[Len(ledger')] IN
       \A u \in Lingkup :
         /\ x.jenis = "MUTASI_MASUK" /\ DalamLingkup(x.r, u) /\ DalamLingkup(x.mitra, u) =>
              StokMati(ledger', u) = StokMati(ledger, u)
         /\ x.asal # 0 =>
              \A b \in StokMati(ledger, u) : TotalStok(ledger', b, u) > 0 => b \in StokMati(ledger', u)
    ]_varsLaporan
=============================================================================
