------------------------------ MODULE Piutang ------------------------------
(***************************************************************************)
(* What customers owe: sales notas on credit, the limit of a customer      *)
(* (plafon_kredit), and the payments received from them, under concurrent  *)
(* transactions and from the first draft on.                               *)
(*                                                                         *)
(* Every handler but Create locks the row of its document, works on the    *)
(* copy it read then (salinan) and commits.  A payment locks every nota it *)
(* is allocated to before it looks at what is left of it, when its draft   *)
(* is written and again when it is posted or its giro clears.              *)
(*                                                                         *)
(* The goods a nota moves are the subject of PostingStok: here a posting   *)
(* or a cancellation that the stock refuses is a transaction that ends in  *)
(* Putus.  Amounts are whole numbers of the smallest unit; diskon_nota     *)
(* stands for the three header amounts that enter the total.               *)
(***************************************************************************)
EXTENDS KunciPg, Integers, Sequences, FiniteSetsExt, SequencesExt

CONSTANTS
  Nota, Bayar,       \* ids of notas and payments, numbers
  Pelanggan, Umum,   \* customers; Umum: a nota without one
  Plafon,            \* the limits, of the customers that have one
  IsianNota,         \* headers a nota is typed with
  PatchNota,         \* what an Update of a nota may carry: some header fields
  Subtotal,          \* what its lines may add up to
  IsianBayar,        \* headers a payment is typed with
  PilihanAlokasi,    \* allocations a request may carry
  NotaAwal, BayarAwal,       \* rows there are to begin with
  MaksMulai          \* bound: transactions started in a behaviour

Alokasi == [nota : Nota, jumlah : Nat \ {0}]

StatusDok     == {"TIADA", "DRAFT", "POSTED", "BATAL"}    \* TIADA: not created yet
StatusGiro    == {"TANPA", "BELUM_CAIR", "CAIR", "TOLAK"}
StatusLunas   == {"BELUM", "SEBAGIAN", "LUNAS"}
JenisNota     == {"TUNAI", "KREDIT"}
Metode        == {"TUNAI", "GIRO"}

BarisNota ==
  [status : StatusDok, jenis : JenisNota, pelanggan : Pelanggan \cup {Umum},
   subtotal : Nat, diskon : Nat, total : Nat, lunas : StatusLunas]

BarisBayar ==
  [status : StatusDok, giro : StatusGiro, pelanggan : Pelanggan, jumlah : Nat \ {0},
   dialokasikan : Nat, alokasi : Seq(Alokasi)]

ASSUME AsumsiPiutang ==
  /\ Nota \subseteq Nat /\ MaksMulai \in Nat
  /\ IsFiniteSet(Nota) /\ IsFiniteSet(Bayar)
  /\ Umum \notin Pelanggan
  /\ DOMAIN Plafon \subseteq Pelanggan /\ \A p \in DOMAIN Plafon : Plafon[p] \in Nat
  /\ PilihanAlokasi \subseteq Seq(Alokasi)
  /\ IsianNota \subseteq [jenis : JenisNota, pelanggan : Pelanggan \cup {Umum}, diskon : Nat]
  /\ \A p \in PatchNota :
       /\ DOMAIN p \subseteq {"jenis", "pelanggan", "diskon"}
       /\ "jenis" \in DOMAIN p => p.jenis \in JenisNota
       /\ "pelanggan" \in DOMAIN p => p.pelanggan \in Pelanggan \cup {Umum}
       /\ "diskon" \in DOMAIN p => p.diskon \in Nat
  /\ Subtotal \subseteq Nat
  /\ IsianBayar \subseteq [metode : Metode, pelanggan : Pelanggan, jumlah : Nat \ {0}]
  /\ NotaAwal \in [Nota -> BarisNota] /\ BayarAwal \in [Bayar -> BarisBayar]
  /\ \A n \in Nota : NotaAwal[n].jenis = "KREDIT" => NotaAwal[n].pelanggan # Umum

VARIABLES
  nota,              \* [Nota -> BarisNota], as committed
  bayar,             \* [Bayar -> row with its allocations], as committed
  mulai,             \* transactions started so far
  pc, tugas,         \* per session: where it is, what it was asked to do
  salinan,           \* per session: its document's row as read under the lock
  daftar,            \* per session: allocations, or notas, still to go
  foto, tulis,       \* per session: a snapshot's result, what it has written
  mulus              \* sessions whose limit check no commit has overtaken (ghost)

notaVars == <<nota, bayar>>
varsPiutang == <<kunciVars, notaVars, mulai, pc, tugas, salinan, daftar, foto, tulis, mulus>>

KNota(n)  == <<"penjualan", n>>
KBayar(d) == <<"penerimaan_pembayaran", d>>

Kunci(k) == [kunci |-> k, mode |-> "X"]

PermintaanPiutang == {Kunci(KNota(n)) : n \in Nota} \cup {Kunci(KBayar(d)) : d \in Bayar}

-----------------------------------------------------------------------------
(* What a statement that sees the payments B says of a nota.               *)
JumlahKe(b, n) ==
  SumSet({a.jumlah : a \in {x \in ToSet(b.alokasi) : x.nota = n}})

\* penjualanAlokasiEfektif: POSTED, and a giro only once it has cleared.
Efektif(B) == {d \in Bayar : B[d].status = "POSTED" /\ B[d].giro \in {"TANPA", "CAIR"}}

AlokasiEfektif(B, n) == MapThenSumSet(LAMBDA d : JumlahKe(B[d], n), Efektif(B))

\* SumAlokasiEfektifKecuali: what everybody but the payment d has taken of it.
AlokasiKecuali(B, n, d) == MapThenSumSet(LAMBDA e : JumlahKe(B[e], n), Efektif(B) \ {d})

\* RecalculateStatusPembayaran.
StatusPembayaran(B, n, baris) ==
  LET masuk == AlokasiEfektif(B, n)
  IN IF baris.jenis = "TUNAI" \/ baris.total <= masuk THEN "LUNAS"
     ELSE IF masuk > 0 THEN "SEBAGIAN" ELSE "BELUM"

\* HasPostedAlokasi: cleared or not.
HasPostedAlokasi(n) ==
  \E d \in Bayar : bayar[d].status = "POSTED" /\ n \in {a.nota : a \in ToSet(bayar[d].alokasi)}

\* PiutangBerjalan: what a customer owes on all POSTED notas on credit.
PiutangBerjalan(N, B, p) ==
  MapThenSumSet(LAMBDA n : N[n].total - AlokasiEfektif(B, n),
    {n \in Nota : N[n].pelanggan = p /\ N[n].status = "POSTED" /\ N[n].jenis = "KREDIT"})

\* hitungTotalPenjualan; SahTotal: what it refuses.
HitungTotal(subtotal, diskon) == subtotal - diskon
SahTotal(subtotal, diskon)    == diskon <= subtotal

\* Fault: who owes a nota on credit is asked at Create only.
SahKreditTidak(isi) == TRUE

\* penjualan_kredit_pelanggan_check, and the same question in the handlers.
SahKredit(isi) == isi.jenis = "KREDIT" => isi.pelanggan # Umum

-----------------------------------------------------------------------------
Tugas ==
  [aksi : {"posting", "batal", "cair", "tolak"}, bayar : Bayar]
  \cup [aksi : {"buat"}, bayar : Bayar, isi : IsianBayar, alokasi : PilihanAlokasi]
  \cup [aksi : {"ubah"}, bayar : Bayar, jumlah : {isi.jumlah : isi \in IsianBayar}]
  \cup [aksi : {"alokasi"}, bayar : Bayar, alokasi : PilihanAlokasi]
  \cup [aksi : {"posting", "batal"}, nota : Nota]
  \cup [aksi : {"ubah"}, nota : Nota, patch : PatchNota]
  \cup [aksi : {"detail"}, nota : Nota, subtotal : Subtotal]

TentangNota(g) == "nota" \in DOMAIN g
Menganggur == [aksi |-> "tidak ada"]
Kosong     == [status |-> "TIADA"]

InitPiutang ==
  /\ InitKunci /\ mulai = 0 /\ mulus = {}
  /\ nota = NotaAwal /\ bayar = BayarAwal
  /\ pc = [t \in Sesi |-> "idle"] /\ tugas = [t \in Sesi |-> Menganggur]
  /\ salinan = [t \in Sesi |-> Kosong] /\ daftar = [t \in Sesi |-> <<>>]
  /\ foto = [t \in Sesi |-> ""] /\ tulis = [t \in Sesi |-> {}]

\* Fault: the document's row is read without FOR UPDATE.
MintaTanpa(t, p) == UNCHANGED kunciVars

\* LockByID of the document.
KunciBaris(t, k) == Minta(t, Kunci(k))

\* BEGIN of every handler but the two Creates.
Mulai(t) ==
  /\ pc[t] = "idle" /\ mulai < MaksMulai
  /\ mulai' = mulai + 1
  /\ \E g \in Tugas :
       /\ g.aksi # "buat"
       /\ \/ TentangNota(g) /\ nota[g.nota].status # "TIADA" /\ KunciBaris(t, KNota(g.nota))
          \/ ~TentangNota(g) /\ bayar[g.bayar].status # "TIADA" /\ KunciBaris(t, KBayar(g.bayar))
       /\ tugas' = [tugas EXCEPT ![t] = g]
  /\ pc' = [pc EXCEPT ![t] = "baca"]
  /\ UNCHANGED <<notaVars, salinan, daftar, foto, tulis, mulus>>

\* The session forgets and lets go of everything.  A commit that makes a
\* customer owe more overtakes the limit checks made before it.
Bersih(t, menambah) ==
  /\ LepasSemua(t)
  /\ mulus' = IF menambah THEN {} ELSE mulus \ {t}
  /\ pc' = [pc EXCEPT ![t] = "idle"] /\ tugas' = [tugas EXCEPT ![t] = Menganggur]
  /\ salinan' = [salinan EXCEPT ![t] = Kosong] /\ daftar' = [daftar EXCEPT ![t] = <<>>]
  /\ foto' = [foto EXCEPT ![t] = ""] /\ tulis' = [tulis EXCEPT ![t] = {}]
  /\ UNCHANGED mulai

Gagal(t) == Bersih(t, FALSE) /\ UNCHANGED notaVars

Menambah == \E p \in Pelanggan :
  PiutangBerjalan(nota', bayar', p) > PiutangBerjalan(nota, bayar, p)

Ke(t, l) == pc' = [pc EXCEPT ![t] = l]

-----------------------------------------------------------------------------
(* Sales notas.                                                            *)
\* Create: a new row, which nobody can see or lock before the commit.
BuatNota(n) ==
  /\ nota[n].status = "TIADA"
  /\ \E isi \in IsianNota, s \in Subtotal :
       /\ SahKredit(isi) /\ SahTotal(s, isi.diskon)
       /\ nota' = [nota EXCEPT ![n] =
            [status |-> "DRAFT", jenis |-> isi.jenis, pelanggan |-> isi.pelanggan,
             subtotal |-> s, diskon |-> isi.diskon, total |-> HitungTotal(s, isi.diskon),
             lunas |-> "BELUM"]]
  /\ UNCHANGED <<kunciVars, bayar, mulai, pc, tugas, salinan, daftar, foto, tulis, mulus>>

\* kunciDenganStatus, and Batal's question whether money points at the nota.
BacaNota(t) ==
  LET g == tugas[t]
      baris == nota[g.nota]
      boleh == /\ baris.status = IF g.aksi = "batal" THEN "POSTED" ELSE "DRAFT"
               /\ g.aksi = "batal" => ~HasPostedAlokasi(g.nota) IN
  /\ pc[t] = "baca" /\ Jalan(t) /\ TentangNota(g)
  /\ \/ /\ boleh
        /\ salinan' = [salinan EXCEPT ![t] = baris]
        /\ Ke(t, IF g.aksi = "posting" THEN "plafon" ELSE "simpan")
        /\ UNCHANGED <<kunciVars, notaVars, mulai, tugas, daftar, foto, tulis, mulus>>
     \/ ~boleh /\ Gagal(t)

\* Fault: only what is owed already is held against the limit.
CukupPlafonLama(baris) ==
  baris.jenis = "KREDIT" /\ baris.pelanggan \in DOMAIN Plafon =>
    PiutangBerjalan(nota, bayar, baris.pelanggan) <= Plafon[baris.pelanggan]

\* periksaPlafon: no row of the customer is locked.
CukupPlafon(baris) ==
  baris.jenis = "KREDIT" /\ baris.pelanggan \in DOMAIN Plafon =>
    PiutangBerjalan(nota, bayar, baris.pelanggan) + baris.total <= Plafon[baris.pelanggan]

PeriksaPlafon(t) ==
  /\ pc[t] = "plafon"
  /\ \/ /\ CukupPlafon(salinan[t])
        /\ mulus' = mulus \cup {t}
        /\ Ke(t, "simpan")
        /\ UNCHANGED <<kunciVars, notaVars, mulai, tugas, salinan, daftar, foto, tulis>>
     \/ ~CukupPlafon(salinan[t]) /\ Gagal(t)

\* The row with the fields a request carries; Update leaves the others.
Terapkan(patch, baris) ==
  [kolom \in DOMAIN baris |-> IF kolom \in DOMAIN patch THEN patch[kolom] ELSE baris[kolom]]

\* Each statement writes its own columns of the row there is now.
UbahNota(t) ==             \* Update: UpdateHeader, then SimpanTotal from the copy
  LET g == tugas[t]
      efektif == Terapkan(g.patch, salinan[t]) IN
  /\ pc[t] = "simpan" /\ g.aksi = "ubah" /\ TentangNota(g)
  /\ \/ /\ SahKredit(efektif)
        /\ SahTotal(salinan[t].subtotal, efektif.diskon)
        /\ nota' = [nota EXCEPT ![g.nota] =
             [Terapkan(g.patch, @) EXCEPT !.subtotal = salinan[t].subtotal,
                !.total = HitungTotal(salinan[t].subtotal, efektif.diskon)]]
        /\ UNCHANGED bayar
        /\ Bersih(t, FALSE)
     \/ /\ ~(SahKredit(efektif) /\ SahTotal(salinan[t].subtotal, efektif.diskon))
        /\ Gagal(t)

GantiDetail(t) ==          \* ReplaceDetail: simpanTotal with the copy's header
  LET g == tugas[t] IN
  /\ pc[t] = "simpan" /\ g.aksi = "detail"
  /\ \/ /\ SahTotal(g.subtotal, salinan[t].diskon)
        /\ nota' = [nota EXCEPT ![g.nota].subtotal = g.subtotal,
                                ![g.nota].total = HitungTotal(g.subtotal, salinan[t].diskon)]
        /\ UNCHANGED bayar
        /\ Bersih(t, FALSE)
     \/ ~SahTotal(g.subtotal, salinan[t].diskon) /\ Gagal(t)

PostingNota(t) ==
  LET g == tugas[t] IN
  /\ pc[t] = "simpan" /\ g.aksi = "posting"
  /\ nota' = [nota EXCEPT ![g.nota].status = "POSTED",
                          ![g.nota].lunas = StatusPembayaran(bayar, g.nota, nota[g.nota])]
  /\ UNCHANGED bayar
  /\ Bersih(t, Menambah)

BatalNota(t) ==
  LET g == tugas[t] IN
  /\ pc[t] = "simpan" /\ g.aksi = "batal"
  /\ nota' = [nota EXCEPT ![g.nota].status = "BATAL"]
  /\ UNCHANGED bayar
  /\ Bersih(t, FALSE)

-----------------------------------------------------------------------------
(* Payments.                                                               *)
BarisBaru(isi) ==
  [status |-> "DRAFT", giro |-> IF isi.metode = "GIRO" THEN "BELUM_CAIR" ELSE "TANPA",
   pelanggan |-> isi.pelanggan, jumlah |-> isi.jumlah, dialokasikan |-> 0, alokasi |-> <<>>]

\* Create up to its INSERT: the new row is locked by its inserter.
BuatBayar(t) ==
  /\ pc[t] = "idle" /\ mulai < MaksMulai
  /\ mulai' = mulai + 1
  /\ \E g \in Tugas :
       /\ g.aksi = "buat" /\ bayar[g.bayar].status = "TIADA"
       /\ \A u \in Sesi : Kunci(KBayar(g.bayar)) \notin pegang[u]
       /\ Minta(t, Kunci(KBayar(g.bayar)))
       /\ tugas' = [tugas EXCEPT ![t] = g]
       /\ salinan' = [salinan EXCEPT ![t] = BarisBaru(g.isi)]
       /\ daftar' = [daftar EXCEPT ![t] = g.alokasi]
  /\ Ke(t, "kunci")
  /\ UNCHANGED <<notaVars, foto, tulis, mulus>>

\* kunciDenganStatus and kunciGiroBelumCair; Update's look at what is allocated.
BolehBayar(g, baris) ==
  /\ baris.status = IF g.aksi \in {"ubah", "alokasi", "posting"} THEN "DRAFT" ELSE "POSTED"
  /\ g.aksi \in {"cair", "tolak"} => baris.giro = "BELUM_CAIR"
  /\ g.aksi = "ubah" => g.jumlah >= baris.dialokasikan

BacaBayar(t) ==
  LET g == tugas[t]
      baris == bayar[g.bayar] IN
  /\ pc[t] = "baca" /\ Jalan(t) /\ ~TentangNota(g)
  /\ \/ /\ BolehBayar(g, baris)
        /\ salinan' = [salinan EXCEPT ![t] = baris]
        /\ daftar' = [daftar EXCEPT ![t] = CASE g.aksi \in {"posting", "cair"} -> baris.alokasi
                                             [] g.aksi = "alokasi" -> g.alokasi
                                             [] OTHER -> <<>>]
        /\ Ke(t, "kunci")
        /\ UNCHANGED <<kunciVars, notaVars, mulai, tugas, foto, tulis, mulus>>
     \/ ~BolehBayar(g, baris) /\ Gagal(t)

UbahBayar(t) ==            \* Update, its checks made: UpdateHeader
  LET g == tugas[t] IN
  /\ pc[t] = "kunci" /\ g.aksi = "ubah"
  /\ bayar' = [bayar EXCEPT ![g.bayar].jumlah = g.jumlah]
  /\ UNCHANGED nota
  /\ Bersih(t, FALSE)

KunciNota(t) ==            \* PenjualanRepository.LockByID in periksaSisaPiutang
  /\ pc[t] = "kunci" /\ Jalan(t) /\ daftar[t] # <<>>
  /\ Minta(t, Kunci(KNota(Head(daftar[t]).nota)))
  /\ Ke(t, "sisa")
  /\ UNCHANGED <<notaVars, mulai, tugas, salinan, daftar, foto, tulis, mulus>>

\* periksaSisaPiutang: a receivable of this customer, with room for the amount.
CukupSisa(t, a) ==
  LET n == nota[a.nota] IN
  /\ n.status = "POSTED" /\ n.jenis = "KREDIT" /\ n.pelanggan = salinan[t].pelanggan
  /\ a.jumlah <= n.total - AlokasiKecuali(bayar, a.nota, tugas[t].bayar)

PeriksaSisa(t) ==
  LET cukup == CukupSisa(t, Head(daftar[t])) IN
  /\ pc[t] = "sisa" /\ Jalan(t)
  /\ \/ /\ cukup
        /\ daftar' = [daftar EXCEPT ![t] = Tail(@)]
        /\ Ke(t, "kunci")
        /\ UNCHANGED <<kunciVars, notaVars, mulai, tugas, salinan, foto, tulis, mulus>>
     \/ ~cukup /\ Gagal(t)

JumlahAlokasi(alokasi) == FoldSeq(LAMBDA a, n : a.jumlah + n, 0, alokasi)

\* tulisAlokasi's own two rules: no nota twice, no more than was received.
SahAlokasi(jumlah, alokasi) ==
  /\ IsInjective([i \in DOMAIN alokasi |-> alokasi[i].nota])
  /\ JumlahAlokasi(alokasi) <= jumlah

\* The rest of tulisAlokasi for Create and ReplaceAlokasi, and the commit:
\* the rows, and jumlah_dialokasikan rebuilt from them.
TulisAlokasi(t) ==
  LET g == tugas[t]
      dasar == IF g.aksi = "buat" THEN salinan[t] ELSE bayar[g.bayar] IN
  /\ pc[t] = "kunci" /\ Jalan(t) /\ daftar[t] = <<>> /\ g.aksi \in {"buat", "alokasi"}
  /\ \/ /\ SahAlokasi(salinan[t].jumlah, g.alokasi)
        /\ bayar' = [bayar EXCEPT ![g.bayar] =
             [dasar EXCEPT !.alokasi = g.alokasi, !.dialokasikan = JumlahAlokasi(g.alokasi)]]
        /\ UNCHANGED nota
        /\ Bersih(t, FALSE)
     \/ ~SahAlokasi(salinan[t].jumlah, g.alokasi) /\ Gagal(t)

\* The row of the document after its transition.
RekamBaru(g, baris) ==
  CASE g.aksi = "posting" -> [baris EXCEPT !.status = "POSTED"]
    [] g.aksi = "batal"   -> [baris EXCEPT !.status = "BATAL"]
    [] g.aksi = "cair"    -> [baris EXCEPT !.giro = "CAIR"]
    [] g.aksi = "tolak"   -> [baris EXCEPT !.giro = "TOLAK"]

\* FindIDPenjualanAlokasi: ascending.
NotaDari(baris) == UrutNaik({a.nota : a \in ToSet(baris.alokasi)})

\* The guarded UPDATE, made when every nota that had to be checked is; then
\* the notas the payment points at are gone through once more.
Ubah(t, aksi) ==
  /\ pc[t] = "kunci" /\ Jalan(t) /\ daftar[t] = <<>> /\ tugas[t].aksi = aksi
  /\ daftar' = [daftar EXCEPT ![t] = NotaDari(bayar[tugas[t].bayar])]
  /\ Ke(t, "ulang")
  /\ UNCHANGED <<kunciVars, notaVars, mulai, tugas, salinan, foto, tulis, mulus>>

PostingBayar(t) == Ubah(t, "posting")
BatalBayar(t)   == Ubah(t, "batal")
CairkanGiro(t)  == Ubah(t, "cair")
TolakGiro(t)    == Ubah(t, "tolak")

\* Fault: the caches are rebuilt before the document's own transition.
LihatSebelum(t) == bayar

\* The payments as a statement of t sees them.
Lihat(t) == [bayar EXCEPT ![tugas[t].bayar] = RekamBaru(tugas[t], @)]

\* hitungUlangPiutang: one UPDATE per nota; its snapshot is taken, then the
\* row is locked.
HitungUlang(t) ==
  LET n == Head(daftar[t]) IN
  /\ pc[t] = "ulang" /\ daftar[t] # <<>>
  /\ foto' = [foto EXCEPT ![t] = StatusPembayaran(Lihat(t), n, nota[n])]
  /\ Minta(t, Kunci(KNota(n)))
  /\ Ke(t, "tulis")
  /\ UNCHANGED <<notaVars, mulai, tugas, salinan, daftar, tulis, mulus>>

TulisUlang(t) ==
  /\ pc[t] = "tulis" /\ Jalan(t)
  /\ tulis' = [tulis EXCEPT ![t] = @ \cup {<<Head(daftar[t]), foto[t]>>}]
  /\ daftar' = [daftar EXCEPT ![t] = Tail(@)]
  /\ foto' = [foto EXCEPT ![t] = ""]
  /\ Ke(t, "ulang")
  /\ UNCHANGED <<kunciVars, notaVars, mulai, tugas, salinan, mulus>>

Selesai(t) ==
  LET hasil(n) == {w[2] : w \in {x \in tulis[t] : x[1] = n}} IN
  /\ pc[t] = "ulang" /\ daftar[t] = <<>>
  /\ bayar' = [bayar EXCEPT ![tugas[t].bayar] = RekamBaru(tugas[t], @)]
  /\ nota' = [n \in Nota |-> IF hasil(n) = {} THEN nota[n]
                             ELSE [nota[n] EXCEPT !.lunas = CHOOSE s \in hasil(n) : TRUE]]
  /\ Bersih(t, Menambah)

-----------------------------------------------------------------------------
\* A transaction ends before its COMMIT: refused by the stock, the victim of
\* a deadlock, or without its connection.
Putus(t) == pc[t] # "idle" /\ Gagal(t)

DiamPiutang ==
  /\ mulai = MaksMulai /\ \A t \in Sesi : pc[t] = "idle"
  /\ UNCHANGED varsPiutang

LangkahNota(t) ==
  BacaNota(t) \/ PeriksaPlafon(t) \/ UbahNota(t) \/ GantiDetail(t) \/ PostingNota(t) \/ BatalNota(t)

LangkahBayar(t) ==
  \/ BuatBayar(t) \/ BacaBayar(t) \/ UbahBayar(t) \/ KunciNota(t) \/ PeriksaSisa(t)
  \/ TulisAlokasi(t) \/ PostingBayar(t) \/ BatalBayar(t) \/ CairkanGiro(t) \/ TolakGiro(t)
  \/ HitungUlang(t) \/ TulisUlang(t) \/ Selesai(t)

NextPiutang ==
  \/ \E t \in Sesi : Mulai(t) \/ LangkahNota(t) \/ LangkahBayar(t) \/ Putus(t)
  \/ \E n \in Nota : BuatNota(n)
  \/ DiamPiutang

SpecPiutang == InitPiutang /\ [][NextPiutang]_varsPiutang

-----------------------------------------------------------------------------
(* Properties.                                                             *)
\* Every variable has its type, and the CHECKs of the two tables hold.
TypeOKPiutang ==
  /\ TipeKunci(PermintaanPiutang)
  /\ nota \in [Nota -> BarisNota]
  /\ \A n \in Nota : nota[n].jenis = "KREDIT" => nota[n].pelanggan # Umum
  /\ \A d \in Bayar : bayar[d] \in BarisBayar
  /\ mulai \in Nat /\ mulus \subseteq Sesi
  /\ pc \in [Sesi -> {"idle", "baca", "plafon", "simpan", "kunci", "sisa", "ulang", "tulis"}]
  /\ \A t \in Sesi : tugas[t] \in Tugas \cup {Menganggur}
  /\ \A t \in Sesi : salinan[t] = Kosong \/ salinan[t] \in BarisNota \/ salinan[t] \in BarisBayar
  /\ \A t \in Sesi : daftar[t] \in IF pc[t] \in {"ulang", "tulis"} THEN Seq(Nota) ELSE Seq(Alokasi)
  /\ foto \in [Sesi -> StatusLunas \cup {""}]
  /\ tulis \in [Sesi -> SUBSET (Nota \X StatusLunas)]

\* No nota ever takes in more than it is worth: drafts, postings and giro
\* that clear weeks later all compete for the same remainder.
TidakLebihTerima(N, B) == \A n \in Nota : AlokasiEfektif(B, n) <= N[n].total

\* A POSTED payment, cleared or not, only points at POSTED notas on credit of
\* its own customer, however it races with their cancellation or editing.
NotaTerjaga(N, B) ==
  \A d \in Bayar : B[d].status = "POSTED" =>
    \A a \in ToSet(B[d].alokasi) :
      /\ N[a.nota].status = "POSTED" /\ N[a.nota].jenis = "KREDIT"
      /\ N[a.nota].pelanggan = B[d].pelanggan

\* What a header says agrees with its lines although header and lines are
\* edited by different handlers: the total of a nota follows its subtotal and
\* discount, a payment is never allocated beyond what was received.
KepalaSetuju(N, B) ==
  /\ \A n \in Nota : N[n].total = N[n].subtotal - N[n].diskon
  /\ \A d \in Bayar : /\ B[d].dialokasikan = JumlahAlokasi(B[d].alokasi)
                      /\ B[d].dialokasikan <= B[d].jumlah
                      /\ \A n \in Nota : Cardinality({i \in DOMAIN B[d].alokasi :
                                           B[d].alokasi[i].nota = n}) <= 1

\* What customers owe can be trusted whatever drafts, postings, giro and
\* cancellations overlap: no nota is over-received, none is cancelled or
\* edited under a payment, and headers and lines agree.
PiutangSah(N, B) == TidakLebihTerima(N, B) /\ NotaTerjaga(N, B) /\ KepalaSetuju(N, B)

PiutangTerjaga == PiutangSah(nota, bayar)

\* The same holds of the history a behaviour starts from.
ASSUME RiwayatPiutang == PiutangSah(NotaAwal, BayarAwal)

\* A nota on credit whose limit check no other commit overtook leaves the
\* customer within the limit.  (Two postings at once can pass it together:
\* the check locks nothing of the customer.)
PlafonSendiri ==
  [][nota' # nota => \A t \in Sesi : t \in mulus /\ pc[t] = "simpan" /\ pc'[t] = "idle" =>
       LET p == salinan[t].pelanggan IN
       salinan[t].jenis = "KREDIT" /\ p \in DOMAIN Plafon =>
         PiutangBerjalan(nota', bayar', p) <= Plafon[p]]_varsPiutang

\* Whoever locked the notas before reading them leaves their cache right: a
\* posting or clearing commits caches that agree with what is committed.
PenerimaanMenyegarkan ==
  [][bayar' # bayar => \A t \in Sesi :
       pc[t] = "ulang" /\ tugas[t].aksi \in {"posting", "cair"} /\ pc'[t] = "idle" =>
         \A a \in ToSet(bayar[tugas[t].bayar].alokasi) :
           nota'[a.nota].lunas = StatusPembayaran(bayar', a.nota, nota'[a.nota])]_varsPiutang
=============================================================================
