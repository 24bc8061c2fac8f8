----------------------------- MODULE FakturBeli -----------------------------
(***************************************************************************)
(* What a purchase invoice still owes and still has coming, under          *)
(* concurrent transactions.                                                *)
(*                                                                         *)
(* Payments (pembayaran_utang, among them giro that clear or bounce        *)
(* later), follow-up receipts and returns all draw on a purchase.  Each    *)
(* handler locks its document, then usually the purchase, checks what is   *)
(* left, changes its document's status and rebuilds one of the two caches  *)
(* kept on the purchase row: status_pembayaran and status_penerimaan.      *)
(*                                                                         *)
(* READ COMMITTED: a statement sees what is committed when it STARTS plus  *)
(* the writes of its own transaction.  An UPDATE that then waits for its   *)
(* row rechecks that row only, never the subqueries it already depends on. *)
(*                                                                         *)
(* The stock these documents move is the subject of PostingStok; amounts   *)
(* are whole numbers of the smallest unit; one supplier, one line each.    *)
(***************************************************************************)
EXTENDS KunciPg, Integers, Sequences, FiniteSetsExt, SequencesExt

CONSTANTS
  Faktur,            \* ids of purchases, numbers: hitungUlangUtang sorts them
  NilaiFaktur,       \* [Faktur -> [total, qty, terima]]: owed, billed, received
  Dokumen,           \* payments, follow-up receipts and returns
  Isi,               \* [Dokumen -> [jenis, alokasi]]: what the document says
  StatusAwal,        \* [Dokumen -> status] the documents start with
  MaksMulai          \* bound: transactions started in a behaviour

Pembayaran == {"tunai", "giro"}
Jenis      == Pembayaran \cup {"susulan", "retur"}
StatusDok  == {"DRAFT", "DIAJUKAN", "POSTED", "BATAL"}
StatusGiro == {"TANPA", "BELUM_CAIR", "CAIR", "TOLAK"}

Alokasi == [faktur : Faktur, jumlah : Nat \ {0}]

ASSUME AsumsiFaktur ==
  /\ Faktur \subseteq Nat /\ IsFiniteSet(Dokumen) /\ MaksMulai \in Nat
  /\ NilaiFaktur \in [Faktur -> [total : Nat, qty : Nat \ {0}, terima : Nat]]
  /\ Isi \in [Dokumen -> [jenis : Jenis, alokasi : Seq(Alokasi)]]
  /\ \A d \in Dokumen :
       /\ IsInjective([i \in DOMAIN Isi[d].alokasi |-> Isi[d].alokasi[i].faktur])
       /\ Isi[d].jenis \notin Pembayaran => Len(Isi[d].alokasi) = 1
  /\ StatusAwal \in [Dokumen -> StatusDok]
  /\ \A d \in Dokumen : Isi[d].jenis = "retur" => StatusAwal[d] # "POSTED"

VARIABLES
  dokumen,     \* [Dokumen -> [status, giro, kredit]], as committed
  statusFaktur,              \* [Faktur -> status]
  bayar, terima,             \* the caches status_pembayaran, status_penerimaan
  mulai,                     \* transactions started so far
  pc, tugas, daftar, baru, foto, tulis       \* per session, see TypeOKFaktur

dataVars == <<dokumen, statusFaktur, bayar, terima>>
vars     == <<kunciVars, dataVars, mulai, pc, tugas, daftar, baru, foto, tulis>>

KDok(d)    == <<"dokumen", d>>
KFaktur(f) == <<"pembelian", f>>

Permintaan ==
  [kunci : {KDok(d) : d \in Dokumen} \cup {KFaktur(f) : f \in Faktur}, mode : {"X"}]

ForUpdate(k) == [kunci |-> k, mode |-> "X"]

-----------------------------------------------------------------------------
(* Sums over the documents D, as a statement sees them.                    *)
Bagian == [d \in Dokumen |-> [f \in Faktur |->
  SumSet({a.jumlah : a \in {x \in ToSet(Isi[d].alokasi) : x.faktur = f}})]]

\* d says something of the purchase f.
Menunjuk(d, f) == \E a \in ToSet(Isi[d].alokasi) : a.faktur = f

Posted(D, jenis) == {d \in Dokumen : Isi[d].jenis \in jenis /\ D[d].status = "POSTED"}

\* A POSTED payment counts, a giro only once it has cleared.
Berlaku(D) == {d \in Posted(D, Pembayaran) : D[d].giro \in {"TANPA", "CAIR"}}

JumlahBagian(S, f) == MapThenSumSet(LAMBDA d : Bagian[d][f], S)

AlokasiEfektif(D, f) == JumlahBagian(Berlaku(D), f)
Susulan(D, f)        == JumlahBagian(Posted(D, {"susulan"}), f)
Retur(D, f)          == JumlahBagian(Posted(D, {"retur"}), f)

KreditRetur(D, f) ==
  MapThenSumSet(LAMBDA d : D[d].kredit,
                {d \in Posted(D, {"retur"}) : Menunjuk(d, f)})

\* RecalculateStatusPembayaran and RecalculateStatusPenerimaan.
StatusPembayaran(D, f) ==
  LET lunas == AlokasiEfektif(D, f) + KreditRetur(D, f)
  IN IF NilaiFaktur[f].total <= lunas THEN "LUNAS"
     ELSE IF lunas > 0 THEN "SEBAGIAN" ELSE "BELUM"

StatusPenerimaan(D, f) ==
  IF NilaiFaktur[f].qty > NilaiFaktur[f].terima + Susulan(D, f) THEN "KURANG" ELSE "LENGKAP"

\* Fault: the credit is not clamped to what earlier returns left of the total.
HitungKreditPenuh(D, d, f, q) ==
  (2 * NilaiFaktur[f].total * q + NilaiFaktur[f].qty) \div (2 * NilaiFaktur[f].qty)

\* hitungKreditUtang: the returned share of the total, rounded half up, never
\* more than the POSTED returns leave of it.
HitungKredit(D, d, f, q) ==
  LET bagian == (2 * NilaiFaktur[f].total * q + NilaiFaktur[f].qty)
                  \div (2 * NilaiFaktur[f].qty)
      tersedia == NilaiFaktur[f].total
                    - KreditRetur([D EXCEPT ![d].status = "DIAJUKAN"], f)
  IN Min({bagian, Max({tersedia, 0})})

-----------------------------------------------------------------------------
Tugas == [aksi : {"posting", "batal"}, dok : Dokumen]
         \cup [aksi : {"cair", "tolak"},
               dok : {d \in Dokumen : Isi[d].jenis \in Pembayaran}]
         \cup [aksi : {"batal_faktur"}, faktur : Faktur]

Menganggur == [aksi |-> "tidak ada"]

RekamDok == [status : StatusDok, giro : StatusGiro, kredit : Nat]

Kosong == [status |-> "DRAFT", giro |-> "TANPA", kredit |-> 0]

DokumenAwal ==
  [d \in Dokumen |->
     [status |-> StatusAwal[d], kredit |-> 0,
      giro |-> IF Isi[d].jenis = "giro" THEN "BELUM_CAIR" ELSE "TANPA"]]

\* The receipts there are to begin with were posted by the same program.
ASSUME RiwayatFaktur ==
  \A f \in Faktur : NilaiFaktur[f].terima + Susulan(DokumenAwal, f) <= NilaiFaktur[f].qty

Init ==
  /\ InitKunci /\ mulai = 0 /\ dokumen = DokumenAwal
  /\ statusFaktur = [f \in Faktur |-> "POSTED"]
  /\ bayar = [f \in Faktur |-> StatusPembayaran(dokumen, f)]
  /\ terima = [f \in Faktur |-> StatusPenerimaan(dokumen, f)]
  /\ pc = [t \in Sesi |-> "idle"] /\ tugas = [t \in Sesi |-> Menganggur]
  /\ daftar = [t \in Sesi |-> <<>>] /\ baru = [t \in Sesi |-> Kosong]
  /\ foto = [t \in Sesi |-> ""] /\ tulis = [t \in Sesi |-> {}]

\* Fault: status_pembayaran is rebuilt before the document's own transition.
LihatSebelum(t) == dokumen

\* The documents as a statement of t sees them.
Lihat(t) ==
  IF pc[t] = "ulang" THEN [dokumen EXCEPT ![tugas[t].dok] = baru[t]] ELSE dokumen

-----------------------------------------------------------------------------
\* BEGIN, and LockByID of the document or of the purchase to cancel.
Mulai(t) ==
  /\ pc[t] = "idle" /\ mulai < MaksMulai
  /\ mulai' = mulai + 1
  /\ \E g \in Tugas :
       /\ tugas' = [tugas EXCEPT ![t] = g]
       /\ \/ /\ g.aksi = "batal_faktur"
             /\ Minta(t, ForUpdate(KFaktur(g.faktur)))
             /\ pc' = [pc EXCEPT ![t] = "faktur"]
          \/ /\ g.aksi # "batal_faktur"
             /\ Minta(t, ForUpdate(KDok(g.dok)))
             /\ pc' = [pc EXCEPT ![t] = "dokumen"]
  /\ UNCHANGED <<dataVars, daftar, baru, foto, tulis>>

\* COMMIT or ROLLBACK: the session forgets and lets go of everything.
Bersih(t) ==
  /\ LepasSemua(t)
  /\ pc' = [pc EXCEPT ![t] = "idle"] /\ tugas' = [tugas EXCEPT ![t] = Menganggur]
  /\ daftar' = [daftar EXCEPT ![t] = <<>>] /\ baru' = [baru EXCEPT ![t] = Kosong]
  /\ foto' = [foto EXCEPT ![t] = ""] /\ tulis' = [tulis EXCEPT ![t] = {}]
  /\ UNCHANGED mulai

Gagal(t) == Bersih(t) /\ UNCHANGED dataVars

-----------------------------------------------------------------------------
\* kunciDenganStatus and kunciGiroBelumCair.
StatusSiap(d) == IF Isi[d].jenis \in Pembayaran THEN "DRAFT" ELSE "DIAJUKAN"

\* Fault: a giro already settled, or money that is no giro, can be cleared.
BolehTanpaGiro(g) ==
  dokumen[g.dok].status = IF g.aksi = "posting" THEN StatusSiap(g.dok) ELSE "POSTED"

Boleh(g) ==
  /\ dokumen[g.dok].status = IF g.aksi = "posting" THEN StatusSiap(g.dok) ELSE "POSTED"
  /\ g.aksi \in {"cair", "tolak"} => dokumen[g.dok].giro = "BELUM_CAIR"

\* The document is locked.  What draws on the purchase locks it next, line
\* by line in the order of FindAlokasi; what gives back does not.
PeriksaDokumen(t) ==
  LET g == tugas[t] IN
  /\ pc[t] = "dokumen" /\ Jalan(t)
  /\ \/ /\ Boleh(g)
        /\ pc' = [pc EXCEPT ![t] = "kunci"]
        /\ daftar' = [daftar EXCEPT ![t] =
             IF g.aksi \in {"posting", "cair"} THEN Isi[g.dok].alokasi ELSE <<>>]
        /\ UNCHANGED <<kunciVars, dataVars, mulai, tugas, baru, foto, tulis>>
     \/ ~Boleh(g) /\ Gagal(t)

\* Fault: what is left of the purchase is read without locking it.
KunciFakturTanpa(t) ==
  /\ pc[t] = "kunci" /\ Jalan(t) /\ daftar[t] # <<>>
  /\ pc' = [pc EXCEPT ![t] = "sisa"]
  /\ UNCHANGED <<kunciVars, dataVars, mulai, tugas, daftar, baru, foto, tulis>>

KunciFaktur(t) ==
  /\ pc[t] = "kunci" /\ Jalan(t) /\ daftar[t] # <<>>
  /\ Minta(t, ForUpdate(KFaktur(Head(daftar[t]).faktur)))
  /\ pc' = [pc EXCEPT ![t] = "sisa"]
  /\ UNCHANGED <<dataVars, mulai, tugas, daftar, baru, foto, tulis>>

(* What is left of the purchase f for a document.                          *)
\* periksaSisaUtang: for the payment d, its own allocation apart.
SisaUtang(d, f) ==
  NilaiFaktur[f].total - JumlahBagian(Berlaku(dokumen) \ {d}, f) - KreditRetur(dokumen, f)

\* Fault: what the draft was checked against is not read again.
SisaSaatDraft(f) == NilaiFaktur[f].qty - NilaiFaktur[f].terima

\* periksaSisa: what the supplier still has to deliver.
SisaSusulan(f) == NilaiFaktur[f].qty - NilaiFaktur[f].terima - Susulan(dokumen, f)

\* periksaDapatDiretur: what came and has not gone back.
DapatDiretur(f) == NilaiFaktur[f].terima + Susulan(dokumen, f) - Retur(dokumen, f)

Sisa(d, f) == CASE Isi[d].jenis \in Pembayaran -> SisaUtang(d, f)
                [] Isi[d].jenis = "susulan"    -> SisaSusulan(f)
                [] Isi[d].jenis = "retur"      -> DapatDiretur(f)

PeriksaSisa(t) ==
  LET a == Head(daftar[t])
      cukup == statusFaktur[a.faktur] = "POSTED" /\ a.jumlah <= Sisa(tugas[t].dok, a.faktur) IN
  /\ pc[t] = "sisa" /\ Jalan(t)
  /\ \/ /\ cukup
        /\ daftar' = [daftar EXCEPT ![t] = Tail(@)]
        /\ pc' = [pc EXCEPT ![t] = "kunci"]
        /\ UNCHANGED <<kunciVars, dataVars, mulai, tugas, baru, foto, tulis>>
     \/ ~cukup /\ Gagal(t)

-----------------------------------------------------------------------------
\* The document's new row; a return freezes its credit first.
RekamBaru(g) ==
  LET lama == dokumen[g.dok]
      a == Isi[g.dok].alokasi IN
  CASE g.aksi = "posting" /\ Isi[g.dok].jenis = "retur" ->
         [lama EXCEPT !.status = "POSTED",
                      !.kredit = HitungKredit(dokumen, g.dok, a[1].faktur, a[1].jumlah)]
    [] g.aksi = "posting" /\ Isi[g.dok].jenis # "retur" -> [lama EXCEPT !.status = "POSTED"]
    [] g.aksi = "batal" -> [lama EXCEPT !.status = "BATAL"]
    [] g.aksi = "cair"  -> [lama EXCEPT !.giro = "CAIR"]
    [] g.aksi = "tolak" -> [lama EXCEPT !.giro = "TOLAK"]

\* FindIDPembelianAlokasi: ascending.
FakturDari == [d \in Dokumen |->
  UrutNaik({a.faktur : a \in ToSet(Isi[d].alokasi)})]

Ubah(t) ==
  /\ pc[t] = "kunci" /\ Jalan(t) /\ daftar[t] = <<>>
  /\ baru' = [baru EXCEPT ![t] = RekamBaru(tugas[t])]
  /\ daftar' = [daftar EXCEPT ![t] = FakturDari[tugas[t].dok]]
  /\ pc' = [pc EXCEPT ![t] = "ulang"]
  /\ UNCHANGED <<kunciVars, dataVars, mulai, tugas, foto, tulis>>

\* UPDATE pembelian SET status_... = CASE ...: the snapshot is taken, then
\* the row is locked.
HitungUlang(t) ==
  /\ pc[t] = "ulang" /\ Jalan(t) /\ daftar[t] # <<>>
  /\ foto' = [foto EXCEPT ![t] =
       IF Isi[tugas[t].dok].jenis = "susulan" THEN StatusPenerimaan(Lihat(t), Head(daftar[t]))
       ELSE StatusPembayaran(Lihat(t), Head(daftar[t]))]
  /\ Minta(t, ForUpdate(KFaktur(Head(daftar[t]))))
  /\ pc' = [pc EXCEPT ![t] = "tulis"]
  /\ UNCHANGED <<dataVars, mulai, tugas, daftar, baru, tulis>>

\* The row is ours: what the snapshot gave is written.
TulisUlang(t) ==
  /\ pc[t] = "tulis" /\ Jalan(t)
  /\ tulis' = [tulis EXCEPT ![t] = @ \cup {[faktur |-> Head(daftar[t]), nilai |-> foto[t]]}]
  /\ daftar' = [daftar EXCEPT ![t] = Tail(@)]
  /\ foto' = [foto EXCEPT ![t] = ""]
  /\ pc' = [pc EXCEPT ![t] = "ulang"]
  /\ UNCHANGED <<kunciVars, dataVars, mulai, tugas, baru>>

\* The cache c with what t wrote to it.
DenganTulisan(c, t) ==
  [f \in Faktur |-> IF \E w \in tulis[t] : w.faktur = f
                    THEN (CHOOSE w \in tulis[t] : w.faktur = f).nilai ELSE c[f]]

Selesai(t) ==
  LET susulan == Isi[tugas[t].dok].jenis = "susulan" IN
  /\ pc[t] = "ulang" /\ Jalan(t) /\ daftar[t] = <<>>
  /\ dokumen' = [dokumen EXCEPT ![tugas[t].dok] = baru[t]]
  /\ bayar' = IF susulan THEN bayar ELSE DenganTulisan(bayar, t)
  /\ terima' = IF susulan THEN DenganTulisan(terima, t) ELSE terima
  /\ Bersih(t)
  /\ UNCHANGED statusFaktur

-----------------------------------------------------------------------------
\* Fault: an uncashed giro does not stand in the way of a cancellation.
TerkaitBerlaku(f) ==
  \E d \in Berlaku(dokumen) \cup Posted(dokumen, {"susulan", "retur"}) : Menunjuk(d, f)

\* HasPostedSusulan, HasPostedRetur, HasPostedAlokasi: whatever its giro.
Terkait(f) == \E d \in Posted(dokumen, Jenis) : Menunjuk(d, f)

\* PembelianUseCase.Batal, its row locked.
BatalFaktur(t) ==
  LET f == tugas[t].faktur
      boleh == statusFaktur[f] = "POSTED" /\ ~Terkait(f) IN
  /\ pc[t] = "faktur" /\ Jalan(t)
  /\ \/ /\ boleh
        /\ statusFaktur' = [statusFaktur EXCEPT ![f] = "BATAL"]
        /\ Bersih(t)
        /\ UNCHANGED <<dokumen, bayar, terima>>
     \/ ~boleh /\ Gagal(t)

(* Handlers that hold nothing but the row of their receipt or return: one  *)
(* atomic transaction each, when nobody has that row locked.               *)
Pindah(d, dari, ke) ==
  /\ Isi[d].jenis \notin Pembayaran /\ dokumen[d].status = dari
  /\ \A t \in Sesi : \A q \in pegang[t] : q.kunci # KDok(d)
  /\ dokumen' = [dokumen EXCEPT ![d].status = ke]
  /\ UNCHANGED <<kunciVars, statusFaktur, bayar, terima, mulai, pc, tugas, daftar, baru,
                 foto, tulis>>

Ajukan(d) == Pindah(d, "DRAFT", "DIAJUKAN")

Tolak(d) == Pindah(d, "DIAJUKAN", "DRAFT")

Langkah(t) ==
  \/ PeriksaDokumen(t) \/ KunciFaktur(t) \/ PeriksaSisa(t) \/ Ubah(t)
  \/ HitungUlang(t) \/ TulisUlang(t) \/ Selesai(t) \/ BatalFaktur(t)

\* A transaction ends anywhere before its COMMIT: as the victim of a
\* deadlock (all locks here are exclusive, so no queue order ever closes a
\* circle that could be resolved otherwise), because the stock rows it writes are refused, because its
\* connection or the process is gone.
Putus(t) == pc[t] # "idle" /\ Gagal(t)

Diam ==
  /\ mulai = MaksMulai /\ \A t \in Sesi : pc[t] = "idle"
  /\ UNCHANGED vars

Next ==
  \/ \E t \in Sesi : Mulai(t) \/ Langkah(t) \/ Putus(t)
  \/ \E d \in Dokumen : Ajukan(d) \/ Tolak(d)
  \/ Diam

Spec == Init /\ [][Next]_vars

-----------------------------------------------------------------------------
(* Properties.                                                             *)
NilaiCache == {"BELUM", "SEBAGIAN", "LUNAS", "KURANG", "LENGKAP"}

\* Every variable has its type; as pembayaran_utang_giro_check demands, only
\* a giro has a giro status.
TypeOKFaktur ==
  /\ TipeKunci(Permintaan)
  /\ dokumen \in [Dokumen -> RekamDok]
  /\ \A d \in Dokumen : Isi[d].jenis # "giro" <=> dokumen[d].giro = "TANPA"
  /\ statusFaktur \in [Faktur -> {"POSTED", "BATAL"}]
  /\ bayar \in [Faktur -> {"BELUM", "SEBAGIAN", "LUNAS"}]
  /\ terima \in [Faktur -> {"KURANG", "LENGKAP"}]
  /\ mulai \in Nat
  /\ pc \in [Sesi -> {"idle", "dokumen", "faktur", "kunci", "sisa", "ulang", "tulis"}]
  /\ tugas \in [Sesi -> Tugas \cup {Menganggur}]   \* what it was asked to do
  /\ \A t \in Sesi :                               \* lines, or purchases, to go
       daftar[t] \in IF pc[t] \in {"ulang", "tulis"} THEN Seq(Faktur) ELSE Seq(Alokasi)
  /\ baru \in [Sesi -> RekamDok]                   \* the document's new row
  /\ foto \in [Sesi -> NilaiCache \cup {""}]       \* what its snapshot gave
  /\ tulis \in [Sesi -> SUBSET [faktur : Faktur, nilai : NilaiCache]]

\* An invoice is never paid beyond what it owes: whatever makes payments of
\* it effective (a posting, or the clearing of a giro weeks later, against
\* others doing the same) leaves payments and credits within the total.
TidakLebihBayar ==
  [][\A f \in Faktur : AlokasiEfektif(dokumen', f) > AlokasiEfektif(dokumen, f) =>
       AlokasiEfektif(dokumen', f) + KreditRetur(dokumen', f) <= NilaiFaktur[f].total]_vars

\* A POSTED payment, cleared or not, and a POSTED receipt or return belong
\* to a POSTED purchase, however they race with its cancellation.
FakturTerjaga ==
  \A d \in Posted(dokumen, Jenis) : \A f \in Faktur :
    Menunjuk(d, f) => statusFaktur[f] = "POSTED"

\* Receipts never exceed what was billed, and no posting of a return takes
\* back more than had come by then.
KuotaTerjaga ==
  [][\A f \in Faktur :
       /\ NilaiFaktur[f].terima + Susulan(dokumen', f) <= NilaiFaktur[f].qty
       /\ Retur(dokumen', f) > Retur(dokumen, f) =>
            Retur(dokumen', f) <= NilaiFaktur[f].terima + Susulan(dokumen', f)]_vars

\* The credits of a purchase's returns never add up to more than its total,
\* whatever their rounding (the invariant hitungKreditUtang names).
KreditTertutup == \A f \in Faktur : KreditRetur(dokumen, f) <= NilaiFaktur[f].total

\* Whoever locked the purchase before reading it leaves its cache right: a
\* posting or clearing commits a cache that agrees with what is committed.
PostingMenyegarkan ==
  [][\A t \in Sesi : pc[t] = "ulang" /\ tugas[t].aksi \in {"posting", "cair"}
                     /\ dokumen'[tugas[t].dok] # dokumen[tugas[t].dok] =>
       \A i \in DOMAIN FakturDari[tugas[t].dok] :
         LET f == FakturDari[tugas[t].dok][i] IN
         IF Isi[tugas[t].dok].jenis = "susulan"
         THEN terima'[f] = StatusPenerimaan(dokumen', f)
         ELSE bayar'[f] = StatusPembayaran(dokumen', f)]_vars

\* The payment cache always agrees with the rows it summarises.
CacheBayarSetuju == \A f \in Faktur : bayar[f] = StatusPembayaran(dokumen, f)

\* Nobody is ever aborted as the victim of a deadlock.
TanpaKorban == \A t \in Sesi : ~Korban(t)
=============================================================================
