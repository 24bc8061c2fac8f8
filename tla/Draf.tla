-------------------------------- MODULE Draf --------------------------------
(***************************************************************************)
(* The paper side of six documents: drafts are typed, edited, submitted,   *)
(* approved, sent back and at last posted or voided, under concurrent      *)
(* transactions; with what they share: the number series of each unit and  *)
(* the catalog of goods each unit may trade in.                            *)
(*                                                                         *)
(* A handler takes its locks one after the other, reads each row when it   *)
(* gets the lock, and writes everything at its commit.  Its outcome is an  *)
(* operator: the set of rows it may leave, empty when it refuses.          *)
(*                                                                         *)
(* How a posting moves goods through the ledger is the subject of          *)
(* PostingStok; here it changes the balance of a room at its commit.  Of   *)
(* the purchase that receipts and returns hang on only its status changes. *)
(* Quantities a person types are in halves of a unit; amounts are whole.   *)
(***************************************************************************)
EXTENDS KunciPg, Integers, Sequences, FiniteSetsExt, SequencesExt, Functions

CONSTANTS
  Dok,             \* ids of documents
  DokAwal,         \* what there may be to begin with: functions of Dok
  Ruang, Unit, UnitRuang,      \* rooms, units, the unit of each room
  Kode, KodeAwal,  \* what a unit may have as its kode, and has to begin with
  Aktif, Semua,    \* the unit each session acts in, Semua: a global one
  Barang, Faktor,  \* goods; base units per unit typed, 0: not registered
  Satuan,          \* units a quantity may be typed in
  Orang,           \* people who request and approve
  Isian, Patch,    \* per kind: headers typed, changes typed
  PilihanBaris,    \* lines typed
  Putusan,         \* quantities an approver may set, per line
  Induk,           \* what the purchase of receipts and returns has per product
  KatalogAwal, StokAwal,
  MaksMulai        \* bound: transactions started in a behaviour

Anak    == {"susulan", "retur"}
Berstok == {"pembelian", "mutasi", "pemakaian", "saldo_awal"}
Jenis   == Anak \cup Berstok

StatusDraf == {"TIADA", "DRAFT", "DIAJUKAN", "DISETUJUI", "DITOLAK", "POSTED", "BATAL"}

\* What is printed is awalan, kode and urut; unit is the series it came from.
Nomor   == [awalan : Jenis, kode : Kode, unit : Unit, urut : Nat]
Tercetak(no) == <<no.awalan, no.kode, no.urut>>
NULL     == -1
TanpaKode == "tanpa kode"

BarisDok ==        \* a stored line; setuju: qty_disetujui_dasar of an internal use
  [barang : Barang, dasar : Nat \ {0}, terima : Nat, nilai : Nat, setuju : Nat \cup {NULL}]

KepalaDok ==
  [jenis : Jenis, status : StatusDraf, nomor : Nomor, ruang : Ruang,
   tujuan : Ruang, pemohon : Orang, penyetuju : Orang \cup {NULL}, diskon : Nat,
   total : Nat, kurang : BOOLEAN, baris : Seq(BarisDok)]

\* What is typed: a header, one column of it, a line.
KepalaIsian == [ruang : Ruang, tujuan : Ruang, pemohon : Orang, diskon : Nat]
TipeKolom   == [ruang |-> Ruang, tujuan |-> Ruang, pemohon |-> Orang, diskon |-> Nat]
BarisIsian  ==
  [barang : Barang, satuan : Satuan, jumlah : Nat, terima : Nat, harga : Nat, diskon : Nat]

ASSUME AsumsiDraf ==
  /\ Barang \subseteq Nat /\ Ruang \subseteq Nat /\ Orang \subseteq Nat /\ MaksMulai \in Nat
  /\ IsFiniteSet(Dok) /\ IsFiniteSet(Unit)
  /\ UnitRuang \in [Ruang -> Unit] /\ Semua \notin Unit
  /\ TanpaKode \notin Kode /\ KodeAwal \in [Unit -> Kode \cup {TanpaKode}]
  /\ Aktif \in [Sesi -> Unit \cup {Semua}] /\ Faktor \in [Barang -> [Satuan -> Nat]]
  /\ DokAwal \subseteq [Dok -> KepalaDok]
  /\ \A j \in Jenis : Isian[j] \subseteq KepalaIsian
  /\ \A j \in Jenis : \A p \in Patch[j] :
       DOMAIN p \subseteq DOMAIN TipeKolom /\ \A kolom \in DOMAIN p : p[kolom] \in TipeKolom[kolom]
  /\ PilihanBaris \subseteq Seq(BarisIsian)
  /\ Induk \in [Barang -> [dasar : Nat, diterima : Nat, hpp : Nat]]
  /\ KatalogAwal \subseteq Barang \X Unit /\ StokAwal \in [Barang \X Ruang -> Nat]

\* The documents there are to begin with were made by the same program: their
\* numbers differ, only an internal use is approved or turned down for good,
\* and goods outside the catalog came back from something voided.
ASSUME RiwayatDraf ==
  \A a \in DokAwal :
    /\ \A d \in Dok : a[d].status # "TIADA" =>
         /\ a[d].nomor.awalan = a[d].jenis
         /\ \A e \in Dok \ {d} : a[e].status # "TIADA" => Tercetak(a[d].nomor) # Tercetak(a[e].nomor)
         /\ a[d].status \in {"DISETUJUI", "DITOLAK"} => a[d].jenis = "pemakaian"
         /\ a[d].jenis = "pemakaian" /\ a[d].status \in {"DISETUJUI", "POSTED", "BATAL"} =>
              /\ a[d].penyetuju \notin {NULL, a[d].pemohon}
              /\ \A i \in DOMAIN a[d].baris : a[d].baris[i].setuju \in 0..a[d].baris[i].dasar
    /\ \A x \in Barang \X Ruang : StokAwal[x] > 0 =>
         \/ <<x[1], UnitRuang[x[2]]>> \in KatalogAwal
         \/ \E d \in Dok : /\ a[d].status = "BATAL" /\ a[d].jenis \in {"mutasi", "pemakaian"}
                            /\ UnitRuang[a[d].ruang] = UnitRuang[x[2]]
                            /\ \E i \in DOMAIN a[d].baris : a[d].baris[i].barang = x[1]

VARIABLES
  dok,             \* the documents, as committed
  hitung,          \* document_counter.last_number of each series
  kode,            \* kode of each unit
  katalog,         \* product_unit_kerja
  stok,            \* balance of goods in a room
  pernah,          \* <<goods, room>> that have rows in the ledger
  indukPosted,     \* is the purchase POSTED?
  mulai,           \* transactions started so far
  pc, tugas,       \* per session: where it is, what it was asked to do
  salinan,         \* per session: its document's row as read under the lock
  perlu, dapat     \* per session: requests to make, and what was read meanwhile

drafVars == <<dok, hitung, kode, katalog, stok, pernah, indukPosted>>
sesiDraf == <<tugas, salinan, perlu, dapat>>
varsDraf == <<kunciVars, drafVars, mulai, pc, sesiDraf>>

KDok(d)        == <<"dokumen", d, 0>>
KKatalog(b, u) == <<"product_unit_kerja", b, u>>
KSeri(j, u)    == <<"document_counter", j, u>>
KInduk         == <<"pembelian induk", 0, 0>>

Eks(k)  == [kunci |-> k, mode |-> "X"]
Bagi(k) == [kunci |-> k, mode |-> "S"]

Bila(syarat, hasil) == IF syarat THEN {hasil} ELSE {}

-----------------------------------------------------------------------------
(* Lines: from what was typed to what is stored.                           *)
\* FindFaktorBatch.
FaktorBaris(p) == Faktor[p.barang][p.satuan]

Bulat(p, jumlah) == (jumlah * FaktorBaris(p)) % 2 = 0
Dasar(p, jumlah) == (jumlah * FaktorBaris(p)) \div 2

\* Rounded to the cent, halves up.
Uang(setengah) == (setengah + 1) \div 2

SahBaris(p) == FaktorBaris(p) > 0 /\ p.jumlah > 0 /\ Bulat(p, p.jumlah)

Polos(p) ==
  [barang |-> p.barang, dasar |-> Dasar(p, p.jumlah), terima |-> Dasar(p, p.jumlah),
   nilai |-> 0, setuju |-> NULL]

\* The lines of a request, when each is acceptable.
Siapkan(minta, Sah(_), Baris(_)) ==
  Bila(\A i \in DOMAIN minta : Sah(minta[i]), [i \in DOMAIN minta |-> Baris(minta[i])])

\* The same line of the purchase, or the same product, is named once.
Sekali(minta) == IsInjective([i \in DOMAIN minta |-> minta[i].barang])

SiapkanMutasi(minta)    == Siapkan(minta, SahBaris, Polos)
SiapkanPemakaian(minta) == Siapkan(minta, SahBaris, Polos)

SiapkanPembelian(minta) ==
  Siapkan(minta,
    LAMBDA p : /\ SahBaris(p) /\ p.terima \in 0..p.jumlah /\ Bulat(p, p.terima)
               /\ 2 * p.diskon <= p.jumlah * p.harga,
    LAMBDA p : [Polos(p) EXCEPT !.terima = Dasar(p, p.terima),
                                !.nilai = Uang(p.jumlah * p.harga - 2 * p.diskon)])

SiapkanSaldoAwal(minta) ==
  IF ~Sekali(minta) THEN {}
  ELSE Siapkan(minta, LAMBDA p : SahBaris(p) /\ Uang(p.jumlah * p.harga) > 0,
                      LAMBDA p : [Polos(p) EXCEPT !.nilai = Uang(p.jumlah * p.harga)])

\* What is still to come of a line of the purchase, and what can go back.
SisaInduk(b)     == Induk[b].dasar - Induk[b].diterima
DapatDiretur(b)  == Induk[b].diterima

SiapkanAnak(minta, Sisa(_)) ==
  IF ~Sekali(minta) THEN {}
  ELSE Siapkan(minta, LAMBDA p : SahBaris(p) /\ Dasar(p, p.jumlah) <= Sisa(p.barang),
                      LAMBDA p : [Polos(p) EXCEPT !.nilai = Dasar(p, p.jumlah) * Induk[p.barang].hpp])

SiapkanSusulan(minta) == SiapkanAnak(minta, SisaInduk)
SiapkanRetur(minta)   == SiapkanAnak(minta, DapatDiretur)

JumlahNilai(baris) == FoldSeq(LAMBDA l, n : l.nilai + n, 0, baris)

\* sinkronkanHeader of a purchase: from its lines and its header as they are.
SinkronkanHeader(b) ==
  Bila(b.diskon <= JumlahNilai(b.baris),
       [b EXCEPT !.total = JumlahNilai(b.baris) - b.diskon,
                 !.kurang = \E i \in DOMAIN b.baris : b.baris[i].terima # b.baris[i].dasar])

\* tulisDetail of a receipt or a return: RecalculateTotal.
TotalAnak(b) == [b EXCEPT !.total = JumlahNilai(b.baris)]

\* periksaBelumPernahBergerak.
BelumPernah(r, baris) == \A i \in DOMAIN baris : <<baris[i].barang, r>> \notin pernah

-----------------------------------------------------------------------------
(* Handlers.  g is the request, b the row read under the lock, no the      *)
(* number drawn.                                                           *)
\* periksaRuangUnitAktif.
RuangBoleh(t, r) == Aktif[t] = Semua \/ UnitRuang[r] = Aktif[t]

Baru(j, g, no, baris) ==
  [jenis |-> j, status |-> "DRAFT", nomor |-> no, ruang |-> g.isi.ruang,
   tujuan |-> g.isi.tujuan, pemohon |-> g.isi.pemohon, penyetuju |-> NULL,
   diskon |-> g.isi.diskon, total |-> 0, kurang |-> FALSE, baris |-> baris]

BuatPembelian(t, g, no) ==
  UNION {SinkronkanHeader(Baru("pembelian", g, no, s)) : s \in SiapkanPembelian(g.baris)}

BuatMutasi(t, g, no) ==
  {Baru("mutasi", g, no, s) : s \in {x \in SiapkanMutasi(g.baris) : g.isi.ruang # g.isi.tujuan}}

BuatPemakaian(t, g, no) ==
  {Baru("pemakaian", g, no, s) : s \in SiapkanPemakaian(g.baris)}

BuatSaldoAwal(t, g, no) ==
  {Baru("saldo_awal", g, no, s) :
     s \in {x \in SiapkanSaldoAwal(g.baris) : BelumPernah(g.isi.ruang, x)}}

BuatSusulan(t, g, no) == {TotalAnak(Baru("susulan", g, no, s)) : s \in SiapkanSusulan(g.baris)}
BuatRetur(t, g, no)   == {TotalAnak(Baru("retur", g, no, s)) : s \in SiapkanRetur(g.baris)}

\* Update.  patch holds the fields the request carries.
Terapkan(patch, b) ==
  [kolom \in DOMAIN b |-> IF kolom \in DOMAIN patch THEN patch[kolom] ELSE b[kolom]]

UbahPembelian(t, g, b) == SinkronkanHeader(Terapkan(g.patch, b))

UbahMutasi(t, g, b) ==
  LET efektif == Terapkan(g.patch, b) IN
  Bila(/\ efektif.ruang # efektif.tujuan
       /\ "ruang" \in DOMAIN g.patch => RuangBoleh(t, g.patch.ruang), efektif)

UbahPemakaian(t, g, b) ==
  Bila("ruang" \in DOMAIN g.patch => RuangBoleh(t, g.patch.ruang), Terapkan(g.patch, b))

UbahSaldoAwal(t, g, b) ==
  Bila("ruang" \in DOMAIN g.patch => /\ RuangBoleh(t, g.patch.ruang)
                                     /\ BelumPernah(g.patch.ruang, b.baris), Terapkan(g.patch, b))

UbahSusulan(t, g, b) == {Terapkan(g.patch, b)}     \* tanggal, keterangan
UbahRetur(t, g, b)   == {Terapkan(g.patch, b)}     \* tanggal, alasan

\* ReplaceDetail.
GantiPembelian(t, g, b) ==
  UNION {SinkronkanHeader([b EXCEPT !.baris = s]) : s \in SiapkanPembelian(g.baris)}

GantiMutasi(t, g, b)    == {[b EXCEPT !.baris = s] : s \in SiapkanMutasi(g.baris)}
GantiPemakaian(t, g, b) == {[b EXCEPT !.baris = s] : s \in SiapkanPemakaian(g.baris)}

GantiSaldoAwal(t, g, b) ==
  {[b EXCEPT !.baris = s] : s \in {x \in SiapkanSaldoAwal(g.baris) : BelumPernah(b.ruang, x)}}

GantiSusulan(t, g, b) == {TotalAnak([b EXCEPT !.baris = s]) : s \in SiapkanSusulan(g.baris)}
GantiRetur(t, g, b)   == {TotalAnak([b EXCEPT !.baris = s]) : s \in SiapkanRetur(g.baris)}

Ajukan(b) == Bila(b.baris # <<>>, [b EXCEPT !.status = "DIAJUKAN"])

AjukanPembelian(t, g, b) == Ajukan(b)
AjukanPemakaian(t, g, b) == Ajukan(b)
AjukanSaldoAwal(t, g, b) == Ajukan(b)
AjukanSusulan(t, g, b)   == Ajukan(b)
AjukanRetur(t, g, b)     == Ajukan(b)

\* Tolak gives the document back to be edited.
Kembalikan(b) == {[b EXCEPT !.status = "DRAFT"]}

TolakPembelian(t, g, b) == Kembalikan(b)
TolakSaldoAwal(t, g, b) == Kembalikan(b)
TolakSusulan(t, g, b)   == Kembalikan(b)
TolakRetur(t, g, b)     == Kembalikan(b)

\* Fault: whoever asks may approve.
SetujuiSendiri(t, g, b) ==
  {[b EXCEPT !.status = "DISETUJUI", !.penyetuju = g.orang,
     !.baris = [i \in DOMAIN b.baris |-> [b.baris[i] EXCEPT !.setuju = b.baris[i].dasar]]]}

\* Of an internal use: by somebody else, in full or less, line by line.
SetujuiPemakaian(t, g, b) ==
  LET setuju == [i \in DOMAIN b.baris |->
                   IF i \in DOMAIN g.putusan THEN g.putusan[i] ELSE b.baris[i].dasar] IN
  Bila(/\ g.orang # b.pemohon /\ b.baris # <<>>
       /\ DOMAIN g.putusan \subseteq DOMAIN b.baris
       /\ \A i \in DOMAIN b.baris : setuju[i] \in 0..b.baris[i].dasar,
       [b EXCEPT !.status = "DISETUJUI", !.penyetuju = g.orang,
          !.baris = [i \in DOMAIN b.baris |-> [b.baris[i] EXCEPT !.setuju = setuju[i]]]])

TolakPemakaian(t, g, b) ==
  Bila(g.orang # b.pemohon, [b EXCEPT !.status = "DITOLAK", !.penyetuju = g.orang])

-----------------------------------------------------------------------------
(* Goods.                                                                  *)
Jumlah(b, l) ==
  CASE b.jenis = "pembelian" -> l.terima
    [] b.jenis = "pemakaian" -> IF l.setuju = NULL THEN 0 ELSE l.setuju
    [] OTHER                 -> l.dasar

MasukKe(b)    == CASE b.jenis = "mutasi" -> {b.tujuan} [] b.jenis = "pemakaian" -> {} [] OTHER -> {b.ruang}
KeluarDari(b) == IF b.jenis \in {"mutasi", "pemakaian"} THEN {b.ruang} ELSE {}

\* The lines that move goods.
Bergerak(b) == {i \in DOMAIN b.baris : Jumlah(b, b.baris[i]) > 0}

Gerak(b) ==          \* what a posting adds to each balance
  [x \in Barang \X Ruang |->
     LET n == MapThenSumSet(LAMBDA i : Jumlah(b, b.baris[i]), {i \in Bergerak(b) : b.baris[i].barang = x[1]})
     IN (IF x[2] \in MasukKe(b) THEN n ELSE 0) - (IF x[2] \in KeluarDari(b) THEN n ELSE 0)]

StokSetelah(b, arah) == [x \in Barang \X Ruang |-> stok[x] + arah * Gerak(b)[x]]

Tersentuh(b) == {<<b.baris[i].barang, r>> : i \in Bergerak(b), r \in MasukKe(b) \cup KeluarDari(b)}

\* The status a posting and a cancellation ask for.
SebelumPosting(j) ==
  CASE j = "mutasi" -> "DRAFT" [] j = "pemakaian" -> "DISETUJUI" [] OTHER -> "DIAJUKAN"

BolehPosting(b) ==
  /\ IF b.jenis = "pembelian" THEN b.baris # <<>> ELSE Bergerak(b) # {}
  /\ b.jenis = "saldo_awal" => BelumPernah(b.ruang, b.baris)

BolehBatal(b) == IF b.jenis = "saldo_awal" THEN b.status # "BATAL" ELSE b.status = "POSTED"

-----------------------------------------------------------------------------
(* Transactions.                                                           *)
Tugas(j) ==
  [aksi : {"ubah"}, dok : Dok, patch : Patch[j]]
  \cup [aksi : {"ganti"}, dok : Dok, baris : PilihanBaris]
  \cup [aksi : {"posting", "batal"} \cap (IF j \in Berstok THEN {"posting", "batal"} ELSE {}), dok : Dok]
  \cup [aksi : {"ajukan"} \cap (IF j = "mutasi" THEN {} ELSE {"ajukan"}), dok : Dok]
  \cup [aksi : {"tolak"} \cap (IF j = "mutasi" THEN {} ELSE {"tolak"}), dok : Dok, orang : Orang]
  \cup [aksi : {"setujui"} \cap (IF j = "pemakaian" THEN {"setujui"} ELSE {}), dok : Dok,
        orang : Orang, putusan : Putusan]

TugasBuat(j) == [aksi : {"buat"}, dok : Dok, jenis : {j}, isi : Isian[j], baris : PilihanBaris]

TugasKatalog == [aksi : {"katalog"}, barang : Barang, unit : SUBSET Unit]

Menganggur == [aksi |-> "tidak ada"]
Kosong     == [status |-> "TIADA"]
Hampa      == [kode |-> TanpaKode, nomor |-> 0, baru |-> {}, unit |-> {}]

PermintaanDraf ==
  {Eks(KDok(d)) : d \in Dok} \cup {Eks(KSeri(j, u)) : j \in Jenis, u \in Unit} \cup {Eks(KInduk)}
  \cup {[kunci |-> KKatalog(b, u), mode |-> m] : b \in Barang, u \in Unit, m \in Mode}

InitDraf ==
  /\ InitKunci /\ mulai = 0
  /\ dok \in DokAwal /\ hitung = [x \in Jenis \X Unit |->
       Max({dok[d].nomor.urut : d \in {d \in Dok : dok[d].jenis = x[1] /\ dok[d].nomor.unit = x[2]}} \cup {0})]
  /\ kode = KodeAwal /\ katalog = KatalogAwal /\ stok = StokAwal
  /\ pernah = {x \in Barang \X Ruang : stok[x] > 0} /\ indukPosted = TRUE
  /\ pc = [t \in Sesi |-> "idle"] /\ tugas = [t \in Sesi |-> Menganggur]
  /\ salinan = [t \in Sesi |-> Kosong] /\ perlu = [t \in Sesi |-> <<>>]
  /\ dapat = [t \in Sesi |-> Hampa]

\* Fault: the document's row is read without FOR UPDATE.
KunciDokTanpa(t, d) == UNCHANGED kunciVars

KunciDok(t, d) == Minta(t, Eks(KDok(d)))

Bersih(t) ==
  /\ LepasSemua(t)
  /\ pc' = [pc EXCEPT ![t] = "idle"] /\ tugas' = [tugas EXCEPT ![t] = Menganggur]
  /\ salinan' = [salinan EXCEPT ![t] = Kosong] /\ perlu' = [perlu EXCEPT ![t] = <<>>]
  /\ dapat' = [dapat EXCEPT ![t] = Hampa]
  /\ UNCHANGED mulai

Gagal(t) == Bersih(t) /\ UNCHANGED drafVars

Ke(t, l) == pc' = [pc EXCEPT ![t] = l]

-----------------------------------------------------------------------------
(* What is locked, in which order.                                         *)
\* Fault: every session may draw from a series at once.
SeriBersama(j, r) == <<Bagi(KSeri(j, UnitRuang[r]))>>

\* nomorDokumenUntukRuang: the series of the unit the room belongs to.
Seri(j, r) == <<Eks(KSeri(j, UnitRuang[r]))>>

BarangBaris(baris) == UrutNaik({baris[i].barang : i \in DOMAIN baris})

\* periksaKatalogRuang, FindDiluarKatalog: the memberships FOR SHARE.
KatalogRuang(r, barang) == [i \in DOMAIN barang |-> Bagi(KKatalog(barang[i], UnitRuang[r]))]

\* Both rooms of a transfer, the one room of everybody else.
Katalog(b, barang) ==
  KatalogRuang(b.ruang, barang)
    \o (IF b.jenis = "mutasi" THEN KatalogRuang(b.tujuan, barang) ELSE <<>>)

\* Fault: nobody looks at the purchase.
IndukTanpa == <<>>

\* kunciPembelianPosted.
KunciInduk == <<Eks(KInduk)>>

PerluBuat(g) ==
  (IF g.jenis \in Anak THEN KunciInduk
   ELSE Katalog([jenis |-> g.jenis, ruang |-> g.isi.ruang, tujuan |-> g.isi.tujuan],
                BarangBaris(g.baris)))
    \o Seri(g.jenis, g.isi.ruang)

PerluDok(g, b) ==
  CASE g.aksi = "ubah" /\ b.jenis = "saldo_awal" /\ "ruang" \in DOMAIN g.patch ->
         KatalogRuang(g.patch.ruang, BarangBaris(b.baris))
    [] g.aksi = "ganti" /\ b.jenis \in Anak -> KunciInduk
    [] g.aksi = "ganti" /\ b.jenis \in Berstok -> Katalog(b, BarangBaris(g.baris))
    [] g.aksi = "posting" /\ b.jenis # "pemakaian" -> Katalog(b, BarangBaris(b.baris))
    [] g.aksi = "posting" /\ b.jenis = "pemakaian" ->
         Katalog(b, BarangBaris([i \in Bergerak(b) |-> b.baris[i]]))
    [] OTHER -> <<>>

\* kunciDenganStatus.
StatusDiminta(g, b) ==
  CASE g.aksi \in {"ubah", "ganti", "ajukan"} -> b.status = "DRAFT"
    [] g.aksi \in {"tolak", "setujui"}        -> b.status = "DIAJUKAN"
    [] g.aksi = "posting" -> b.status = SebelumPosting(b.jenis) /\ BolehPosting(b)
    [] g.aksi = "batal"   -> BolehBatal(b)

-----------------------------------------------------------------------------
\* BEGIN of a Create: its new row is nobody else's business before the commit.
MulaiBuat(t) ==
  /\ pc[t] = "idle" /\ mulai < MaksMulai
  /\ mulai' = mulai + 1
  /\ \E j \in Jenis : \E g \in TugasBuat(j) :
       /\ dok[g.dok].status = "TIADA" /\ dok[g.dok].jenis = j
       /\ \A u \in Sesi : tugas[u].aksi = "buat" => tugas[u].dok # g.dok
       /\ j \in Berstok => RuangBoleh(t, g.isi.ruang)
       /\ tugas' = [tugas EXCEPT ![t] = g]
       /\ perlu' = [perlu EXCEPT ![t] = PerluBuat(g)]
  /\ Ke(t, "ambil")
  /\ UNCHANGED <<kunciVars, drafVars, salinan, dapat>>

\* BEGIN and LockByID of everybody else.
MulaiDok(t) ==
  /\ pc[t] = "idle" /\ mulai < MaksMulai
  /\ mulai' = mulai + 1
  /\ \E d \in Dok : \E g \in Tugas(dok[d].jenis) :
       /\ g.dok = d /\ dok[d].status # "TIADA"
       /\ KunciDok(t, d)
       /\ tugas' = [tugas EXCEPT ![t] = g]
  /\ Ke(t, "baca")
  /\ UNCHANGED <<drafVars, salinan, perlu, dapat>>

BacaDok(t) ==
  LET g == tugas[t]
      b == dok[g.dok] IN
  /\ pc[t] = "baca" /\ Jalan(t) /\ g.aksi # "katalog"
  /\ \/ /\ StatusDiminta(g, b)
        /\ salinan' = [salinan EXCEPT ![t] = b]
        /\ perlu' = [perlu EXCEPT ![t] = PerluDok(g, b)]
        /\ Ke(t, "ambil")
        /\ UNCHANGED <<kunciVars, drafVars, mulai, tugas, dapat>>
     \/ ~StatusDiminta(g, b) /\ Gagal(t)

\* SetUnitKerja: FindUnitKerja, then DELETE ... RETURNING takes its snapshot.
MulaiKatalog(t) ==
  /\ pc[t] = "idle" /\ mulai < MaksMulai
  /\ mulai' = mulai + 1
  /\ \E g \in TugasKatalog :
       /\ tugas' = [tugas EXCEPT ![t] = g]
       /\ dapat' = [dapat EXCEPT ![t].baru = {u \in g.unit : <<g.barang, u>> \notin katalog}]
  /\ Ke(t, "baca")
  /\ UNCHANGED <<kunciVars, drafVars, salinan, perlu>>

BacaKatalog(t) ==
  LET g == tugas[t]
      dicabut == {u \in Unit \ g.unit : <<g.barang, u>> \in katalog} IN
  /\ pc[t] = "baca" /\ g.aksi = "katalog"
  /\ perlu' = [perlu EXCEPT ![t] = SetToSeq({Eks(KKatalog(g.barang, u)) : u \in dicabut})]
  /\ Ke(t, "ambil")
  /\ UNCHANGED <<kunciVars, drafVars, mulai, tugas, salinan, dapat>>

\* Fault: the memberships are read without FOR SHARE.
KunciPerluTanpa(t, p) == IF p.mode = "S" THEN UNCHANGED kunciVars ELSE Minta(t, p)

KunciPerlu(t, p) == Minta(t, p)

\* A row that is not there is not locked: for a document that is an error.
\* The kode of the unit is read before the series is waited for.
AmbilKunci(t) ==
  LET p == Head(perlu[t])
      u == p.kunci[3]
      tiada == \/ p.kunci[1] = "product_unit_kerja" /\ p.mode = "S" /\ <<p.kunci[2], u>> \notin katalog
               \/ p.kunci[1] = "document_counter" /\ kode[u] = TanpaKode IN
  /\ pc[t] = "ambil" /\ perlu[t] # <<>>
  /\ \/ /\ ~tiada
        /\ KunciPerlu(t, p)
        /\ dapat' = IF p.kunci[1] = "document_counter"
                    THEN [dapat EXCEPT ![t].kode = kode[u]] ELSE dapat
        /\ Ke(t, "periksa")
        /\ UNCHANGED <<drafVars, mulai, tugas, salinan, perlu>>
     \/ tiada /\ Gagal(t)

\* What holds when the lock is there: a membership that was deleted meanwhile
\* is no row any more, and the purchase may be void.
Ada(p) ==
  CASE p.kunci[1] = "product_unit_kerja" -> p.mode = "S" => <<p.kunci[2], p.kunci[3]>> \in katalog
    [] p.kunci[1] = "pembelian induk"    -> indukPosted
    [] OTHER -> TRUE

Periksa(t) ==
  LET p == Head(perlu[t])
      k == p.kunci IN
  /\ pc[t] = "periksa" /\ Jalan(t)
  /\ \/ /\ Ada(p)
        /\ dapat' = CASE k[1] = "document_counter" -> [dapat EXCEPT ![t].nomor = hitung[<<k[2], k[3]>>] + 1]
                      [] k[1] = "product_unit_kerja" /\ p.mode = "X" /\ <<k[2], k[3]>> \in katalog ->
                           [dapat EXCEPT ![t].unit = @ \cup {k[3]}]
                      [] OTHER -> dapat
        /\ perlu' = [perlu EXCEPT ![t] = Tail(@)]
        /\ Ke(t, "ambil")
        /\ UNCHANGED <<kunciVars, drafVars, mulai, tugas, salinan>>
     \/ ~Ada(p) /\ Gagal(t)

Siap(t, aksi) == pc[t] = "ambil" /\ perlu[t] = <<>> /\ tugas[t].aksi = aksi

-----------------------------------------------------------------------------
(* The outcome and the commit.                                             *)
HasilBuat(t, g, no) ==
  CASE g.jenis = "pembelian"  -> BuatPembelian(t, g, no)
    [] g.jenis = "mutasi"     -> BuatMutasi(t, g, no)
    [] g.jenis = "pemakaian"  -> BuatPemakaian(t, g, no)
    [] g.jenis = "saldo_awal" -> BuatSaldoAwal(t, g, no)
    [] g.jenis = "susulan"    -> BuatSusulan(t, g, no)
    [] g.jenis = "retur"      -> BuatRetur(t, g, no)

HasilUbah(t, g, b) ==
  CASE b.jenis = "pembelian"  -> UbahPembelian(t, g, b)
    [] b.jenis = "mutasi"     -> UbahMutasi(t, g, b)
    [] b.jenis = "pemakaian"  -> UbahPemakaian(t, g, b)
    [] b.jenis = "saldo_awal" -> UbahSaldoAwal(t, g, b)
    [] b.jenis = "susulan"    -> UbahSusulan(t, g, b)
    [] b.jenis = "retur"      -> UbahRetur(t, g, b)

HasilGanti(t, g, b) ==
  CASE b.jenis = "pembelian"  -> GantiPembelian(t, g, b)
    [] b.jenis = "mutasi"     -> GantiMutasi(t, g, b)
    [] b.jenis = "pemakaian"  -> GantiPemakaian(t, g, b)
    [] b.jenis = "saldo_awal" -> GantiSaldoAwal(t, g, b)
    [] b.jenis = "susulan"    -> GantiSusulan(t, g, b)
    [] b.jenis = "retur"      -> GantiRetur(t, g, b)

HasilAjukan(t, g, b) ==
  CASE b.jenis = "pembelian"  -> AjukanPembelian(t, g, b)
    [] b.jenis = "pemakaian"  -> AjukanPemakaian(t, g, b)
    [] b.jenis = "saldo_awal" -> AjukanSaldoAwal(t, g, b)
    [] b.jenis = "susulan"    -> AjukanSusulan(t, g, b)
    [] b.jenis = "retur"      -> AjukanRetur(t, g, b)

HasilTolak(t, g, b) ==
  CASE b.jenis = "pembelian"  -> TolakPembelian(t, g, b)
    [] b.jenis = "pemakaian"  -> TolakPemakaian(t, g, b)
    [] b.jenis = "saldo_awal" -> TolakSaldoAwal(t, g, b)
    [] b.jenis = "susulan"    -> TolakSusulan(t, g, b)
    [] b.jenis = "retur"      -> TolakRetur(t, g, b)

\* The row a handler leaves: written over what is there, refused when none.
Tulis(t, hasil) ==
  \/ /\ hasil # {}
     /\ \E b \in hasil : dok' = [dok EXCEPT ![tugas[t].dok] = b]
     /\ UNCHANGED <<hitung, kode, katalog, stok, pernah, indukPosted>>
     /\ Bersih(t)
  \/ hasil = {} /\ Gagal(t)

\* The number drawn; its unique index has the last word.
NomorBaru(t) ==
  LET g == tugas[t] IN
  [awalan |-> g.jenis, kode |-> dapat[t].kode, unit |-> UnitRuang[g.isi.ruang], urut |-> dapat[t].nomor]

SudahDipakai(no) == \E d \in Dok : dok[d].status # "TIADA" /\ Tercetak(dok[d].nomor) = Tercetak(no)

SimpanBuat(t) ==
  LET g == tugas[t]
      no == NomorBaru(t)
      hasil == IF SudahDipakai(no) THEN {} ELSE HasilBuat(t, g, no) IN
  /\ Siap(t, "buat")
  /\ \/ /\ hasil # {}
        /\ \E b \in hasil : dok' = [dok EXCEPT ![g.dok] = b]
        /\ hitung' = [hitung EXCEPT ![<<g.jenis, no.unit>>] = no.urut]
        /\ UNCHANGED <<kode, katalog, stok, pernah, indukPosted>>
        /\ Bersih(t)
     \/ hasil = {} /\ Gagal(t)

SimpanUbah(t)    == Siap(t, "ubah")    /\ Tulis(t, HasilUbah(t, tugas[t], salinan[t]))
SimpanGanti(t)   == Siap(t, "ganti")   /\ Tulis(t, HasilGanti(t, tugas[t], salinan[t]))
SimpanAjukan(t)  == Siap(t, "ajukan")  /\ Tulis(t, HasilAjukan(t, tugas[t], salinan[t]))
SimpanTolak(t)   == Siap(t, "tolak")   /\ Tulis(t, HasilTolak(t, tugas[t], salinan[t]))
SimpanSetujui(t) == Siap(t, "setujui") /\ Tulis(t, SetujuiPemakaian(t, tugas[t], salinan[t]))

\* Fault: nobody looks at the balance.
CukupSelalu(akhir) == TRUE

\* periksaSaldo, and the ledger itself.
Cukup(akhir) == \A x \in DOMAIN akhir : akhir[x] >= 0

\* Goods out of an empty room are refused.
Pindahkan(t, status, akhir) ==
  \/ /\ Cukup(akhir)
     /\ stok' = akhir
     /\ dok' = [dok EXCEPT ![tugas[t].dok].status = status]
     /\ pernah' = IF status = "POSTED" THEN pernah \cup Tersentuh(salinan[t]) ELSE pernah
     /\ UNCHANGED <<hitung, kode, katalog, indukPosted>>
     /\ Bersih(t)
  \/ ~Cukup(akhir) /\ Gagal(t)

SimpanPosting(t) ==
  LET b == salinan[t] IN
  /\ Siap(t, "posting")
  /\ \/ /\ b.jenis = "saldo_awal" => BelumPernah(b.ruang, b.baris)
        /\ Pindahkan(t, "POSTED", StokSetelah(b, 1))
     \/ b.jenis = "saldo_awal" /\ ~BelumPernah(b.ruang, b.baris) /\ Gagal(t)

\* A void opening balance that was never posted has nothing to take back.
SimpanBatal(t) ==
  LET b == salinan[t] IN
  /\ Siap(t, "batal")
  /\ Pindahkan(t, "BATAL", IF b.status = "POSTED" THEN StokSetelah(b, -1) ELSE stok)

\* UnitDenganSaldoPositif, a statement after the DELETE.
PeriksaStok(t) ==
  LET berisi == \E u \in dapat[t].unit, r \in Ruang :
                  UnitRuang[r] = u /\ stok[<<tugas[t].barang, r>>] > 0 IN
  /\ Siap(t, "katalog")
  /\ \/ ~berisi /\ Ke(t, "cabut")
        /\ UNCHANGED <<kunciVars, drafVars, mulai, tugas, salinan, perlu, dapat>>
     \/ berisi /\ Gagal(t)

SimpanKatalog(t) ==
  LET b == tugas[t].barang IN
  /\ pc[t] = "cabut"
  /\ katalog' = (katalog \ {<<b, u>> : u \in dapat[t].unit}) \cup {<<b, u>> : u \in dapat[t].baru}
  /\ UNCHANGED <<dok, hitung, kode, stok, pernah, indukPosted>>
  /\ Bersih(t)

\* UnitKerjaUseCase.Update: any kode nobody else has now.
GantiKode(u) ==
  /\ mulai < MaksMulai /\ mulai' = mulai + 1
  /\ \E k \in Kode \cup {TanpaKode} :
       /\ k # kode[u] /\ (k # TanpaKode => \A v \in Unit : kode[v] # k)
       /\ kode' = [kode EXCEPT ![u] = k]
  /\ UNCHANGED <<kunciVars, dok, hitung, katalog, stok, pernah, indukPosted, pc, sesiDraf>>

\* Batal of the purchase, whose row nobody may hold.
BatalInduk ==
  /\ indukPosted /\ \A t \in Sesi : \A p \in pegang[t] : p.kunci # KInduk
  /\ indukPosted' = FALSE
  /\ UNCHANGED <<kunciVars, dok, hitung, kode, katalog, stok, pernah, mulai, pc, sesiDraf>>

\* A transaction ends before its COMMIT.
Putus(t) == pc[t] # "idle" /\ Gagal(t)

DiamDraf ==
  /\ mulai = MaksMulai /\ \A t \in Sesi : pc[t] = "idle"
  /\ UNCHANGED varsDraf

Simpan(t) ==
  \/ SimpanBuat(t) \/ SimpanUbah(t) \/ SimpanGanti(t) \/ SimpanAjukan(t) \/ SimpanTolak(t)
  \/ SimpanSetujui(t) \/ SimpanPosting(t) \/ SimpanBatal(t) \/ SimpanKatalog(t)

NextDraf ==
  \/ \E t \in Sesi :
       \/ MulaiBuat(t) \/ MulaiDok(t) \/ BacaDok(t) \/ MulaiKatalog(t) \/ BacaKatalog(t)
       \/ AmbilKunci(t) \/ Periksa(t) \/ PeriksaStok(t) \/ Simpan(t) \/ Putus(t)
  \/ \E u \in Unit : GantiKode(u)
  \/ BatalInduk
  \/ DiamDraf

SpecDraf == InitDraf /\ [][NextDraf]_varsDraf

-----------------------------------------------------------------------------
(* Properties.                                                             *)
\* Every variable has its type, and no balance goes below zero.
TypeOKDraf ==
  /\ TipeKunci(PermintaanDraf)
  /\ \A d \in Dok : dok[d] \in KepalaDok
  /\ hitung \in [Jenis \X Unit -> Nat] /\ kode \in [Unit -> Kode \cup {TanpaKode}]
  /\ katalog \subseteq Barang \X Unit /\ stok \in [Barang \X Ruang -> Nat]
  /\ pernah \subseteq Barang \X Ruang /\ indukPosted \in BOOLEAN /\ mulai \in 0..MaksMulai
  /\ pc \in [Sesi -> {"idle", "baca", "ambil", "periksa", "cabut"}]
  /\ \A t \in Sesi : perlu[t] \in Seq(PermintaanDraf) /\ dapat[t].nomor \in Nat

Bernomor == {d \in Dok : dok[d].status # "TIADA"}

\* Two documents never print the same number; and what a session has drawn
\* from its series is only ever found taken when a kode moved from one unit
\* to another, whose series ran on its own: the counter's row lock makes two
\* sessions queue, across commits, rollbacks and edits of the rooms.
NomorUnik ==
  /\ \A d, e \in Bernomor : d # e => Tercetak(dok[d].nomor) # Tercetak(dok[e].nomor)
  /\ \A t \in Sesi : Siap(t, "buat") =>
       \A d \in Bernomor : Tercetak(dok[d].nomor) = Tercetak(NomorBaru(t)) =>
                             dok[d].nomor.unit # NomorBaru(t).unit

\* Once it is submitted a document keeps what it says until it is sent back:
\* an edit that was under way when somebody submitted, posted or voided it
\* does not land afterwards.  Nothing leaves BATAL or DITOLAK, and POSTED is
\* only left for BATAL.
IsiTerkunci ==
  [][\A d \in Dok : dok[d].status \notin {"TIADA", "DRAFT"} =>
       LET b == dok[d]
           Isi(x) == <<x.nomor, x.ruang, x.tujuan, x.pemohon, x.diskon, x.total, x.kurang,
                       [i \in DOMAIN x.baris |-> [x.baris[i] EXCEPT !.setuju = 0]]>> IN
       /\ Isi(dok'[d]) = Isi(b)
       /\ b.status \in {"BATAL", "DITOLAK"} => dok'[d] = b
       /\ b.status = "POSTED" => dok'[d].status \in {"POSTED", "BATAL"}
       /\ b.status = "DISETUJUI" => dok'[d].baris = b.baris]_varsDraf

\* An internal use is never issued on its requester's own word, although the
\* requester can be edited, the document sent and approved by different
\* people at once; and never for more than was asked.
DisetujuiOrangLain ==
  \A d \in Dok : dok[d].jenis = "pemakaian" /\ dok[d].status \in {"DISETUJUI", "POSTED", "BATAL"} =>
    /\ dok[d].penyetuju \notin {NULL, dok[d].pemohon}
    /\ \A i \in DOMAIN dok[d].baris : dok[d].baris[i].setuju \in 0..dok[d].baris[i].dasar

\* Goods a unit holds outside its catalog.
Bocor == {x \in Barang \X Unit : x \notin katalog /\ \E r \in Ruang : UnitRuang[r] = x[2] /\ stok[<<x[1], r>>] > 0}

\* Goods that came back to a unit because a transfer or a use was voided.
DibawaBatal ==
  UNION {{<<dok[d].baris[i].barang, UnitRuang[dok[d].ruang]>> : i \in DOMAIN dok[d].baris} :
           d \in {d \in Dok : dok[d].status = "BATAL" /\ dok[d].jenis \in {"mutasi", "pemakaian"}}}

\* The catalog is emptied of a product only when the unit has none, and no
\* posting brings any in behind its back; only a cancellation can.
HanyaBatalMembocorkan == Bocor \subseteq DibawaBatal

\* What README.md says of the catalog: there is no stock outside it.
KatalogTerjaga == Bocor = {}

\* Lines of a receipt or a return are only written while its purchase stands.
DrafIndukPosted ==
  [][\A d \in Dok : dok[d].jenis \in Anak /\ dok'[d].baris # dok[d].baris => indukPosted]_varsDraf
=============================================================================
