---------------------------- MODULE PostingStok ----------------------------
(***************************************************************************)
(* The stock ledger kartu_stok under concurrent transactions.              *)
(*                                                                         *)
(* Every document that moves goods is posted and cancelled by its own      *)
(* handler, in its own database transaction; the rows all go through the   *)
(* trigger kartu_stok_hitung_saldo, which fences closed months and rooms   *)
(* under stock count and computes the running balance.  A session (sesi)   *)
(* runs one transaction at a time; the steps between two lock requests     *)
(* are atomic, everything else interleaves.  READ COMMITTED: a statement   *)
(* sees what is committed when it runs plus the rows of its own            *)
(* transaction.                                                            *)
(*                                                                         *)
(* Quantities only; the values of rows are the subject of MesinSaldo.      *)
(* Catalog rows (FOR SHARE) and document numbering conflict with nothing   *)
(* that is modelled here and are left out.                                 *)
(***************************************************************************)
EXTENDS KunciPg, Integers, Sequences

CONSTANTS
  Barang, Ruang, Bulan,      \* numbered, as the sort in KunciSaldo needs
  BulanIni,                  \* month of now(), the date of every reversal
  Dokumen,                   \* document numbers, positive
  Isi,                       \* [Dokumen -> what the document says]
  StatusAwal, KartuAwal, SistemAwal, IdAwal,   \* a history the system can be in
  MaksMulai                  \* bound: transactions started in a behaviour

Masukan     == {"pembelian", "penerimaan_susulan", "saldo_awal"}
Keluaran    == {"retur_pembelian", "penjualan", "pemakaian"}
Jenis       == Masukan \cup Keluaran \cup {"mutasi", "stok_opname"}
Anak        == {"penerimaan_susulan", "retur_pembelian"}
StatusDok   == {"BELUM", "DRAFT", "DIAJUKAN", "DISETUJUI", "POSTED", "BATAL"}

Nol == 0                     \* no document / no reversed row / no purchase

Dok == [jenis : Jenis, bulan : Bulan, ruang : Ruang, tujuan : Ruang,
        induk : Dokumen \cup {Nol},
        baris : Seq([barang : Barang, qty : Nat])]

BarisKartu ==
  [id : Nat, barang : Barang, ruang : Ruang, masuk : Nat, keluar : Nat,
   awal : Nat, akhir : Nat, bulan : Bulan, dok : Dokumen \cup {Nol}, asal : Nat]

BarisBaru ==
  [no : Nat, barang : Barang, ruang : Ruang, masuk : Nat, keluar : Nat,
   bulan : Bulan, asal : Nat]

ASSUME AsumsiStok ==
  /\ BulanIni \in Bulan
  /\ Dokumen \subseteq Nat \ {Nol} /\ Barang \subseteq Nat /\ Ruang \subseteq Nat
  /\ Bulan \subseteq Nat
  /\ Isi \in [Dokumen -> Dok]
  /\ \A d \in Dokumen : Isi[d].jenis \in Anak => Isi[d].induk \in Dokumen
  \* saldo_awal_detail_baris_uidx, stok_opname_detail_unik_uidx: a product is
  \* on an opening balance or on a count once
  /\ \A d \in Dokumen : Isi[d].jenis \in {"saldo_awal", "stok_opname"} =>
       \A i, j \in DOMAIN Isi[d].baris : Isi[d].baris[i].barang = Isi[d].baris[j].barang => i = j
  /\ StatusAwal \in [Dokumen -> StatusDok]
  /\ KartuAwal \subseteq BarisKartu
  /\ SistemAwal \in [Dokumen -> [Barang -> Int]]
  /\ IdAwal \in Nat /\ MaksMulai \in Nat

VARIABLES
  kartu,       \* committed rows of kartu_stok
  nextId,      \* the identity sequence of kartu_stok.id
  status,      \* status of every document ("BELUM": an opname not created)
  tutup,       \* months whose periode row says TUTUP
  sistem,      \* stok_opname_detail.stok_awal per product, -1 for no line
  mulai,       \* transactions started so far
  pc, tugas, perlu, baris, idBaru, tulis    \* per session, see TypeOK

dataVars == <<kartu, status, tutup, sistem>>
sesiVars == <<pc, tugas, perlu, baris, idBaru, tulis>>
vars     == <<kunciVars, dataVars, sesiVars, nextId, mulai>>

-----------------------------------------------------------------------------
(* Lock keys, ordered the way every writer is meant to take them: the      *)
(* document row, then periode -> ruang -> (barang, ruang).                 *)
KDok(d)      == <<0, 0, d>>
KPeriode(m)  == <<1, 0, m>>
KRuang(r)    == <<2, 0, r>>
KSaldo(b, r) == <<3, b, r>>

\* Fault: keys are locked in the order a map is iterated, which is any order.
SebelumPeta(k, l) == k # l

Sebelum(k, l) ==
  \/ k[1] < l[1]
  \/ k[1] = l[1] /\ k[2] < l[2]
  \/ k[1] = l[1] /\ k[2] = l[2] /\ k[3] < l[3]

Kunci == {KDok(d) : d \in Dokumen} \cup {KPeriode(m) : m \in Bulan}
         \cup {KRuang(r) : r \in Ruang} \cup {KSaldo(b, r) : b \in Barang, r \in Ruang}

Permintaan == [kunci : Kunci, mode : Mode]

Bersama(k)    == [kunci |-> k, mode |-> "S"]
Eksklusifi(k) == [kunci |-> k, mode |-> "X"]

-----------------------------------------------------------------------------
(* What the handlers read.                                                 *)
Terbuka == {"DRAFT", "DIAJUKAN"}        \* an opname that freezes its room

OpnameTerbuka(r) ==
  {d \in Dokumen : Isi[d].jenis = "stok_opname" /\ Isi[d].ruang = r /\ status[d] \in Terbuka}

\* periksaRuangBeku: is the room under count?
RuangBeku(r) == OpnameTerbuka(r) # {}

Pasangan(K, b, r) == {k \in K : k.barang = b /\ k.ruang = r}

\* The row the trigger reads: ORDER BY id DESC LIMIT 1.
Terakhir(K, b, r) ==
  {k \in Pasangan(K, b, r) : \A l \in Pasangan(K, b, r) : l.id <= k.id}

SaldoTerakhir(K, b, r) ==
  IF Terakhir(K, b, r) = {} THEN 0 ELSE (CHOOSE k \in Terakhir(K, b, r) : TRUE).akhir

\* The history is one the system can be in: a document not created yet is a
\* count without lines, receipts and returns belong to purchases, and what
\* OpnameTidakBergeser and IndukTerjaga say holds of it.
ASSUME AsumsiRiwayat ==
  \A d \in Dokumen :
    /\ StatusAwal[d] = "BELUM" =>
         Isi[d].jenis = "stok_opname" /\ \A b \in Barang : SistemAwal[d][b] < 0
    /\ Isi[d].jenis \in Anak => Isi[Isi[d].induk].jenis = "pembelian"
    /\ Isi[d].jenis \in Anak /\ StatusAwal[d] = "POSTED" => StatusAwal[Isi[d].induk] = "POSTED"
    /\ Isi[d].jenis = "stok_opname" /\ StatusAwal[d] \in Terbuka =>
         \A b \in Barang : SistemAwal[d][b] >= 0 =>
           SaldoTerakhir(KartuAwal, b, Isi[d].ruang) = SistemAwal[d][b]

HasRef(d) == \E k \in kartu : k.dok = d

\* periksaRuangBeku of every room the document moves goods in or out of.
RuangDok(d) == {Isi[d].ruang} \cup (IF Isi[d].jenis = "mutasi" THEN {Isi[d].tujuan} ELSE {})

RuangBebas(d) == \A r \in RuangDok(d) : ~RuangBeku(r)

\* periksaPeriode: is the month open?
PeriodeBuka(m) == m \notin tutup

-----------------------------------------------------------------------------
(* The rows each Posting inserts, numbered in the order it inserts them.   *)
Gerak(no, d, i, r, masuk, keluar) ==
  [no |-> no, barang |-> Isi[d].baris[i].barang, ruang |-> r, masuk |-> masuk,
   keluar |-> keluar, bulan |-> Isi[d].bulan, asal |-> Nol]

\* The lines of an opname are those TarikSaldo pulled and somebody counted;
\* s holds the balances it pulled.
TerhitungDari(d, s) ==
  {i \in DOMAIN Isi[d].baris :
     Isi[d].jenis = "stok_opname" => s[Isi[d].baris[i].barang] >= 0}

Terhitung(d) == TerhitungDari(d, sistem[d])

BarisMasuk(d) ==
  {Gerak(i, d, i, Isi[d].ruang, Isi[d].baris[i].qty, 0) : i \in DOMAIN Isi[d].baris}

BarisKeluar(d) ==
  {Gerak(i, d, i, Isi[d].ruang, 0, Isi[d].baris[i].qty) : i \in DOMAIN Isi[d].baris}

\* A transfer writes the outgoing row of a line, then its incoming row.
BarisMutasi(d) ==
  {Gerak(2 * i, d, i, Isi[d].ruang, 0, Isi[d].baris[i].qty) : i \in DOMAIN Isi[d].baris}
  \cup
  {Gerak(2 * i + 1, d, i, Isi[d].tujuan, Isi[d].baris[i].qty, 0) : i \in DOMAIN Isi[d].baris}

\* Of an opname, only the counted lines whose count differs from stok_awal.
BarisOpnameDari(d, s) ==
  LET awal(i) == s[Isi[d].baris[i].barang]
      q(i) == Isi[d].baris[i].qty
      garis == TerhitungDari(d, s)
  IN {Gerak(i, d, i, Isi[d].ruang, q(i) - awal(i), 0) : i \in {j \in garis : q(j) > awal(j)}}
     \cup
     {Gerak(i, d, i, Isi[d].ruang, 0, awal(i) - q(i)) : i \in {j \in garis : q(j) < awal(j)}}

BarisOpname(d) == BarisOpnameDari(d, sistem[d])

\* What Posting inserts for a document of each kind.
BarisPosting(d, s) ==
  CASE Isi[d].jenis = "mutasi"      -> BarisMutasi(d)
    [] Isi[d].jenis \in Keluaran    -> BarisKeluar(d)
    [] Isi[d].jenis = "stok_opname" -> BarisOpnameDari(d, s)
    [] OTHER                        -> BarisMasuk(d)

\* What document d wrote, of the rows K.
Milik(K, d) == {k \in K : k.dok = d}

\* The rows M of a document agree with its status: none before posting, each
\* line once when POSTED, every one reversed exactly once when BATAL.
CocokDokumen(M, statusDok, harus) ==
  LET asli == {k \in M : k.asal = Nol}
      balik == M \ asli IN
  /\ statusDok \notin {"POSTED", "BATAL"} => M = {}
  /\ statusDok = "POSTED" =>
       /\ balik = {}
       /\ {<<k.barang, k.ruang, k.masuk, k.keluar>> : k \in asli}
            = {<<x.barang, x.ruang, x.masuk, x.keluar>> : x \in harus}
       /\ Cardinality(asli) = Cardinality(harus)
  /\ statusDok = "BATAL" =>
       /\ Cardinality(balik) = Cardinality(asli)
       /\ \A k \in asli : \E l \in balik :
            l.asal = k.id /\ l.masuk = k.keluar /\ l.keluar = k.masuk
              /\ l.barang = k.barang /\ l.ruang = k.ruang

KartuCocok(K, statusDok, sistemDok) ==
  \A d \in Dokumen :
    CocokDokumen(Milik(K, d), statusDok[d], BarisPosting(d, sistemDok[d]))

\* The history again: id is an identity column and a primary key, and the
\* ledger starts out as the handlers left it.
ASSUME AsumsiKartu ==
  /\ IsFiniteSet(KartuAwal)
  /\ \A k \in KartuAwal : 0 < k.id /\ k.id < IdAwal
  /\ \A k, l \in KartuAwal : k.id = l.id => k = l
  /\ 0 < IdAwal
  /\ KartuCocok(KartuAwal, StatusAwal, SistemAwal)

\* Cancelling mirrors every row the document wrote that is not itself a
\* reversal, dated now.
BarisBatal(d) ==
  {[no |-> k.id, barang |-> k.barang, ruang |-> k.ruang, masuk |-> k.keluar,
    keluar |-> k.masuk, bulan |-> BulanIni, asal |-> k.id] :
     k \in {x \in kartu : x.dok = d /\ x.asal = Nol}}

-----------------------------------------------------------------------------
(* The locks a handler takes before its first insert.                      *)
\* Fault: the pairs are left to the trigger, after the checks.
KunciTanpaSaldo(d) ==
  {Bersama(KPeriode(Isi[d].bulan))} \cup {Bersama(KRuang(r)) : r \in RuangDok(d)}

\* kunciJalurStok of mutasi, pemakaian, penjualan, saldo_awal and opname.
KunciJalurStok(d) ==
  {Bersama(KPeriode(Isi[d].bulan))}
  \cup {Bersama(KRuang(r)) : r \in RuangDok(d)}
  \cup {Eksklusifi(KSaldo(Isi[d].baris[i].barang, r)) :
          i \in Terhitung(d), r \in RuangDok(d)}

KunciSaldoBatal(d) ==
  {Eksklusifi(KSaldo(k.barang, k.ruang)) : k \in {x \in kartu : x.dok = d}}

\* kunciJalurPembalik of mutasi, pemakaian, penjualan and saldo_awal.
KunciJalurPembalik(d) ==
  {Bersama(KPeriode(BulanIni))} \cup {Bersama(KRuang(r)) : r \in RuangDok(d)}
  \cup KunciSaldoBatal(d)

-----------------------------------------------------------------------------
(* The handlers.  Each locks its document, then                            *)
(*   boleh   what it insists on with the document locked;                  *)
(*   kunci   the locks it takes before its first insert, in order;         *)
(*   syarat  what it checks next (periksaSaldo is left to the trigger,     *)
(*           which decides the same thing under the same locks);           *)
(*   baris   the rows it inserts;                                          *)
(*   dari    the statuses its guarded UPDATE at the end accepts.           *)
Siap(d, s) == status[d] = s /\ ~HasRef(d)

AnakPosted(d) ==
  \E c \in Dokumen : Isi[c].jenis \in Anak /\ Isi[c].induk = d /\ status[c] = "POSTED"

PostingMutasi(d) ==
  [boleh  |-> Siap(d, "DRAFT"), kunci |-> KunciJalurStok(d),
   syarat |-> PeriodeBuka(Isi[d].bulan) /\ RuangBebas(d),
   baris  |-> BarisMutasi(d), dari |-> {"DRAFT"}]

PostingPenjualan(d) ==
  [boleh  |-> Siap(d, "DRAFT"), kunci |-> KunciJalurStok(d),
   syarat |-> PeriodeBuka(Isi[d].bulan) /\ RuangBebas(d),
   baris  |-> BarisKeluar(d), dari |-> {"DRAFT"}]

PostingPemakaian(d) ==
  [boleh  |-> Siap(d, "DISETUJUI"), kunci |-> KunciJalurStok(d),
   syarat |-> PeriodeBuka(Isi[d].bulan) /\ RuangBebas(d),
   baris  |-> BarisKeluar(d), dari |-> {"DISETUJUI"}]

\* Opening balances only for pairs that have no row of any kind.
BelumPernahBergerak(d) ==
  \A i \in DOMAIN Isi[d].baris : Pasangan(kartu, Isi[d].baris[i].barang, Isi[d].ruang) = {}

PostingSaldoAwal(d) ==
  [boleh  |-> Siap(d, "DIAJUKAN"), kunci |-> KunciJalurStok(d),
   syarat |-> PeriodeBuka(Isi[d].bulan) /\ RuangBebas(d) /\ BelumPernahBergerak(d),
   baris  |-> BarisMasuk(d), dari |-> {"DIAJUKAN"}]

\* periksaSaldoBergeser: the balances still are what TarikSaldo froze.
SaldoTetap(d) ==
  \A i \in Terhitung(d) :
    SaldoTerakhir(kartu, Isi[d].baris[i].barang, Isi[d].ruang)
      = sistem[d][Isi[d].baris[i].barang]

PostingOpname(d) ==
  [boleh  |-> Siap(d, "DIAJUKAN"), kunci |-> KunciJalurStok(d),
   syarat |-> PeriodeBuka(Isi[d].bulan) /\ SaldoTetap(d),
   baris  |-> BarisOpname(d), dari |-> {"DIAJUKAN"}]

\* A purchase takes no lock but its own row: the trigger takes them.
PostingPembelian(d) ==
  [boleh  |-> Siap(d, "DIAJUKAN"), kunci |-> {},
   syarat |-> PeriodeBuka(Isi[d].bulan) /\ RuangBebas(d),
   baris  |-> BarisMasuk(d), dari |-> {"DIAJUKAN"}]

\* Fault: a follow-up receipt reads the status of its purchase and locks nothing.
PostingSusulanTanpaKunci(d) ==
  [boleh  |-> Siap(d, "DIAJUKAN"), kunci |-> {},
   syarat |-> /\ status[Isi[d].induk] = "POSTED"
              /\ PeriodeBuka(Isi[d].bulan) /\ RuangBebas(d),
   baris  |-> BarisMasuk(d), dari |-> {"DIAJUKAN"}]

\* A follow-up receipt or a return locks the purchase it belongs to
\* (kunciPembelianPosted) and insists that it is POSTED.
PostingSusulan(d) ==
  [boleh  |-> Siap(d, "DIAJUKAN"), kunci |-> {Eksklusifi(KDok(Isi[d].induk))},
   syarat |-> /\ status[Isi[d].induk] = "POSTED"
              /\ PeriodeBuka(Isi[d].bulan) /\ RuangBebas(d),
   baris  |-> BarisMasuk(d), dari |-> {"DIAJUKAN"}]

PostingRetur(d) ==
  [boleh  |-> Siap(d, "DIAJUKAN"), kunci |-> {Eksklusifi(KDok(Isi[d].induk))},
   syarat |-> /\ status[Isi[d].induk] = "POSTED"
              /\ PeriodeBuka(Isi[d].bulan) /\ RuangBebas(d),
   baris  |-> BarisKeluar(d), dari |-> {"DIAJUKAN"}]

\* Fault: neither the handler nor the UPDATE looks at the status.
BatalMutasiTanpaStatus(d) ==
  [boleh  |-> TRUE, kunci |-> KunciJalurPembalik(d),
   syarat |-> PeriodeBuka(BulanIni) /\ RuangBebas(d),
   baris  |-> BarisBatal(d), dari |-> StatusDok]

\* Batal of mutasi, the pattern of penjualan and pemakaian as well.
BatalMutasi(d) ==
  [boleh  |-> status[d] = "POSTED", kunci |-> KunciJalurPembalik(d),
   syarat |-> PeriodeBuka(BulanIni) /\ RuangBebas(d),
   baris  |-> BarisBatal(d), dari |-> {"POSTED"}]

BatalPenjualan(d) == BatalMutasi(d)
BatalPemakaian(d) == BatalMutasi(d)

\* Before it was posted, an opening balance is simply withdrawn.
BatalSaldoAwal(d) ==
  IF status[d] = "POSTED" THEN [BatalMutasi(d) EXCEPT !.dari = StatusDok \ {"BATAL"}]
  ELSE [boleh |-> status[d] # "BATAL", kunci |-> {}, syarat |-> TRUE,
        baris |-> {}, dari |-> StatusDok \ {"BATAL"}]

\* Fault: a count is cancelled as if it still were open.
BatalOpnameTanpaBalik(d) ==
  [boleh  |-> TRUE, kunci |-> {Eksklusifi(KRuang(Isi[d].ruang))},
   syarat |-> TRUE, baris |-> {}, dari |-> StatusDok \ {"BATAL"}]

\* A count that was posted takes ruang and saldo but no periode first; one
\* that is still open takes its room exclusively.  The status is read, and
\* refused only by the guarded UPDATE.
BatalOpname(d) ==
  IF status[d] = "POSTED"
  THEN [boleh  |-> TRUE,
        kunci  |-> {Bersama(KRuang(Isi[d].ruang))} \cup KunciSaldoBatal(d),
        syarat |-> PeriodeBuka(BulanIni),
        baris  |-> BarisBatal(d), dari |-> StatusDok \ {"BATAL"}]
  ELSE [boleh  |-> TRUE, kunci |-> {Eksklusifi(KRuang(Isi[d].ruang))},
        syarat |-> TRUE, baris |-> {}, dari |-> StatusDok \ {"BATAL"}]

\* Not while a follow-up receipt or a return of the purchase stands.
BatalPembelian(d) ==
  [boleh  |-> status[d] = "POSTED" /\ ~AnakPosted(d), kunci |-> {},
   syarat |-> PeriodeBuka(BulanIni) /\ RuangBebas(d),
   baris  |-> BarisBatal(d), dari |-> {"POSTED"}]

\* The purchase is not locked first: only its status is refreshed, last.
BatalSusulan(d) ==
  [boleh  |-> status[d] = "POSTED", kunci |-> {},
   syarat |-> PeriodeBuka(BulanIni) /\ RuangBebas(d),
   baris  |-> BarisBatal(d), dari |-> {"POSTED"}]

BatalRetur(d) == BatalSusulan(d)

RencanaPosting(d) ==
  CASE Isi[d].jenis = "mutasi"             -> PostingMutasi(d)
    [] Isi[d].jenis = "penjualan"          -> PostingPenjualan(d)
    [] Isi[d].jenis = "pemakaian"          -> PostingPemakaian(d)
    [] Isi[d].jenis = "saldo_awal"         -> PostingSaldoAwal(d)
    [] Isi[d].jenis = "stok_opname"        -> PostingOpname(d)
    [] Isi[d].jenis = "pembelian"          -> PostingPembelian(d)
    [] Isi[d].jenis = "penerimaan_susulan" -> PostingSusulan(d)
    [] OTHER                               -> PostingRetur(d)

RencanaBatal(d) ==
  CASE Isi[d].jenis = "mutasi"             -> BatalMutasi(d)
    [] Isi[d].jenis = "penjualan"          -> BatalPenjualan(d)
    [] Isi[d].jenis = "pemakaian"          -> BatalPemakaian(d)
    [] Isi[d].jenis = "saldo_awal"         -> BatalSaldoAwal(d)
    [] Isi[d].jenis = "stok_opname"        -> BatalOpname(d)
    [] Isi[d].jenis = "pembelian"          -> BatalPembelian(d)
    [] Isi[d].jenis = "penerimaan_susulan" -> BatalSusulan(d)
    [] OTHER                               -> BatalRetur(d)

Rencana(g) == IF g.aksi = "posting" THEN RencanaPosting(g.dok) ELSE RencanaBatal(g.dok)

\* The row updated last: the document's own, and for a receipt or return
\* that of its purchase (RecalculateStatusPenerimaan, -Pembayaran).
KunciAkhir(d) == Eksklusifi(KDok(IF Isi[d].jenis \in Anak THEN Isi[d].induk ELSE d))

-----------------------------------------------------------------------------
(* Transactions.  tugas[t] is what the session was asked to do.            *)
Aksi == {"posting", "batal", "opname_baru", "tutup", "buka"}

Tugas == [aksi : Aksi, dok : Dokumen \cup {Nol}, bulan : Bulan]

Menganggur == [aksi |-> "posting", dok |-> Nol, bulan |-> BulanIni]

PermintaanMungkin ==
  [aksi : {"posting", "batal"}, dok : {d \in Dokumen : status[d] # "BELUM"}, bulan : {BulanIni}]
  \cup
  [aksi : {"opname_baru"}, dok : {d \in Dokumen : status[d] = "BELUM"}, bulan : {BulanIni}]
  \cup
  [aksi : {"tutup", "buka"}, dok : {Nol}, bulan : Bulan]

Init ==
  /\ InitKunci
  /\ kartu = KartuAwal /\ nextId = IdAwal
  /\ status = StatusAwal
  /\ tutup = {}
  /\ sistem = SistemAwal
  /\ mulai = 0
  /\ pc = [t \in Sesi |-> "idle"]
  /\ tugas = [t \in Sesi |-> Menganggur]
  /\ perlu = [t \in Sesi |-> {}]
  /\ baris = [t \in Sesi |-> {}]
  /\ idBaru = [t \in Sesi |-> 0]
  /\ tulis = [t \in Sesi |-> {}]

\* Fault: months and rooms are locked with LockShared instead of Lock.
KunciPertamaBersama(g) ==
  CASE g.aksi \in {"posting", "batal"} -> Eksklusifi(KDok(g.dok))
    [] g.aksi = "opname_baru"          -> Bersama(KRuang(Isi[g.dok].ruang))
    [] OTHER                           -> Bersama(KPeriode(g.bulan))

\* The first lock of every handler, and where it waits for it.
KunciPertama(g) ==
  CASE g.aksi \in {"posting", "batal"} -> Eksklusifi(KDok(g.dok))
    [] g.aksi = "opname_baru"          -> Eksklusifi(KRuang(Isi[g.dok].ruang))
    [] OTHER                           -> Eksklusifi(KPeriode(g.bulan))

LangkahPertama(g) ==
  CASE g.aksi \in {"posting", "batal"} -> "dokumen"
    [] g.aksi = "opname_baru"          -> "opname"
    [] OTHER                           -> "buku"

\* BEGIN, then the lock. Two Create calls never make the same document.
Mulai(t) ==
  /\ pc[t] = "idle" /\ Jalan(t) /\ mulai < MaksMulai
  /\ mulai' = mulai + 1
  /\ \E g \in PermintaanMungkin :
       /\ g.aksi = "opname_baru" => \A u \in Sesi : tugas[u] # g
       /\ tugas' = [tugas EXCEPT ![t] = g]
       /\ pc' = [pc EXCEPT ![t] = LangkahPertama(g)]
       /\ Minta(t, KunciPertama(g))
  /\ UNCHANGED <<dataVars, nextId, perlu, baris, idBaru, tulis>>

\* The session's transaction is over: it forgets everything.
Lupa(t) ==
  /\ pc' = [pc EXCEPT ![t] = "idle"]
  /\ tugas' = [tugas EXCEPT ![t] = Menganggur]
  /\ perlu' = [perlu EXCEPT ![t] = {}]
  /\ baris' = [baris EXCEPT ![t] = {}]
  /\ idBaru' = [idBaru EXCEPT ![t] = 0]
  /\ tulis' = [tulis EXCEPT ![t] = {}]

Bersih(t) == Lupa(t) /\ LepasSemua(t)

\* Fault: an error return that forgets its deferred Rollback.
GagalTanpaRollback(t) == Lupa(t) /\ UNCHANGED <<kunciVars, dataVars, nextId, mulai>>

\* ROLLBACK: an error return, or the deadlock detector.
Gagal(t) == Bersih(t) /\ UNCHANGED <<dataVars, nextId, mulai>>

-----------------------------------------------------------------------------
(* Posting and Batal of a document.                                        *)
\* The document is locked: decide, and load what has to be written.
PeriksaDokumen(t) ==
  LET r == Rencana(tugas[t]) IN
  /\ pc[t] = "dokumen" /\ Jalan(t)
  /\ \/ /\ r.boleh
        /\ pc' = [pc EXCEPT ![t] = "kunci"]
        /\ baris' = [baris EXCEPT ![t] = r.baris]
        /\ perlu' = [perlu EXCEPT ![t] = r.kunci]
        /\ UNCHANGED <<kunciVars, dataVars, tugas, idBaru, tulis, nextId, mulai>>
     \/ ~r.boleh /\ Gagal(t)

\* The next lock of the handler's list, in the canonical order.
AmbilKunci(t) ==
  /\ pc[t] = "kunci" /\ Jalan(t)
  /\ \E p \in perlu[t] :
       /\ \A q \in perlu[t] \ {p} : Sebelum(p.kunci, q.kunci)
       /\ Minta(t, p)
       /\ perlu' = [perlu EXCEPT ![t] = @ \ {p}]
  /\ UNCHANGED <<dataVars, pc, tugas, baris, idBaru, tulis, nextId, mulai>>

\* Every lock of the list is held: the checks before the first insert.
PeriksaAwal(t) ==
  /\ pc[t] = "kunci" /\ Jalan(t) /\ perlu[t] = {}
  /\ \/ /\ Rencana(tugas[t]).syarat
        /\ pc' = [pc EXCEPT ![t] = "sisip"]
        /\ UNCHANGED <<kunciVars, dataVars, tugas, perlu, baris, idBaru, tulis, nextId, mulai>>
     \/ ~Rencana(tugas[t]).syarat /\ Gagal(t)

-----------------------------------------------------------------------------
(* One INSERT INTO kartu_stok.  The identity is drawn when the statement   *)
(* builds its row, before the BEFORE ROW trigger runs and waits.           *)
Berikut(t) == {x \in baris[t] : \A y \in baris[t] : x.no <= y.no}

BarisBerikut(t) == CHOOSE x \in Berikut(t) : TRUE

Sisip(t) ==
  /\ pc[t] = "sisip" /\ Jalan(t) /\ Berikut(t) # {}
  /\ idBaru' = [idBaru EXCEPT ![t] = nextId]
  /\ nextId' = nextId + 1
  /\ Minta(t, Bersama(KPeriode(BarisBerikut(t).bulan)))
  /\ pc' = [pc EXCEPT ![t] = "trg_periode"]
  /\ UNCHANGED <<dataVars, tugas, perlu, baris, tulis, mulai>>

\* Trigger: periode locked, read its status, then lock the room.
TrgPeriode(t) ==
  LET x == BarisBerikut(t) IN
  /\ pc[t] = "trg_periode" /\ Jalan(t)
  /\ \/ /\ x.bulan \notin tutup
        /\ Minta(t, Bersama(KRuang(x.ruang)))
        /\ pc' = [pc EXCEPT ![t] = "trg_ruang"]
        /\ UNCHANGED <<dataVars, tugas, perlu, baris, idBaru, tulis, nextId, mulai>>
     \/ x.bulan \in tutup /\ Gagal(t)

\* Trigger: room locked, refuse if an opname other than the row's own is open.
TrgRuang(t) ==
  LET x == BarisBerikut(t) IN
  /\ pc[t] = "trg_ruang" /\ Jalan(t)
  /\ \/ /\ OpnameTerbuka(x.ruang) \subseteq {tugas[t].dok}
        /\ Minta(t, Eksklusifi(KSaldo(x.barang, x.ruang)))
        /\ pc' = [pc EXCEPT ![t] = "trg_saldo"]
        /\ UNCHANGED <<dataVars, tugas, perlu, baris, idBaru, tulis, nextId, mulai>>
     \/ ~(OpnameTerbuka(x.ruang) \subseteq {tugas[t].dok}) /\ Gagal(t)

\* Fault: the trigger accepts any balance.
CukupApaPun(akhir) == TRUE

\* Trigger: RAISE 'stok tidak mencukupi' below zero.
CukupStok(akhir) == akhir >= 0

\* Trigger: (barang, ruang) locked, read the last row and write the new one.
TrgSaldo(t) ==
  LET x == BarisBerikut(t)
      lalu == SaldoTerakhir(kartu \cup tulis[t], x.barang, x.ruang)
      akhir == lalu + x.masuk - x.keluar IN
  /\ pc[t] = "trg_saldo" /\ Jalan(t)
  /\ \/ /\ CukupStok(akhir)
        /\ tulis' = [tulis EXCEPT ![t] = @ \cup
             {[id |-> idBaru[t], barang |-> x.barang, ruang |-> x.ruang,
               masuk |-> x.masuk, keluar |-> x.keluar, awal |-> lalu, akhir |-> akhir,
               bulan |-> x.bulan, dok |-> tugas[t].dok, asal |-> x.asal]}]
        /\ baris' = [baris EXCEPT ![t] = @ \ {x}]
        /\ pc' = [pc EXCEPT ![t] = "sisip"]
        /\ UNCHANGED <<kunciVars, dataVars, tugas, perlu, idBaru, nextId, mulai>>
     \/ ~CukupStok(akhir) /\ Gagal(t)

\* Every row is in: the UPDATEs that end the transaction, the last of which
\* may have to wait for the purchase.
Perbarui(t) ==
  /\ pc[t] = "sisip" /\ Jalan(t) /\ baris[t] = {}
  /\ Minta(t, KunciAkhir(tugas[t].dok))
  /\ pc' = [pc EXCEPT ![t] = "akhir"]
  /\ UNCHANGED <<dataVars, tugas, perlu, baris, idBaru, tulis, nextId, mulai>>

\* The guarded UPDATE of the document's status, and COMMIT.
Selesai(t) ==
  LET g == tugas[t]
      boleh == status[g.dok] \in Rencana(g).dari IN
  /\ pc[t] = "akhir" /\ Jalan(t)
  /\ \/ /\ boleh
        /\ kartu' = kartu \cup tulis[t]
        /\ status' = [status EXCEPT ![g.dok] = IF g.aksi = "posting" THEN "POSTED" ELSE "BATAL"]
        /\ Bersih(t)
        /\ UNCHANGED <<tutup, sistem, nextId, mulai>>
     \/ ~boleh /\ Gagal(t)

-----------------------------------------------------------------------------
(* Closing and reopening a month, opening a stock count.                   *)
TutupBuku(t) ==
  LET m == tugas[t].bulan IN
  /\ pc[t] = "buku" /\ tugas[t].aksi = "tutup" /\ Jalan(t)
  /\ \/ /\ m \notin tutup
        /\ tutup' = tutup \cup {m}
        /\ Bersih(t)
        /\ UNCHANGED <<kartu, status, sistem, nextId, mulai>>
     \/ m \in tutup /\ Gagal(t)

BukaBuku(t) ==
  LET m == tugas[t].bulan IN
  /\ pc[t] = "buku" /\ tugas[t].aksi = "buka" /\ Jalan(t)
  /\ \/ /\ m \in tutup
        /\ tutup' = tutup \ {m}
        /\ Bersih(t)
        /\ UNCHANGED <<kartu, status, sistem, nextId, mulai>>
     \/ m \notin tutup /\ Gagal(t)

\* StokOpnameUseCase.Create: the room locked exclusively, one open count per room.
BukaOpname(t) ==
  LET d == tugas[t].dok IN
  /\ pc[t] = "opname" /\ Jalan(t)
  /\ \/ /\ ~RuangBeku(Isi[d].ruang)
        /\ status' = [status EXCEPT ![d] = "DRAFT"]
        /\ Bersih(t)
        /\ UNCHANGED <<kartu, tutup, sistem, nextId, mulai>>
     \/ RuangBeku(Isi[d].ruang) /\ Gagal(t)

(* Handlers that hold nothing but the opname's row: one atomic transaction *)
(* each, when nobody has that row locked.                                  *)
BarisBebas(d) == \A t \in Sesi : Eksklusifi(KDok(d)) \notin pegang[t]

HasDetail(d) == \E b \in Barang : sistem[d][b] >= 0

TarikSaldo(d) ==
  /\ Isi[d].jenis = "stok_opname" /\ status[d] = "DRAFT" /\ ~HasDetail(d) /\ BarisBebas(d)
  /\ sistem' = [sistem EXCEPT ![d] = [b \in Barang |->
                  IF Pasangan(kartu, b, Isi[d].ruang) = {} THEN -1
                  ELSE SaldoTerakhir(kartu, b, Isi[d].ruang)]]
  /\ UNCHANGED <<kunciVars, sesiVars, kartu, status, tutup, nextId, mulai>>

\* The lines chosen anew, each with the balance of now; the products must
\* have a history in the room.
ReplaceDetail(d) ==
  /\ Isi[d].jenis = "stok_opname" /\ status[d] = "DRAFT" /\ BarisBebas(d)
  /\ \E S \in SUBSET {b \in Barang : Pasangan(kartu, b, Isi[d].ruang) # {}} :
       /\ S # {}
       /\ sistem' = [sistem EXCEPT ![d] = [b \in Barang |->
                       IF b \in S THEN SaldoTerakhir(kartu, b, Isi[d].ruang) ELSE -1]]
  /\ UNCHANGED <<kunciVars, sesiVars, kartu, status, tutup, nextId, mulai>>

Ajukan(d) ==
  /\ Isi[d].jenis = "stok_opname" /\ status[d] = "DRAFT" /\ BarisBebas(d)
  /\ Terhitung(d) # {}
  /\ status' = [status EXCEPT ![d] = "DIAJUKAN"]
  /\ UNCHANGED <<kunciVars, sesiVars, kartu, tutup, sistem, nextId, mulai>>

\* Fault: a count that is POSTED can be sent back too.
TolakPosted(d) ==
  /\ Isi[d].jenis = "stok_opname" /\ status[d] \in {"DIAJUKAN", "POSTED"} /\ BarisBebas(d)
  /\ status' = [status EXCEPT ![d] = "DRAFT"]
  /\ UNCHANGED <<kunciVars, sesiVars, kartu, tutup, sistem, nextId, mulai>>

Tolak(d) ==
  /\ Isi[d].jenis = "stok_opname" /\ status[d] = "DIAJUKAN" /\ BarisBebas(d)
  /\ status' = [status EXCEPT ![d] = "DRAFT"]
  /\ UNCHANGED <<kunciVars, sesiVars, kartu, tutup, sistem, nextId, mulai>>

-----------------------------------------------------------------------------
\* One step of a transaction already begun.
Langkah(t) ==
  \/ PeriksaDokumen(t) \/ AmbilKunci(t) \/ PeriksaAwal(t)
  \/ Sisip(t) \/ TrgPeriode(t) \/ TrgRuang(t) \/ TrgSaldo(t)
  \/ Perbarui(t) \/ Selesai(t)
  \/ TutupBuku(t) \/ BukaBuku(t) \/ BukaOpname(t)

\* After deadlock_timeout the waiting backend looks for a cycle.
SusunAntrean(t) == Susun(t) /\ UNCHANGED <<dataVars, sesiVars, nextId, mulai>>

BatalkanKorban(t) == Korban(t) /\ Gagal(t)

\* The bound is reached and nothing is left to do.
Diam ==
  /\ mulai = MaksMulai /\ \A t \in Sesi : pc[t] = "idle"
  /\ UNCHANGED vars

Next ==
  \/ \E t \in Sesi : Mulai(t) \/ Langkah(t) \/ SusunAntrean(t) \/ BatalkanKorban(t)
  \/ \E d \in Dokumen : TarikSaldo(d) \/ ReplaceDetail(d) \/ Ajukan(d) \/ Tolak(d)
  \/ Diam

Spec == Init /\ [][Next]_vars

\* A backend that is not waiting runs on, and one that waits in a cycle has
\* its deadlock check.  Nobody is obliged to send a request.
SpecAdil ==
  Spec /\ \A t \in Sesi :
            /\ WF_vars(Langkah(t))
            /\ WF_vars(SusunAntrean(t) \/ BatalkanKorban(t))

-----------------------------------------------------------------------------
(* Properties.                                                             *)
LangkahSesi == {"idle", "dokumen", "kunci", "sisip", "trg_periode", "trg_ruang",
                "trg_saldo", "akhir", "buku", "opname"}

\* Every variable has its type.
TypeOK ==
  /\ TipeKunci(Permintaan)
  /\ kartu \subseteq BarisKartu /\ nextId \in Nat
  /\ status \in [Dokumen -> StatusDok]
  /\ tutup \subseteq Bulan
  /\ sistem \in [Dokumen -> [Barang -> Int]]
  /\ mulai \in Nat
  /\ pc \in [Sesi -> LangkahSesi]                \* where the transaction is
  /\ tugas \in [Sesi -> Tugas]                   \* what it was asked to do
  /\ perlu \in [Sesi -> SUBSET Permintaan]       \* locks still to take first
  /\ baris \in [Sesi -> SUBSET BarisBaru]        \* rows still to insert
  /\ idBaru \in [Sesi -> Nat]                    \* id of the row being inserted
  /\ tulis \in [Sesi -> SUBSET BarisKartu]       \* rows inserted, not committed

\* A closed month is fenced: no commit ever adds a row dated in a month that
\* is TUTUP, however the closing interleaves with postings in flight
\* (trigger kartu_stok_hitung_saldo against PeriodeUseCase.Tutup).
PagarPeriode == [][\A k \in kartu' \ kartu : k.bulan \notin tutup]_vars

\* A room under stock count is fenced: while an opname of the room is DRAFT
\* or DIAJUKAN, only that opname commits rows in it (the freeze of 000023).
PagarRuang ==
  [][\A k \in kartu' \ kartu : OpnameTerbuka(k.ruang) \subseteq {k.dok}]_vars

\* Per product and room, rows in the order of their id chain: each starts
\* from where the one before ended, and adds up (what PeriksaRantai checks
\* and every reader of the last row relies on).
RantaiUtuh ==
  \A k \in kartu :
    /\ k.akhir = k.awal + k.masuk - k.keluar
    /\ LET lebihAwal == {l \in Pasangan(kartu, k.barang, k.ruang) : l.id < k.id}
       IN k.awal = SaldoTerakhir(lebihAwal, k.barang, k.ruang)

\* A document's rows agree with its status: none before posting, each line
\* once when POSTED, every one reversed exactly once when BATAL, whoever
\* posts and cancels it at the same time.
KartuCocokStatus == KartuCocok(kartu, status, sistem)

\* Between TarikSaldo and the end of the count the balances of the room do
\* not move, so periksaSaldoBergeser never has anything to refuse.
OpnameTidakBergeser ==
  \A d \in Dokumen : Isi[d].jenis = "stok_opname" /\ status[d] \in Terbuka =>
    \A b \in Barang : sistem[d][b] >= 0 =>
      SaldoTerakhir(kartu, b, Isi[d].ruang) = sistem[d][b]

\* A receipt or return that is POSTED belongs to a purchase that is POSTED,
\* whatever races between Posting of the child and Batal of the purchase.
IndukTerjaga ==
  \A c \in Dokumen : Isi[c].jenis \in Anak /\ status[c] = "POSTED" =>
    status[Isi[c].induk] = "POSTED"

\* An opening balance, where there is one, is the first row of its pair.
SaldoAwalPertama ==
  \A k \in kartu : k.dok # Nol /\ k.asal = Nol /\ Isi[k.dok].jenis = "saldo_awal" =>
    \A l \in Pasangan(kartu, k.barang, k.ruang) : k.id <= l.id

\* Nobody is ever aborted as the victim of a deadlock.
TanpaDeadlock == \A t \in Sesi : ~Korban(t)

\* Nobody ever waits in a circle, not even one that the order of a queue
\* closes and that only deadlock_timeout resolves.
TanpaSiklus == Siklus(Keras \cup Lunak) = {}

\* Every transaction that begins ends, by commit or by rollback.
SemuaSelesai == \A t \in Sesi : pc[t] # "idle" ~> pc[t] = "idle"
=============================================================================
