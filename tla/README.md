# Verification of GRAND-ERP

GRAND-ERP is a Go back end over PostgreSQL: several shops (*unit kerja*) with
rooms (*ruang*) hold stock of shared products; documents buy, receive, return,
move, count, use up and sell it. Every document has its own handler, every
handler its own database transaction, and nothing but the database serialises
them. The hard part is therefore not in one function: it is in the order in
which transactions of different handlers take their locks, read, write and
commit. That is what this project models.

The names of the code are kept: `kartu_stok` is the stock ledger, *mutasi* a
transfer between rooms, *pembelian* a purchase, *penerimaan susulan* a later
receipt of a purchase delivered short, *retur pembelian* its return, *pemakaian*
internal use, *penjualan* a sale, *saldo awal* an opening balance, *stok opname*
a stock count, *periode* a month of the books, *pembayaran utang* a payment to a
supplier, *giro* a cheque that clears later.

## 1. Inventory

Paths are under `src/internal/` unless they start with `db/`.

| component | state | operations | talks to | what is hard | what makes it correct | here |
|---|---|---|---|---|---|---|
| stock ledger (`repository/kartu_stok_repository.go`, trigger of `db/migrations_postgres/000023`) | rows of `kartu_stok`: in, out, running quantity, value, average | `Insert` (the trigger does the work), `KunciSaldo`, reads of the last row | called by every document | the identity is drawn before the trigger waits; concurrent postings of a pair; rounding | each row starts where the one before ended; nothing below zero; value and average agree up to rounding | `PostingStok`, `MesinSaldo`, `NilaiStok` |
| *periode* | one row per month, BUKA or TUTUP | `Tutup`, `Buka`; shared lock in every posting | trigger, every document | a month closes while a posting in it is in flight | no row ever enters a closed month | `PostingStok` |
| *stok_opname* | document, lines with `stok_awal` | `Create`, `TarikSaldo`, `ReplaceDetail`, `Ajukan`, `Tolak`, `Posting`, `Batal` (`UpdateDetail`, `UpdateUraian` folded in) | trigger (freeze), ledger | opening a count against postings in flight; which branch of `Batal` | a counted room does not move; its count corrects the balance it was taken of | `PostingStok` |
| *mutasi*, *pemakaian*, *saldo_awal* | document and lines; two-stage approval of *pemakaian* | `Create`, `Update`, `ReplaceDetail`, `Ajukan`, `Setujui`, `Tolak`, `Posting`, `Batal` | ledger, periode, room freeze, catalog, numbers | opposite lock orders, double clicks, an edit that lands after the approval | rows agree with the status; the opening balance comes first; nobody approves his own request | `PostingStok`, `Draf` |
| *pembelian*, *penerimaan_susulan*, *retur_pembelian* | document and lines; `status_penerimaan`, `status_pembayaran` cached on the purchase | `Create`, `Update`, `ReplaceDetail`, `Ajukan`, `Tolak`, `Posting`, `Batal` | ledger; children lock their purchase | child posted while parent is cancelled; two children draw on one quota; cache rebuilt from a stale snapshot | children of a posted purchase only; quotas; cache agrees with the rows | `PostingStok`, `FakturBeli`, `Draf` |
| `pembelian_alokasi`, `numeric` | none (pure) | share out discount, tax and freight, round | pembelian | shares must sum exactly | the stock gets the value of the invoice | `AlokasiBiaya` |
| *pembayaran_utang* | status, `status_giro`, allocations | `Create`, `Update`, `ReplaceAlokasi`, `Posting`, `Batal`, `CairkanGiro`, `TolakGiro` | purchases | two payments against one debt; a giro clears weeks later; lock order over several invoices | never paid beyond what is owed; a cancelled purchase has no posted payment | `FakturBeli`, `PembayaranUtang` |
| *penjualan*, *penerimaan_pembayaran*, *plafon kredit* | notas, payments, their allocations, `status_pembayaran` | drafts, `Posting`, `Batal`, giro, the credit limit at a sale | ledger, pelanggan | two payments of one receivable; two credit sales under one limit | never received beyond what is owed; a limit check that nobody overtook holds | `Piutang` (stock side in `PostingStok`) |
| catalog per shop | `product_unit_kerja` | `SetUnitKerja`; postings read membership `FOR SHARE` | every document | product leaves a catalog while goods arrive | no stock of a product outside the catalog | `Draf` |
| product and its units | `product`, `product_satuan` | `Create`, `Update`, `AddSatuan` | documents | two requests move the default unit | at most one default, and none lost | `SatuanProduk` |
| selling prices | versions with a period | open, correct, remove, sell | penjualan | two changes at once | periods neither overlap nor leave a gap | `HargaJual` |
| `document_counter` | last number per prefix, shop, month | one upsert inside the document's transaction | every document | first number of a month twice; rollback; a shop changes its kode | numbers are unique | `Draf` |
| attachments (`dokumen`) | a file and a row | upload, attach, withdraw, orphan job | file system | crash between file and row | a live row has its file; the job takes orphans only | `Lampiran` |
| auth | refresh tokens, the index of each account, login throttle, all in Redis | login, refresh, logout, change of password, revocation | users | one token presented twice; a crash between two commands | a token is used once; a revocation reaches every token | `Akses`, `Throttle` |
| presensi | a row per shift | check in, check out, correct, sweep | scheduler | check-out against the sweep; midnight | an accepted check-out counts; nobody is marked forgetful without a reason | `Presensi` |
| users, roles, master data | rows, grants | `Create`, `Update` of each | unique indexes | two requests on one row or one text; two sets of grants | the last committed request is what is stored, column by column | `Master` |
| rekonsiliasi, laporan, kesehatan_stok, kartu stok history | none | queries | ledger | dates do not follow the order of rows; arithmetic in two languages | the reports agree with one another and with the ledger | `Laporan` |
| OCR, HTTP, configuration, workers, converters | none | wiring, parsing, an external service | - | - | - | not modelled |

`PROJECT.json` names the files of each component and lists, under `hazards`,
what is hard to test in this code, each at its line with the properties that
would notice.

## 2. The modules

    KunciPg  <-- PostingStok --> PostingBuku ==implements==> BukuStok
       ^              ^               ^
       |              |               +-- MCPosting (instances)
       |              +-- PostingStok_proof
       +-- FakturBeli <-- MCFaktur, FakturBeli_proof
       +-- Draf       <-- MCDraf, Draf_proof
       +-- Piutang    <-- Piutang_proof, ------------+
    MesinSaldo <-- NilaiStok, AlokasiBiaya, Laporan <-+-- MCLayanan <-- MCLayanan_proof
    Lampiran, Presensi, Akses, Throttle <-------------+
    HargaJual, Master, SatuanProduk, PembayaranUtang <+

Theorems are in the modules `<name>_proof`; `Layanan_proof` has those of `Lampiran`,
`Presensi`, `Throttle`, `HargaJual`, `SatuanProduk`, `Master`, `PembayaranUtang` and
`Akses`, `Nilai_proof` those about cents, of `NilaiStok`, `Laporan` and `AlokasiBiaya`, and
`MCLayanan_proof` joins the types of all of these.
What the proofs about transactions share is in `Dasar_proof`: what the lock manager
of `KunciPg` keeps, finite sums, ordered lists.

**`KunciPg`** (external: PostgreSQL, modelled from how the repositories use it).
Transaction-scoped locks, shared or exclusive, with queues: a request that
conflicts with a holder *or with somebody already waiting* queues; `depan[t]` is
who stands ahead of `t`. Locks go all together at COMMIT or ROLLBACK
(`LepasSemua`). The deadlock check is there in both its forms: a circle of
holders makes a victim (`Korban`), a circle that only the order of a queue closes
is resolved by rearranging it (`Susun`). The queue matters: a shared request
waits behind a queued exclusive one, and one finding lives there.

**`PostingStok`**: the stock ledger under concurrent transactions. State and code:

| variable | code |
|---|---|
| `kartu`, `nextId` | committed rows of `kartu_stok`, its identity sequence (drawn values are never given back) |
| `status` | `status` of every document; `BELUM`: an opname not created yet |
| `tutup` | months whose `periode` row is TUTUP |
| `sistem` | `stok_opname_detail.stok_awal`, -1 for no line |
| `pc`, `tugas`, `perlu`, `baris`, `idBaru`, `tulis` | per session: where the transaction is, its request, the locks it has yet to take, the rows it has yet to insert, the identity of the row in hand, the rows it has inserted and not committed |

A transaction walks `dokumen` (row of the document locked) → `kunci` (the locks a
handler takes up front, `kunciJalurStok` and relatives, one request at a time) →
`sisip` (INSERT: identity drawn) → `trg_periode` → `trg_ruang` → `trg_saldo` (the
trigger, one wait each) → `sisip` ... → `akhir` (the last guarded UPDATE, COMMIT).
What differs between handlers is data: `Posting<Kind>(d)` and `Batal<Kind>(d)` give
the guard, the locks, the checks made when they are held, the rows, and the
statuses the final UPDATE accepts. Closing and reopening (`TutupBuku`, `BukaBuku`)
and `BukaOpname` wait for their exclusive lock in `buku` and `opname`.
`TarikSaldo`, `ReplaceDetail`, `Ajukan` and `Tolak` of a count hold one row only and
are one step each, taken when nobody has that row locked.

**`BukuStok`** is the abstract ledger: a balance per product and room, each posting
and each cancellation one atomic step that moves exactly the document's effect,
months and rooms fenced, nothing below zero; no transactions, no locks, no rows.
**`PostingBuku`** maps `PostingStok` to it (a balance is the last committed row of its
pair, the effect of a document the sum of its committed rows).

**`MesinSaldo`** is the arithmetic of the trigger: moving average in
ten-thousandths, values in cents, rounding half up, the refusals. **`NilaiStok`**
runs whole documents through it, one per step (justified by `PostingStok`:
postings of a pair are serial where the pair is locked first).

**`FakturBeli`**: what a purchase still owes and still has coming. `dokumen` is the
committed row of each payment, receipt and return (status, giro, frozen credit);
`statusFaktur`, `bayar`, `terima` are the purchase's status and its two caches. A
transaction walks `dokumen` → (`kunci` ↔ `sisa`, per allocation: lock the purchase,
check what is left) → `ulang` ↔ `tulis` (rebuild the cache) → COMMIT; cancelling a
purchase waits in `faktur`. `RecalculateStatusPembayaran` is two steps because
PostgreSQL makes it two: under READ COMMITTED the statement's snapshot is taken
when it starts, and if it then waits for its row, the subqueries are not
evaluated again. `Putus` is a rollback anywhere: connection lost, process killed,
stock rows refused, deadlock victim. In it nothing persists but what was
committed, which is what a crash means for this program.

**`Draf`**: the paper side of six document types from the first draft on. `dok` is
the committed row of each document with its lines, `nomor` and `kode` the number
series and the text that is printed, `katalog` and `stok` what a posting reads
and moves, `indukPosted` whether the purchase behind a receipt or return stands.
A handler takes its locks one by one (`KunciDok`, `KunciInduk`, `KunciPerlu`),
reads each row when it gets the lock and writes everything at its commit; what
it may write is an operator per handler (`SiapkanMutasi`, `SetujuiPemakaian`, ...),
a set that is empty when the handler refuses. The two-stage approval of a
*pemakaian*, the numbering inside `Create`, the catalog and the change of a unit's
kode run against each other in one behaviour.

**`Piutang`**: sales on credit, `plafon_kredit` and the payments received. The same
two-step rebuild of `status_pembayaran` as in `FakturBeli`, but here the notas and
the payments are also written, edited and re-allocated as drafts. `salinan[t]` is
the row a handler read under its lock and works on; `mulus` holds the sessions
whose limit check no other commit overtook. **`PembayaranUtang`** is the mirror
image for suppliers as far as drafts and giro go; the invoices stand still there,
their returns, cancellation and caches are in `FakturBeli`.

**`AlokasiBiaya`** is `pembelian_alokasi.go`: discount, tax and freight spread over
the lines with the remainder on the largest, then the follow-up receipts that
bring in the rest at the stored cost per unit. Lines without a price are part of
the instance: tax on an invoice of nothing but free goods has no line to go to.

**`Lampiran`** splits every handler of an attachment where the disk and the
database commit apart: `disk` is what the storage holds, `lampiran` the committed
rows, `kerja[p]` what a request knows. A crash may come between any two steps
(`terputus` remembers the rows whose file went without them).

**`Presensi`**: `presensi` is the table, `jam` the server's clock, `tap[p]` what a
request has read. Check-in, check-out, a correction and the sweep are split where
the code reads the clock or a row and acts on it in a later statement.

**`Akses`**: every Redis command of login, refresh, logout and revocation is an
action. `hidup` are the `refresh:<token>` keys, `indeks[u]` the set
`refresh:user:<id>` with its time to live; a request may die between any two
commands. **`Throttle`** is the counter of failed logins, INCR and then EXPIRE.

**`HargaJual`**: the versions of one price under READ COMMITTED: an UPDATE picks its
rows in the snapshot of its start, waits, and asks its condition again.

**`Master`**: eight kinds of rows, their patches (which columns COALESCE and which
store a NULL), their unique indexes over `lower(...)`, the grants of an account.
`diminta` is a history variable: what the committed requests asked for.
**`SatuanProduk`**: the units of one product and the one default among them.

**`Laporan`** reads a ledger that is written row by row in id order, with dates that
need not follow that order, and in which a hand outside the program may change one
stored figure (`rusak`). Each query is an operator.

**`MCLayanan`** runs the components that share no row with one another in one
configuration: `bagian` is chosen in the initial state and never changes, the
others rest. A behaviour of the sum is a behaviour of one component, so a property
of a component holds of the sum exactly when it holds of the component alone;
nothing is claimed about their interleaving, because they have none.

### What is abstracted

- Stock and money are split: `PostingStok` leaves out quotas and payments,
  `FakturBeli` leaves out stock rows. What they share is the protocol on the
  document and purchase rows, and both model it. A payment, receipt or return
  whose stock side is refused is `Putus` in `FakturBeli`.
- One line per product in `PostingStok`; one line per purchase, one supplier and
  whole units in `FakturBeli`. Allocations and lines of a DRAFT are constants; an
  allocation may or may not fit, so the checks at posting do the work.
- Steps between two lock requests are atomic. The first SELECT ... FOR UPDATE, the
  checks after it and the next lock request are separate steps.
- `PostingStok` leaves out catalog rows and numbering, which `Draf` has; `Draf` takes
  the ledger as one balance per room that changes at the commit of a posting.
- In `Draf` quantities are halves of a base unit, so that "not a whole number" can
  happen; in `Piutang` one amount stands for the three header amounts of a nota.
- Redis runs one command at a time; only refresh tokens and the throttle are in it.
- Pieces are integers; formatting, wording, authorisation and audit columns are
  left out.

Definitions marked `Fault:` are not part of any specification: they are what a
plausible bug would turn a definition into (a lock forgotten, a status not
looked at, a cache rebuilt too early, an error return without rollback), and
each property of each passing run is violated once its fault replaces the
original (`PROJECT.json`, `mutants`).

## 3. The runs

Deadlock is checked in every run but `layanan`, where a part whose request or clock
bound is reached really stops. `MaksMulai` and its relatives bound how many
transactions start, `MaksDok` how many documents; at the bound a run of the other
modules may only stutter when every session is idle.

| run | instance | properties | what it shows |
|---|---|---|---|
| `mcposting_mutasi` | 3 sessions, 1 product, 2 rooms, two opposite transfers, the opening balance of the empty room, closings; 5 transactions | `TypeOK`, `RantaiUtuh`, `KartuCocokStatus`, `SaldoAwalPertama`, `TanpaSiklus` | With the locks taken up front the chain is whole in id order, a document's rows agree with its status under double clicks, a transfer cannot slip in before an opening balance, and no circle of waiting arises |
| `mcposting_opname` | a count's whole life, a sale and a transfer that want its room; 5 transactions | `OpnameTidakBergeser`, `PagarRuang`, `ImplementasiBuku` | The freeze holds, so `periksaSaldoBergeser` has nothing to refuse; and all of it implements the serial ledger |
| `mcposting_pembelian` | a posted purchase, its follow-up receipt (month 1), its return, internal use; 2 months; 4 transactions | `IndukTerjaga`, `PagarPeriode` | A child is never posted under a cancelled purchase; a receipt never enters a month closed meanwhile |
| `mcposting_adil` | two purchases in opposite line order, a posted count being cancelled, closings; 3 transactions; `SpecAdil` | `SemuaSelesai` | Every transaction ends, through both kinds of circle |
| `faktur` | 3 sessions, 2 purchases, a payment and a giro over both in opposite order, two receipts of one missing piece, two returns; 3 transactions | `TypeOKFaktur`, `FakturTerjaga`, `KreditTertutup`, `TidakLebihBayar`, `KuotaTerjaga`, `PostingMenyegarkan` | No over-payment, no receipt or return beyond its quota, credits within the total, nothing posted under a cancelled purchase; and a posting or clearing leaves a cache that is right |
| `draf` | a session of unit 1 and a global one, one document of each of six kinds at each stage and a second one to be made; 3 transactions | `TypeOKDraf`, `NomorUnik`, `DisetujuiOrangLain`, `HanyaBatalMembocorkan`, `IsiTerkunci`, `DrafIndukPosted` | Numbers stay unique when a unit changes its kode and transactions roll back; a submitted document keeps what it says; nobody approves his own use; the catalog only leaks through a cancellation |
| `layanan` | 12 components, two requests each (three logins) | see below | each component on its own |
| `mcposting_f2_rantai`, `faktur_f8_cache`, `draf_katalog`, `layanan_presensi`, `layanan_harga` | the smallest instance that shows it | one each | the findings below |

What `layanan` checks, component by component (`TypeOKLayanan` is the type invariant
of all of them, with what the database itself guarantees: unique indexes, the
exclusion constraint of the prices, at most one default unit):

| component | instance | properties |
|---|---|---|
| `Piutang` | 1 customer with a limit of 4, a posted nota of 3 with a giro of 2 against it, a nota and a payment to come; 4 transactions | `PiutangTerjaga`: never more received than owed, a posted payment only on posted credit notas of its customer, headers agree with lines. `PlafonSendiri`: a check nobody overtook keeps the limit. `PenerimaanMenyegarkan`: a posting or clearing leaves the cache right |
| `NilaiStok` | 2 rooms, quantities 1 and 3 at 1 cent, 4 documents and their cancellations | `SelisihTerbatas`: value and `stok * hpp` differ by rounding only, with an explicit bound. `MutasiTerjaga`: a transfer keeps the total, up to the rounding left in a room it empties |
| `AlokasiBiaya` | up to 3 lines, 2 follow-ups each, both ways of sharing freight | `NilaiFakturTersalur`: when everything has come the stock has the value of the invoice and its freight, up to one rounding per receipt |
| `Lampiran` | 2 files, 1 document, one attachment allowed, batches of one | `LampiranTerjaga`: rows and files agree across crashes; the job removes orphans only |
| `Presensi` | 1 person, 2 requests, two days of three moments, 2 rows | `PresensiTerjaga` |
| `HargaJual` | 3 days, 3 versions | `RantaiHargaSatuPenghapus`: no gap as long as removals do not overlap |
| `Akses` | 1 account, lifetime 2, 2 tokens, 2 ticks | `AksesTerjaga` |
| `Throttle` | 1 key, 3 logins, limit 2, window 1 | `JendelaTerpasang` |
| `Master` | one row of each kind and one grant, texts that differ in case only; 2 requests | `PermintaanTerakhir` |
| `SatuanProduk` | 3 units, factors 1 and 2; 3 requests | `BawaanTidakHilang` |
| `PembayaranUtang` | 3 invoices of 2 suppliers, a posted giro, a draft; 3 requests | `AlokasiUtangTerjaga` |
| `Laporan` | 1 product in 3 rooms of 2 units, 3 rows of any two dates, one of them changed by hand | `LaporanTerjaga`: the job reports exactly the rows that were touched; movements, balances, values and lists agree. `StokMatiTetapMati` |

Why the bounds are enough: every hazard here is a race of two handlers over a
fence or a row, and at most three transactions form the circles that occur (two
postings and a closing queued between them). Five starts on three sessions let a
document be posted, cancelled and raced by two others in one behaviour. Quantities
are chosen so that both outcomes of each check occur: a transfer of 2 out of a
room that holds 0, 1 or 2; a payment and a giro that fit alone and not together;
an odd total over two pieces, whose halves both round up; 1 cent over 3 pieces,
which never divides, so that the trigger both writes and refuses; a limit that one
credit sale fits and two do not; half a box that is a whole number of pieces and
half a piece that is none. Sessions are
symmetric in the safety runs, but not in `draf`, where they act for different
units, and not in the liveness run.

**Fairness** (`SpecAdil`): weak fairness of `Langkah(t)` for each session, because a
backend that is not waiting for a lock keeps executing and its handler always
reaches COMMIT or the deferred ROLLBACK; and weak fairness of the deadlock check
of a waiting session, because PostgreSQL runs it after `deadlock_timeout`. Nothing
is assumed about users: `Mulai` and the steps of a count carry no fairness, and
neither does the order in which a queue is granted beyond first come, first
served. No other component promises that something eventually happens: their
requests may die at any point, and the jobs run again a day later.

## 4. Findings

Each has a run in which the model checker shows it.

1. **`mcposting_f2_rantai`: the chain in id order breaks** when a document that does
   not lock the pair first (purchase, follow-up receipt, return) draws an identity,
   waits in the trigger and computes its balance after a row with a larger id
   committed. The next posting reads the wrong last row. `mcposting_mutasi` shows
   the chain whole where every document locks the pair first. The same race would
   put a purchase's row before an opening balance.
2. **`faktur_f8_cache`: `status_pembayaran` can be committed stale**: two payments
   voided at once, or one voided while another is posted, since `Batal` and
   `TolakGiro` do not lock the purchase before the statement that rebuilds the cache
   starts. `status_penerimaan` is rebuilt the same way, and the sales side too.
   `PostingMenyegarkan` and `PenerimaanMenyegarkan` show that the handlers that do
   lock first are immune.
3. **`draf_katalog`: stock outside the catalog.** Posting a transfer or a use reads the
   catalog; `Batal`, which brings the goods back, does not. Once the posting has
   emptied a unit the product may leave its catalog, and a cancellation then leaves
   stock there. `HanyaBatalMembocorkan` shows that this is the only way.
4. **`layanan_presensi`: the sweep after midnight** marks last night's open MALAM shift
   as forgotten while it is still worked; the check-out then finds no open row.
5. **`layanan_harga`: two adjacent price versions deleted at once** leave days without
   a price: each deletion reopens a version the other one removes.
   `RantaiHargaSatuPenghapus` shows that every other overlap is safe.

Seen while modelling, without a run of their own. Four can be reproduced by adding
a definition that the modules keep to an existing configuration:

- Cancelling a posted count takes ruang and saldo before periode
  (`usecase/stok_opname_usecase.go:686`), the trigger takes periode later; 000023
  states the order "periode -> ruang -> (barang, ruang)". With a purchase in flight
  and a closing queued three sessions wait in a circle (`TanpaSiklus` under
  `MCPosting_adil.cfg`). It runs through a queue, so PostgreSQL resolves it after
  `deadlock_timeout`: `mcposting_adil` shows that it ends.
- Two purchases with the same products typed in opposite order deadlock
  (`TanpaDeadlock` under `MCPosting_adil.cfg`), and two payments whose allocations
  were typed in opposite order do too (`TanpaKorban` under `MCFaktur_faktur.cfg`),
  where a comment promises a consistent order.
- Rounding alone can make the trigger refuse an issue of goods that are there
  (`SelaluBisaKeluar` under `MCLayanan.cfg`); the migration says a negative value
  means a broken chain.
- An attachment can be withdrawn although its document has left DRAFT meanwhile,
  because `Hapus` reads the status of the parent without holding its row
  (`BuktiTetap` under `MCLayanan.cfg`; README:695 says only while DRAFT).

The others:

- Cancelling a follow-up receipt or return updates the purchase's row last, after the
  balance locks, and can deadlock with posting one; cancelling a receipt may leave a
  return of goods that no longer count as received, only the stock limits it (hence
  `KuotaTerjaga` speaks of the posting of a return).
- The comment of `document_counter_repository.go:57` and README:380 say a rolled back
  number is given to nobody; the upsert rolls back with it and the number is given
  out again (which is why `NomorUnik` holds).
- The comment at `penerimaan_susulan_usecase.go:700` promises exactly the invoice
  value over several receipts; each receipt rounds (`NilaiFakturTersalur` has the
  bound). And an invoice all of whose lines are free carries its tax nowhere:
  `bagiProporsional` gives zeros for a basis of zeros (`pembelian_alokasi.go:146`). The
  first proof of `NilaiFakturTersalur` failed on that case; the instances had not met it.
- A room retires after reads that hold no lock (`ruang_usecase.go:165`), and no
  document looks at `ruang.is_aktif`; README:1437 speaks of a retired room as empty.
- `RuangRepository.ExistsByKode` excepts no row: a PATCH that repeats a room's own
  kode answers 409, unlike the other kinds (`RuangTerpakai` in `Master`).
- `InsertSatuan` is an upsert: adding a unit the product already has rewrites its
  factor and may drop the default flag (`BawaanTidakHilang` names that case).

## 5. What is proved

Every theorem is for all values of the constants that satisfy the named assumptions
of its module, any number of sessions and requests, and any number of steps. The
assumptions are types, bounds that are natural numbers and, where a behaviour starts
from a history, that the system could have made it: receipts and returns belong to
purchases and open counts agree with their rooms (`AsumsiRiwayat`), the ledger has
every id once, below the sequence, and the rows its documents' statuses say
(`AsumsiKartu`), an opening balance or a count lists a product once and months are ordered
(`AsumsiStok`; the unique indexes `saldo_awal_detail_baris_uidx` and
`stok_opname_detail_unik_uidx`), the notas and
payments there are have not been over-received (`RiwayatPiutang`), nor invoices
overpaid, nor payments stored that the CHECKs refuse (`RiwayatUtang`), the documents
there are have different numbers and only uses are approved (`RiwayatDraf`), the
posted receipts there are fit what was billed (`RiwayatFaktur`), the master rows
there are respect their unique indexes and NOT NULL columns and every grant belongs
to an account (`AsumsiMaster`), and the credit notas there are name a customer
(`AsumsiPiutang`). TLC evaluates them in every run. Each is proved from an inductive invariant:
Init implies it, each action preserves it (one step per action), and it implies the
property.

| theorem | says | inductive invariant |
|---|---|---|
| `PostingStok_proof!TipeBenar` | `Spec => []TypeOK`; no committed balance is negative | `IInv` |
| `PostingStok_proof!PeriodeTerpagar` | `Spec => PagarPeriode` | `IInv` |
| `PostingStok_proof!RuangTerpagar` | `Spec => PagarRuang` | `IInv` |
| `PostingStok_proof!OpnameSelaluTetap` | `Spec => []OpnameTidakBergeser` | `JInv`, relative to `IInv` |
| `PostingStok_proof!IndukSelaluTerjaga` | `Spec => []IndukTerjaga` | `JInv`, relative to `IInv` |
| `PostingStok_proof!KartuSelaluCocok` | `Spec => []KartuCocokStatus` | `KInv`, relative to `JInv` |
| `PostingStok_proof!RantaiSelaluUtuh` | `TerkunciDulu` => (`Spec /\ RantaiUtuh => []RantaiUtuh`) | `RantaiInv`, relative to `SInv` |
| `PostingStok_proof!SaldoAwalSelaluPertama` | `TerkunciDulu` => (`Spec /\ SaldoAwalPertama => []SaldoAwalPertama`) | `AwalInv`, relative to `SInv` |
| `PostingStok_proof!BukuTerlaksana` | `TerkunciDulu` => (`Spec => ImplementasiBuku`) | `BukuInv`, relative to `SInv` |
| `PostingStok_proof!TidakPernahMelingkar` | `TerkunciDulu` => (`Spec /\ []TanpaBatalHitungan => [](TanpaSiklus /\ TanpaDeadlock)`) | `UInv`, relative to `SInv` |
| `PostingStok_proof!TanpaHitunganTidakMelingkar` | `TerkunciDulu`, no count => (`Spec => [](TanpaSiklus /\ TanpaDeadlock)`) | `UInv`, relative to `SInv` |
| `FakturBeli_proof!FakturSelaluTerjaga` | `Spec => []FakturTerjaga` | `IInv` |
| `FakturBeli_proof!TidakPernahLebihBayar` | `Spec => TidakLebihBayar` | `IJumlah` |
| `FakturBeli_proof!KreditSelaluTertutup` | `Spec => []KreditTertutup` | `IJumlah` |
| `FakturBeli_proof!KuotaSelaluTerjaga` | `Spec => KuotaTerjaga` | `IJumlah` |
| `FakturBeli_proof!PostingSelaluMenyegarkan` | `Spec => PostingMenyegarkan` | `IJumlah` |
| `FakturBeli_proof!TipeFaktur` | `Spec => []TypeOKFaktur` | `IJumlah` |
| `Piutang_proof!PiutangSelaluTerjaga` | `SpecPiutang => []PiutangTerjaga` | `IInv` |
| `Piutang_proof!PlafonSelaluSendiri` | `SpecPiutang => PlafonSendiri` | `IInv` |
| `Piutang_proof!PenerimaanSelaluMenyegarkan` | `SpecPiutang => PenerimaanMenyegarkan` | `SegarInv` |
| `Draf_proof!TipeDraf` | `SpecDraf => []TypeOKDraf`; no balance is negative | `IInv` |
| `Draf_proof!NomorSelaluUnik` | `SpecDraf => []NomorUnik` | `IInv` |
| `Draf_proof!SelaluOrangLain` | `SpecDraf => []DisetujuiOrangLain` | `IInv` |
| `Draf_proof!SelaluHanyaBatal` | `SpecDraf => []HanyaBatalMembocorkan` | `IInv` |
| `Draf_proof!IsiSelaluTerkunci` | `SpecDraf => IsiTerkunci` | `IInv`, `Melangkah` |
| `Draf_proof!SelaluIndukPosted` | `SpecDraf => DrafIndukPosted` | `IInv`, `Melangkah` |
| `Layanan_proof!JendelaSelaluTerpasang` | `SpecThrottle => []JendelaTerpasang` | `IThrottle` |
| `Layanan_proof!LampiranSelaluTerjaga` | `SpecLampiran => []LampiranTerjaga` | `ILampiran` |
| `Layanan_proof!PresensiSelaluTerjaga` | `SpecPresensi => []PresensiTerjaga` | `IPresensi` |
| `Layanan_proof!RantaiHargaSelaluUtuh` | `SpecHarga => []RantaiHargaSatuPenghapus` | `IHarga` |
| `Layanan_proof!TipeHargaSelalu` | `SpecHarga => []TypeOKHarga`; no two periods overlap | `IHarga` |
| `Layanan_proof!BawaanTidakPernahHilang` | `SpecProduk => BawaanTidakHilang` | `IProduk` |
| `Layanan_proof!SatuanDasarSelaluAda` | `SpecProduk => []SatuanDasarAda` | `IProduk` |
| `Layanan_proof!PermintaanSelaluTerakhir` | `SpecMaster => []PermintaanTerakhir` | `IMaster` |
| `Layanan_proof!KunciSelaluUnik` | `SpecMaster => []KunciUnik` | `IMaster` |
| `Layanan_proof!AlokasiUtangSelaluTerjaga` | `SpecUtang => []AlokasiUtangTerjaga` | `IUtang` |
| `Layanan_proof!AksesSelaluTerjaga` | `SpecAkses => []AksesTerjaga` | `IAkses` |
| `Nilai_proof!SelisihSelaluTerbatas` | `SpecNilai => []SelisihTerbatas` | `TerjagaNilai` |
| `Nilai_proof!MutasiSelaluTerjaga` | `SpecNilai => MutasiTerjaga` | `TerjagaNilai` |
| `Nilai_proof!FakturSelaluTersalur` | `SpecAlokasi => []NilaiFakturTersalur` | `IAlokasi` |
| `Nilai_proof!LaporanSelaluTerjaga` | `SpecLaporan => []LaporanTerjaga` | `LedgerInv` |
| `Nilai_proof!StokMatiSelaluMati` | `SpecLaporan => StokMatiTetapMati` | `LedgerInv` |
| `MCLayanan_proof!TipeSelaluBenar` | `SpecLayanan => []TypeOKLayanan` | one per service |

`Dasar_proof` proves what the lock manager keeps (`Eksklusif`: no two sessions
hold conflicting locks; `AntreanUrut`: waiters of one key are ordered, which is
what makes `LepasSemua` grant no conflicting pair), for any kinds of requests; the
proofs about transactions rest on it. It also has the sums and lists they need:
that the fold over a finite set adds up (`Jml`: one element more, one changed,
pointwise comparison, a set cut in two, a double sum in either order) and that rows locked `ORDER BY id` are each there once. These
are inductions over the size of a set, done by the least counterexample, since the
induction rules of the library take an operator.

**The fences.** Neither is inductive. At COMMIT nothing is looked at again: a row was
checked when its trigger ran, perhaps long ago. `IInv` says why it is still right:
every row inserted and not committed is *covered* (`Terlindung`) by the shared
periode and ruang locks its trigger took, its month is open and its room is
counted by nobody else; and the steps that could change that, closing a month and
opening a count, hold the same keys exclusively, which `Eksklusif` makes
impossible. `InvSesi` carries the same facts for the row that is between the
trigger's waits. `AwalBenar` proves Init => IInv, `Induktif` one step per action,
`InvarianBenar` puts them together. Cancelling a posted count, which takes its
locks in the wrong order, is covered too: the order costs time, not safety.

**A count, and a purchase with its receipts.** `JInv` says of each session what it
knows of its document (`InvDok`). A count's frozen balances stay right because a
row about to be committed is covered in the sense of `IInv`: its room is counted
by nobody but the document that is being posted, which this COMMIT closes; for a
count just created because it has no lines yet, and only one session creates it.
A POSTED receipt or return keeps its purchase POSTED although the posting checks
the purchase's status and the cancellation checks for receipts, each long before
its COMMIT: both hold the purchase's row from before the check to the COMMIT, so
what the other checked cannot have changed in between. The cancellation of a
receipt or return does not lock the purchase first; it only removes what would
stand in the way.

**The ledger against its documents.** `KartuCocokStatus` compares the rows of a
document with its status. `KInv` follows the rows from the plan to the COMMIT: what a
transaction has inserted and what it has left to insert are together what has to be
written (`InvTulis`, by content and by number), nobody else changes what has to be
written while the session holds the document, and an id is drawn once and names one
row (`IdTerpisah`), so a row inserted is never one that is there. At the COMMIT
nothing is left, and the document's rows are the plan's: its lines, or one reversal
for each of them (`Balikan`, a bijection by the id reversed). A count has no rows
while it is open, whatever its lines say.

**The chain of balances.** `RantaiUtuh` is false in general (finding `f2`): the id of
a row is drawn before the trigger waits for the pair. `TerkunciDulu` excludes the
documents that leave the pair to the trigger, and is a condition on the documents,
not on what the sessions do. Then `SInv` holds: from the first insert a session
holds the pair of every row it writes and has to write (`KunciLengkap`: the list of
locks covers the plan, of a posting and of a reversal), hence an id it draws is
above those of all rows of the pair, committed or its own (`BarisTriggerBenar`), and
no commit of another session touches the pair. The row the trigger computes
continues the chain (`RantaiTambah`), and a commit joins chains of different pairs
(`RantaiGabung`). For an opening balance `SInv` adds that its pairs are empty from
`periksaBelumPernahBergerak` to its insert; a product being on the document once,
its own rows do not stand in each other's way. Both theorems start from a ledger of
which the property holds, since one that purchases have already broken stays broken.

**The serial ledger.** `BukuTerlaksana` is the refinement: the balance of a pair in
`BukuStok` is that of its last committed row, and every step of `PostingStok` is one
step of `BukuStok` or none. Only a COMMIT is one (and the closing or opening of a
month or of a count's room). `BukuInv` says of every session what its COMMIT will do:
with its rows the balance of a pair is the committed one and what its rows move
(`Neto`). It is kept because the row the trigger computes starts from the last
balance of a pair the session holds, so no other COMMIT can come in between
(`SInv`); without that, as with a purchase, two sessions would both start from the
same balance. Three facts remain to be shown at the COMMIT. The rows move what the
document says: what is written is what was planned (`KInv`), and a plan is the
document's effect, kind by kind, or the negation of what its rows moved when it is a
cancellation. The months are open and the rooms counted by nobody else: every row is
covered (`Terlindung`, from `IInv`). And no balance falls below zero: the trigger
refused the row that would have done it. A count's rows correct what it found, not
what is there when it is posted; that the two are the same is `JInv`.

**The order of the locks.** `UInv` says that a session waits for a key that comes after
every key it holds, in the order document, month, room, pair; that what it has still
to ask for comes later; and that by the time it writes it holds the months and rooms
of all its rows, so that the trigger, which asks again in an order of its own, waits
for nothing. It also says that a queue has an order (`AntreanLurus`): who stands
ahead of whom is transitive, which rearranging a queue keeps. Then whoever is waited
for waits, if at all, for a later key or further ahead in the same queue, so
following the waits always goes up and never comes back (`UrutBebas`,
`TanpaLingkar`). Two things are excluded, and each makes a circle that TLC finds:
purchases, receipts and returns leave the pair to the trigger, one row at a time
(`TerkunciDulu`), and the cancellation of a posted count leaves the month to it
(`TanpaBatalHitungan`, a condition on the behaviour: such a count may be posted, but
not cancelled). Without counts the second condition always holds. A draft count can
be cancelled, posted and frozen at will.

**A purchase with its payments.** The same argument for `FakturBeli`, where a payment
checks several purchases one after the other: `InvSesi` says of each allocation
that it is still to be checked or that its purchase was seen POSTED and is held
(`Dijaga`); a giro that clears and every cancellation of a document need no such
fact, since the document was POSTED when it was locked.

**What a purchase is owed and still has coming.** `IJumlah` adds to `IInv` the amounts.
Its heart is `Setara`: two states of the documents say the same of a purchase when
every row that points at it is the same, or is open in both. All sums of a purchase
depend on nothing else (`SetaraSama`), and whoever commits a row that counts holds
every purchase the row points at, since it rebuilt their caches (`SelesaiTenang`).
So a session that holds a purchase may go on believing what it read: what was left
for its document (`Terjamin`), the credit it froze (`RekamTetap`: its own row apart,
the other returns of the purchase), and the value its UPDATE computed before it
waited for the row (`TulisanBenar`). Only for `Menerima`, a posting or a clearing, are
the last two claimed: a cancellation does not lock the purchase before its snapshot,
which is finding `f8`. At the COMMIT a sum over all documents changes by what the one
document adds (`JumlahPisah`, `KreditPisah`), and that fits.

**Receivables.** `PiutangTerjaga` says that no nota takes in more than it is worth; the
check of a payment is long over when it commits. `InvSesi` of `Piutang_proof` says of
every allocation checked so far that its nota is held and still has room for it
(`Dijaga`). Nobody else can use that room up: what the effective payments take of a
nota is a sum (`Guna`), and whoever makes a term of it larger holds the nota too.
Edits of a draft go through the same rows, so a header agrees with its lines. For
the limit, `MulusBenar` says that a session in `mulus` could still post within it:
any commit that raises a debt takes the others out of `mulus`, and every other step
leaves the debt of each customer where it is or lowers it (`Turun`). That a posting or
clearing leaves the cache right is `SegarInv`: each nota it points at is still to be
gone through or already rewritten, and what it read there stays what its own transition
makes of it, since whoever changes what counts against a nota holds that nota.

**Drafts.** `IInv` of `Draf_proof` says of the rows what the properties say, and that no
counter is behind a number of its series (`HitungDiAtas`); and of each session what
it has locked, or still asks for, before it does what it was asked to: its
document's row and what it read there (`Terkunci`), the row of its number series
(`SeriBenar`), the purchase (`IndukBenar`), the memberships in the catalog of what it
brings in (`MasukBenar`) and of what it takes out (`CabutBenar`). Each step only
changes what its session has locked (`Aman`), hence the others may go on believing
what they read; per commit it is left to show that the rows are right afterwards.
That a series is drawn from and committed under one lock is why numbers are unique;
that a removal from the catalog holds the membership exclusively while it looks
for stock, and a posting shares it until it commits, is why only a cancellation,
which asks for no membership, leaks. `Melangkah` says where a document may go in one
step, from which the two action properties follow.

**Attachments.** `BerkasSepadan` speaks of committed rows; between the removal of a
file and the mark in its row it depends on who is in between. `ILampiran` adds
that two requests never hold one row (`SatuPemegang`) and what a request knows of
its file between two of its steps (`Tahu`): an upload's row does not exist yet, a
row to be marked is still live and its file is gone. Crashes only move a file into
`terputus`.

**Attendance.** `IPresensi` adds to the property what a request carries from one
statement to the next (`TipeTap`: a check-in that marked an earlier row carries the
id of a row of its own user; a sweep's date is not after today) and the unique
indexes (`SahPresensi`), from which it follows that a row marked by a refused
check-in is given back.

**Tokens.** `SekaliPakai` counts heirs; it is not inductive, because GETDEL removes
the key long before the new token exists. `IAkses` says that the one request
that carries a spent token is the only one (`SatuPenerus`, `TokenSesi`).
`IndeksCakup` needs times: the index must live at least as long as each token in
it (`Terindeks`), which EXPIRE restores because nothing outlives one lifetime from
now (`UmurTerbatas`).

**The throttle.** A counter above zero without an end is owed its EXPIRE by the login
that created it; the invariant is the property and its types.

**The price list.** `IHarga` says that a version is held by one transaction at a
time (`SatuPemegangVersi`), that what a transaction has written and not committed is
still what it read (`SesiHarga`), and of a removal between its reading and its
reopening that the version it will reopen is the one that ends where the removed one
began (`SebelumnyaDitemukan`). The last holds only while no other removal runs
(`SatuPenghapus`): two that overlap, each on its own version, are what `bertabrakan`
records. An opening beside a removal does no harm: its insert meets the exclusion
constraint and waits.

**The units of a product.** Two requests may both see a default to clear. `IProduk` says
that of the requests about to commit one at most carries the flag, and that the rows
it clears are all that carry it then, since the unique index makes the second one
wait for the first. So a commit takes the default away only by storing its own row
without it.

**Master rows.** A patch is computed over the row as it is when the UPDATE gets it
(`Tertimpa`), and until the commit nobody else writes the row: two requests that have
written never hold the same row or equal keys (`Berbeda`). So what a request has
written is still its patch over the committed row (`Sesuai`), and what it deletes and
inserts of an account's grants is still the difference to those there. A new row is
compared with those committed before it waits for those written (`BedaTersimpan`,
`Berbeda`), which is why the index holds although the check before it is a plain read.

**Payments to suppliers.** Again a check long before its COMMIT. `IUtang` says that one
session works on a payment and one has an invoice locked (`SendiriUtang`), that whoever
works on a payment knows its row as it is, and that of each allocation of a payment to
be posted or cleared either the invoice is still to be asked or it is locked and has
the amount left, the payment itself apart (`TersediaUtang`). The writes of others leave
that amount alone: only a posting and a clearing make money count, and only on
invoices they have locked (`TulisLama`). Drafts may promise the same money many times;
they count for nothing until they are asked again.

**The value of the stock.** `SelisihTerbatas` speaks of the last row of a room, and how
far that may be off depends on how long ago the average was computed.
`TerjagaNilai` makes the bound a property of every row (`BarisBaik`): a row in
computes the average anew and is off by the rounding of one division, half a
ten-thousandth per piece; a row out keeps the average and adds half a cent
(`MasukBaik`, `KeluarBaik`). That a posted row is never rewritten does the rest. The
same bound is what a transfer may lose: out and in carry one value, so the sum over
the rooms (`JmlDua`) moves only when the last piece leaves and the trigger writes 0
for what rounding had left.

**The value of an invoice.** `Tersalur` says of a posted invoice that there is a
worth `p` of each line, adding up to the invoice and the freight its lines carry
(`PenuhBenar`, from `BagiBenar`: a share and its remainder add up to what is shared,
whatever the basis), and that each line is straight (`Lurus`): its stored cost is the
rounded `p` per piece, and its rows are worth what has come of `p`, up to half a cent
per row and half a unit of the stored cost per piece received. Receipts keep a line
straight (`LurusSusul`); when all has come the bound is that of the property, and a
line that came at once has exactly `p`, since a division of a product of its divisor
needs no rounding (`BulatTandaTepat`).

**What is read back.** `LedgerInv` says that on a ledger with no row changed by hand
every row is what the job expects after the row before it (`CocokDengan`), that of one
changed row it is the first that is not, and that the rows that deviate after it are
of its product and room. A row written later is computed from the stored last row,
right or wrong, which is why the job does not report it too (`BarisBenar`). For the
reports it says that in minus out over all rows of a pair is the last stored balance
(`ArusBaik`); a sum over rows does not ask for their dates, so a cut at any day gives
the balance back, and rooms and products can be summed in either order (`JmlTukar`).
Dead stock stays dead because a reversal and a transfer inside the unit are neither
demand nor arrival (`BukanGerak`) and a transfer leaves the unit's total where it was
(`TotalTetap`).

**The types of the services.** A behaviour of `MCLayanan` is one of the service its
initial state picks (`BagianTetap`), so `TypeOKLayanan` is twelve theorems, one per
service, joined. A type that also names a CHECK or an index is seldom inductive: what
is written at COMMIT was put together steps before. Most of the invariants above already
say it of what a session carries; the others get one of their own. `TipePiutang` says
what each session carries where it is (the list it goes through holds allocations, then
notas) and that a credit nota has a customer. `TipeUtang` and `TipeIsi` say that what a
request would write satisfies the columns of its table, `LaporanSah` that a row reverses
an older one or none, and `TipeUtang`, `LaporanSah` and `DokumenTerbatas` that no more
rows are stored than the bound names, in `TipeUtang` with those about to be inserted.

**Only model-checked.** Of `PostingStok`: `TanpaSiklus`, `RantaiUtuh`,
`SaldoAwalPertama` and `ImplementasiBuku` are proved where every handler takes its
locks before it writes. Outside that condition all four are false (§4): TLC refutes
`TanpaSiklus` under `MCPosting_adil.cfg`, `RantaiUtuh` and `ImplementasiBuku` under
`MCPosting_f2_rantai.cfg`, and an opening balance and a purchase race for the first
row of a pair in the same way.
Of the services nothing is: every invariant and action property of their runs is a
theorem.

**Out of the prover's reach.** Liveness under fairness (`SemuaSelesai`) and `ENABLED`;
induction over data whose step is an operator, hence what a fold over a sequence
computes for every input. Sums over finite sets are inductions too, and are proved
by their least counterexample (`Dasar_proof`).

## 6. Not modelled, and why

- OCR of invoices: a stateless call to an external service and the parsing of text.
- HTTP delivery, configuration, wiring, scheduling, converters: they hold no state;
  transactions live in the use cases. Authorisation is a check at the door.
- Of products: barcodes and searches. Of purchases: the price history offered to a
  form. Of reads: gross profit, the POS catalog and the weights of the health score
  (its inputs are in `Laporan`). None of them writes.
- Of auth: which grant a login activates and the signing of access tokens.
- Of a count: `UpdateDetail` is folded into the count a document carries, and
  `UpdateUraian` changes only wording.
- PostgreSQL beyond locks, snapshots of a statement and constraints; Redis beyond
  single commands.

## 7. What is left

The components of the inventory that keep state are modelled. What would add most
from here is proof rather than model:

1. An abstract account (debt, paid, credit) that `FakturBeli` and `Piutang` implement.
2. `PostingBuku` with purchases: a weaker ledger that admits what finding `f2` allows.
