-------------------------- MODULE PembayaranUtang --------------------------
(***************************************************************************)
(* Payments to suppliers from their first draft to a giro that clears or   *)
(* bounces: Create, Update, ReplaceAlokasi, Posting, Batal, CairkanGiro,   *)
(* TolakGiro.  Each handler but Create locks its payment and works on the  *)
(* row as it read it then; whoever allocates, posts or clears locks each   *)
(* invoice before asking what is left of it.                               *)
(*                                                                         *)
(* The invoices stand still here: how they are returned and cancelled, and *)
(* hitungUlangUtang, which rewrites their caches, belong to FakturBeli.    *)
(***************************************************************************)
EXTENDS Integers, Sequences, FiniteSets, SequencesExt, FiniteSetsExt

CONSTANTS Kasir,            \* requests running at once
          FakturUtang,      \* [invoice -> [supplier, status, total, kredit]]
          UtangAwal,        \* payments there are to begin with
          IsianUtang,       \* [supplier, metode, jumlah, alokasi] of a Create
          AlokasiUtang,     \* the allocations of a ReplaceAlokasi
          JumlahBaru,       \* the amounts of an Update
          MaksUtang,        \* bound: payments
          MaksKerja         \* bound: requests begun

BarisAlokasiUtang == [faktur : DOMAIN FakturUtang, jumlah : Nat \ {0}]

ASSUME AsumsiUtang ==
  /\ IsFiniteSet(Kasir)
  /\ JumlahBaru \subseteq Nat \ {0} /\ MaksUtang \in Nat /\ MaksKerja \in Nat
  /\ \A f \in DOMAIN FakturUtang : FakturUtang[f].total \in Nat /\ FakturUtang[f].kredit \in Nat
  /\ \A q \in AlokasiUtang : q \in Seq(BarisAlokasiUtang)
  /\ \A i \in IsianUtang : i.alokasi \in Seq(BarisAlokasiUtang) /\ i.jumlah \in Nat \ {0}

TotalUtang(q) == FoldSeq(LAMBDA a, n : a.jumlah + n, 0, q)

\* What the payment b takes of the invoice f, when its money counts: the one
\* row that it has there (SahUtang).
GunaUtang(b, f) ==
  IF b.status = "POSTED" /\ b.giro \in {"TANPA", "CAIR"}
  THEN SumSet({a.jumlah : a \in {x \in ToSet(b.alokasi) : x.faktur = f}}) ELSE 0

\* SumAlokasiEfektifKecuali: everybody but the payment d.
TerpakaiUtang(U, f, d) == MapThenSumSet(LAMBDA e : GunaUtang(U[e], f), DOMAIN U \ {d})

\* What the table holds: one row per invoice (pembayaran_utang_alokasi_baris_uidx).
SahUtang(b) ==
  /\ b = [supplier |-> b.supplier, giro |-> b.giro, jumlah |-> b.jumlah,
          dialokasikan |-> b.dialokasikan, status |-> b.status, alokasi |-> b.alokasi]
  /\ b.alokasi \in Seq(BarisAlokasiUtang)
  /\ \A i, j \in DOMAIN b.alokasi : b.alokasi[i].faktur = b.alokasi[j].faktur => i = j

\* The checks of its columns.
KolomUtang(b) ==
  /\ b.status \in {"DRAFT", "POSTED", "BATAL"}
  /\ b.giro \in {"TANPA", "BELUM_CAIR", "CAIR", "TOLAK"}
  /\ b.jumlah \in Nat \ {0} /\ b.dialokasikan \in 0..b.jumlah

TerjagaUtang(U) ==
  /\ \A d \in DOMAIN U : U[d].dialokasikan = TotalUtang(U[d].alokasi)
  /\ \A f \in DOMAIN FakturUtang :
       TerpakaiUtang(U, f, 0) + FakturUtang[f].kredit <= FakturUtang[f].total

ASSUME RiwayatUtang ==
  /\ UtangAwal \in Seq({UtangAwal[d] : d \in DOMAIN UtangAwal})
  /\ \A d \in DOMAIN UtangAwal : SahUtang(UtangAwal[d]) /\ KolomUtang(UtangAwal[d])
  /\ Len(UtangAwal) <= MaksUtang
  /\ TerjagaUtang(UtangAwal)

VARIABLES utang,        \* pembayaran_utang with their allocations, as committed
          bayaran,        \* [Kasir -> its open transaction]
          jumlahKerja   \* requests begun

varsUtang == <<utang, bayaran, jumlahKerja>>

SebelumKerja ==
  [langkah |-> "diam", aksi |-> "tiada", id |-> 0, baris |-> <<>>, mau |-> <<>>, sisa |-> <<>>,
   faktur |-> {}]

InitUtang ==
  utang = UtangAwal /\ bayaran = [s \in Kasir |-> SebelumKerja] /\ jumlahKerja = 0

\* A giro starts BELUM_CAIR, anything else has no status_giro.
BarisUtang(i) ==
  [supplier |-> i.supplier, giro |-> IF i.metode = "GIRO" THEN "BELUM_CAIR" ELSE "TANPA",
   jumlah |-> i.jumlah, dialokasikan |-> 0, status |-> "DRAFT", alokasi |-> <<>>]

\* No invoice twice in one request; the total is bounded from above only.
SahAlokasiUtang(q, jumlah) ==
  /\ \A a, b \in DOMAIN q : q[a].faktur = q[b].faktur => a = b
  /\ TotalUtang(q) <= jumlah

MulaiUtang(s, aksi, id, baris, mau) ==
  /\ bayaran[s] = SebelumKerja /\ jumlahKerja < MaksKerja /\ jumlahKerja' = jumlahKerja + 1
  /\ bayaran' = [bayaran EXCEPT ![s] =
                 [SebelumKerja EXCEPT !.langkah = IF id = 0 THEN "sisa" ELSE "kunci", !.aksi = aksi,
                                      !.id = id, !.baris = baris, !.mau = mau, !.sisa = mau]]
  /\ UNCHANGED utang

CreateUtang(s) ==
  \E i \in IsianUtang :
    /\ Len(utang) + Cardinality({t \in Kasir : bayaran[t].aksi = "buat"}) < MaksUtang
    /\ MulaiUtang(s, "buat", 0, BarisUtang(i), i.alokasi)

UpdateUtang(s, d) == \E n \in JumlahBaru : MulaiUtang(s, "ubah", d, [jumlah |-> n], <<>>)
ReplaceAlokasi(s, d) == \E q \in AlokasiUtang : MulaiUtang(s, "alokasi", d, <<>>, q)
PindahUtang(s, d) ==
  \E a \in {"posting", "batal", "cair", "tolak"} : MulaiUtang(s, a, d, <<>>, <<>>)

BatalKerja(s) == bayaran' = [bayaran EXCEPT ![s] = SebelumKerja] /\ UNCHANGED <<utang, jumlahKerja>>

(***************************************************************************)
(* The locks.                                                              *)
(***************************************************************************)
\* Fault: LockByID without FOR UPDATE.
PemegangTiada(s, d) == {}

\* The transactions that hold the row of the payment d.
PemegangUtang(s, d) ==
  {t \in Kasir \ {s} : bayaran[t].id = d /\ bayaran[t].langkah = "sisa"}

\* kunciDenganStatus, kunciGiroBelumCair.
BolehUtang(aksi, b) ==
  /\ b.status = IF aksi \in {"ubah", "alokasi", "posting"} THEN "DRAFT" ELSE "POSTED"
  /\ aksi \in {"cair", "tolak"} => b.giro = "BELUM_CAIR"

\* An Update is refused below what the row it read has allocated already; a
\* posting and a clearing look at every stored allocation again.
KunciUtang(s) ==
  LET k == bayaran[s]
      b == utang[k.id]
      boleh == BolehUtang(k.aksi, b) /\ (k.aksi = "ubah" => k.baris.jumlah >= b.dialokasikan) IN
  /\ k.langkah = "kunci" /\ PemegangUtang(s, k.id) = {}
  /\ \/ /\ boleh
        /\ bayaran' = [bayaran EXCEPT
             ![s].langkah = "sisa",
             ![s].baris = IF k.aksi = "ubah" THEN [b EXCEPT !.jumlah = k.baris.jumlah] ELSE b,
             ![s].sisa = IF k.aksi \in {"posting", "cair"} THEN b.alokasi ELSE k.mau]
        /\ UNCHANGED <<utang, jumlahKerja>>
     \/ ~boleh /\ BatalKerja(s)

CukupUtang(b, d, a) ==
  LET f == FakturUtang[a.faktur] IN
  /\ f.status = "POSTED" /\ f.supplier = b.supplier
  /\ a.jumlah <= f.total - TerpakaiUtang(utang, a.faktur, d) - f.kredit

\* One row of periksaSisaUtang: the invoice is locked before it is asked.
PeriksaSisaUtang(s) ==
  LET k == bayaran[s]
      a == Head(k.sisa) IN
  /\ k.langkah = "sisa" /\ k.sisa # <<>>
  /\ \A t \in Kasir \ {s} : a.faktur \notin bayaran[t].faktur
  /\ \/ /\ CukupUtang(k.baris, k.id, a)
        /\ bayaran' = [bayaran EXCEPT ![s].sisa = Tail(@), ![s].faktur = @ \cup {a.faktur}]
        /\ UNCHANGED <<utang, jumlahKerja>>
     \/ ~CukupUtang(k.baris, k.id, a) /\ BatalKerja(s)

(***************************************************************************)
(* The writes.                                                             *)
(***************************************************************************)
\* DeleteAlokasi removes the rows this transaction saw, InsertAlokasi adds
\* its own, RecalculateDialokasikan sums what this transaction sees; the
\* columns go to the row as it is by then.
TulisAlokasiUtang(k, b) ==
  [b EXCEPT !.alokasi = SetToSeq(ToSet(b.alokasi) \ ToSet(k.baris.alokasi)) \o k.mau,
            !.dialokasikan = TotalUtang(k.mau)]

HasilUtang(k) ==
  CASE k.aksi = "buat"    -> TulisAlokasiUtang(k, k.baris)
    [] k.aksi = "ubah"    -> [utang[k.id] EXCEPT !.jumlah = k.baris.jumlah]
    [] k.aksi = "alokasi" -> TulisAlokasiUtang(k, utang[k.id])
    [] k.aksi = "posting" -> [utang[k.id] EXCEPT !.status = "POSTED"]
    [] k.aksi = "batal"   -> [utang[k.id] EXCEPT !.status = "BATAL"]
    [] k.aksi = "cair"    -> [utang[k.id] EXCEPT !.giro = "CAIR"]
    [] k.aksi = "tolak"   -> [utang[k.id] EXCEPT !.giro = "TOLAK"]

\* tulisAlokasi's own total, execTransisi's WHERE, pembayaran_utang_alokasi_
\* check and pembayaran_utang_alokasi_baris_uidx.
DiterimaUtang(k) ==
  LET h == HasilUtang(k) IN
  /\ k.aksi \in {"buat", "alokasi"} => SahAlokasiUtang(k.mau, k.baris.jumlah)
  /\ k.aksi \in {"posting", "batal", "cair", "tolak"} => BolehUtang(k.aksi, utang[k.id])
  /\ h.dialokasikan <= h.jumlah
  /\ \A a, b \in DOMAIN h.alokasi : h.alokasi[a].faktur = h.alokasi[b].faktur => a = b

\* The statements and COMMIT; nobody else sees the row between them.
TulisUtang(s) ==
  LET k == bayaran[s] IN
  /\ k.langkah = "sisa" /\ k.sisa = <<>>
  /\ \/ /\ DiterimaUtang(k)
        /\ utang' = IF k.id = 0 THEN Append(utang, HasilUtang(k))
                    ELSE [utang EXCEPT ![k.id] = HasilUtang(k)]
        /\ bayaran' = [bayaran EXCEPT ![s] = SebelumKerja] /\ UNCHANGED jumlahKerja
     \/ ~DiterimaUtang(k) /\ BatalKerja(s)

\* A deadlock's victim, a lost connection, a crash.
PutusUtang(s) == bayaran[s] # SebelumKerja /\ BatalKerja(s)

NextUtang ==
  \E s \in Kasir :
    \/ CreateUtang(s) \/ KunciUtang(s) \/ PeriksaSisaUtang(s) \/ TulisUtang(s) \/ PutusUtang(s)
    \/ \E d \in DOMAIN utang : UpdateUtang(s, d) \/ ReplaceAlokasi(s, d) \/ PindahUtang(s, d)

SpecUtang == InitUtang /\ [][NextUtang]_varsUtang

(***************************************************************************)
(* Properties.                                                             *)
(***************************************************************************)
TypeOKUtang ==
  /\ \A d \in DOMAIN utang :
       /\ KolomUtang(utang[d])
       /\ \A a \in ToSet(utang[d].alokasi) : a.faktur \in DOMAIN FakturUtang /\ a.jumlah \in Nat \ {0}
  /\ jumlahKerja \in 0..MaksKerja /\ Len(utang) <= MaksUtang

\* jumlah_dialokasikan is the sum of the payment's rows whatever edits of the
\* draft overlap, and the payments that count never take more of an invoice
\* than its returns leave, drafts of long ago and late giro included.
AlokasiUtangTerjaga == TerjagaUtang(utang)
=============================================================================
