---------------------------- MODULE AlokasiBiaya ----------------------------
(***************************************************************************)
(* What an invoice costs, line by line: freight, discount and tax are      *)
(* spread over the lines when a purchase is posted, the goods that came    *)
(* enter the stock with their part, and what is missing enters later at    *)
(* the cost per unit the posting stored.  Money is in cents, koli in       *)
(* hundredths, cost per unit in hundredths of a cent.                      *)
(***************************************************************************)
EXTENDS MesinSaldo, Sequences, FiniteSetsExt

CONSTANTS BarisFaktur,     \* lines: [qty, datang, subtotal, koli]
          KepalaFaktur,    \* [diskon, ppn, kredit, metode, totalKoli, tarif]
          MaksBarisFaktur, \* bound: lines of an invoice
          MaksSusulan      \* bound: follow-up receipts of a line

ASSUME AsumsiAlokasi ==
  /\ BarisFaktur \subseteq
       {x \in [qty : Nat \ {0}, datang : Nat, subtotal : Nat, koli : Nat] : x.datang <= x.qty}
  /\ KepalaFaktur \subseteq
       [diskon : Nat, ppn : Nat, kredit : BOOLEAN, metode : {"KOLI", "QTY"}, totalKoli : Nat, tarif : Nat]
  /\ MaksBarisFaktur \in Nat

VARIABLES kepala,   \* the header
          baris,    \* the lines; datang grows with the follow-ups
          tahap,    \* DRAFT or POSTED
          hpp,      \* harga_pokok_satuan_dasar of each line
          alokasi,  \* alokasi_biaya of each line
          masukan   \* the rows each line wrote in kartu_stok

varsAlokasi == <<kepala, baris, tahap, hpp, alokasi, masukan>>

Total(f) == MapThenSumSet(LAMBDA i : f[i], DOMAIN f)

\* The earliest of the largest.
IndeksTerbesar(basis) ==
  CHOOSE i \in DOMAIN basis :
    \A j \in DOMAIN basis : basis[j] <= basis[i] /\ (j < i => basis[j] < basis[i])

BagiSendiri(total, basis) ==
  [i \in DOMAIN basis |->
     IF total = 0 \/ Total(basis) = 0 THEN 0 ELSE BulatBagi(total * basis[i], Total(basis))]

\* Fault: each part is rounded and the remainder forgotten.
BagiTanpaSisa(total, basis) == BagiSendiri(total, basis)

\* The remainder goes to the largest.
BagiProporsional(total, basis) ==
  LET bagian == BagiSendiri(total, basis)
      sisa   == IF Total(basis) = 0 THEN 0 ELSE total - Total(bagian)
  IN [i \in DOMAIN basis |-> bagian[i] + IF i = IndeksTerbesar(basis) THEN sisa ELSE 0]

Kolom(rows, k) == [i \in DOMAIN rows |-> rows[i][k]]

BasisAlokasi ==
  IF kepala.metode = "KOLI" /\ Total(Kolom(baris, "koli")) > 0
  THEN Kolom(baris, "koli") ELSE Kolom(baris, "datang")

BiayaAngkut == BulatBagi(kepala.totalKoli * kepala.tarif, 100)

\* ROUND of a value that may be negative: half away from zero.
BulatTanda(a, b) == IF a < 0 THEN -BulatBagi(-a, b) ELSE BulatBagi(a, b)

AlokasiAngkut == BagiProporsional(BiayaAngkut, BasisAlokasi)

NilaiPenuh ==
  LET sub    == Kolom(baris, "subtotal")
      diskon == BagiProporsional(kepala.diskon, sub)
      ppn    == BagiProporsional(IF kepala.kredit THEN 0 ELSE kepala.ppn, sub)
  IN [i \in DOMAIN baris |-> sub[i] - diskon[i] + ppn[i] + AlokasiAngkut[i]]

InitAlokasi ==
  /\ kepala \in KepalaFaktur
  /\ baris \in UNION {[1..n -> BarisFaktur] : n \in 1..MaksBarisFaktur}
  /\ kepala.diskon <= Total(Kolom(baris, "subtotal"))
  /\ tahap = "DRAFT" /\ hpp = <<>> /\ alokasi = <<>> /\ masukan = <<>>

\* BagiRataKoli, over qty_dasar; pembelian_detail_jumlah_koli_check refuses a
\* negative part and the request with it.
BagiRataKoli ==
  LET bagian == BagiProporsional(kepala.totalKoli, Kolom(baris, "qty")) IN
  /\ tahap = "DRAFT" /\ kepala.totalKoli > 0
  /\ \A i \in DOMAIN bagian : bagian[i] >= 0
  /\ baris' = [i \in DOMAIN baris |-> [baris[i] EXCEPT !.koli = bagian[i]]]
  /\ UNCHANGED <<kepala, tahap, hpp, alokasi, masukan>>

Baris(jenis, nilai) == [jenis |-> jenis, nilai |-> nilai]

\* siapkanPosting and hitungPosting: a line of which nothing came writes no
\* row of kartu_stok.
PostingFaktur ==
  LET penuh == NilaiPenuh IN
  /\ tahap = "DRAFT"
  /\ kepala.metode = "KOLI" /\ BiayaAngkut > 0 => Total(Kolom(baris, "koli")) = kepala.totalKoli
  /\ tahap' = "POSTED"
  /\ hpp' = [i \in DOMAIN baris |-> BulatTanda(100 * penuh[i], baris[i].qty)]
  /\ masukan' = [i \in DOMAIN baris |->
       IF baris[i].datang = 0 THEN <<>>
       ELSE <<Baris("PEMBELIAN", BulatTanda(penuh[i] * baris[i].datang, baris[i].qty))>>]
  /\ alokasi' = AlokasiAngkut
  /\ UNCHANGED <<kepala, baris>>

\* A follow-up receipt copies the stored cost and rounds once.
SusulanBaris(i, q) ==
  /\ tahap = "POSTED" /\ baris[i].datang + q <= baris[i].qty
  /\ Len(masukan[i]) <= MaksSusulan
  /\ baris' = [baris EXCEPT ![i].datang = @ + q]
  /\ masukan' = [masukan EXCEPT ![i] = Append(@, Baris("PENERIMAAN_SUSULAN", BulatTanda(hpp[i] * q, 100)))]
  /\ UNCHANGED <<kepala, tahap, hpp, alokasi>>

NextAlokasi ==
  \/ BagiRataKoli
  \/ PostingFaktur
  \/ \E i \in DOMAIN baris : \E q \in 1..(baris[i].qty - baris[i].datang) : SusulanBaris(i, q)

SpecAlokasi == InitAlokasi /\ [][NextAlokasi]_varsAlokasi

(***************************************************************************)
(* Properties.                                                             *)
(***************************************************************************)
TypeOKAlokasi ==
  /\ tahap \in {"DRAFT", "POSTED"}
  /\ \A i \in DOMAIN baris : baris[i].datang \in 0..baris[i].qty /\ baris[i].koli \in Nat
  /\ tahap = "POSTED" => DOMAIN hpp = DOMAIN baris /\ DOMAIN masukan = DOMAIN baris

\* What rounding may cost, in two-hundredths of a cent: nothing on a line
\* that came at once; on another half a cent for each row of kartu_stok and
\* half a unit of the stored cost for each piece.
BatasBulat(i) ==
  IF Len(masukan[i]) = 1 /\ masukan[i][1].jenis = "PEMBELIAN" THEN 0
  ELSE 100 * Len(masukan[i]) + baris[i].qty

\* The tax of goods that were given away has no line to go to.
NilaiFaktur ==
  LET sub == Total(Kolom(baris, "subtotal")) IN
  sub - kepala.diskon + (IF kepala.kredit \/ sub = 0 THEN 0 ELSE kepala.ppn)

NilaiMasuk == Total([i \in DOMAIN baris |-> Total(Kolom(masukan[i], "nilai"))])

\* The lines carry the whole freight, or none of it when nothing had come
\* that it could be shared by.  When everything has come, the stock was
\* given the value of the invoice and that freight, but for rounding: no
\* part of discount, tax or freight is lost between lines or counted twice.
NilaiFakturTersalur ==
  tahap = "POSTED" =>
    /\ Total(alokasi) \in {0, BiayaAngkut}
    /\ (\A i \in DOMAIN baris : baris[i].datang = baris[i].qty) =>
         LET beda  == NilaiMasuk - NilaiFaktur - Total(alokasi)
             batas == Total([i \in DOMAIN baris |-> BatasBulat(i)])
         IN 200 * beda <= batas /\ -200 * beda <= batas
=============================================================================
