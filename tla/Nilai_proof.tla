---------------------------- MODULE Nilai_proof ----------------------------
(***************************************************************************)
(* Proofs about cents, for any rooms, quantities, values and documents.    *)
(*                                                                         *)
(* NilaiStok: what rounding can take from the value of a room, and from    *)
(* the total of all of them.  The bound is an invariant of every row, not  *)
(* of the last: a row that computes the average starts it, and each row    *)
(* out adds half a cent.                                                   *)
(*                                                                         *)
(* Laporan: the job that walks the chains repeats what the trigger did, so *)
(* a row written after a changed one is what it expects again; and the     *)
(* reports are sums over the same rows in different orders.                *)
(*                                                                         *)
(* AlokasiBiaya: the shares of the lines add up to what is shared, and a   *)
(* line keeps what it is worth through its receipts, but for rounding.     *)
(***************************************************************************)
EXTENDS NilaiStok, Laporan, AlokasiBiaya, Dasar_proof

SaldoSah == [stok : Nat, nilai : Nat, hpp : Nat]
BarisNilai == [jenis : {"masuk", "keluar", "lebih"}, saldo : SaldoSah]
DokumenNilai ==
  [jenis : {"masuk", "keluar", "mutasi"}, ruang : Ruang, tujuan : Ruang, qty : Qty, nilai : Nat,
   batal : BOOLEAN]

Ujung(s) == IF s = <<>> THEN SaldoKosong ELSE s[Len(s)].saldo
Terhitung(s) == {i \in DOMAIN s : s[i].jenis # "keluar"}

\* What SelisihTerbatas says of the rows s of a room.
SelisihBaris(s) ==
  Ujung(s).stok > 0 =>
    LET j == Max(Terhitung(s))
        beda == 100 * Ujung(s).nilai - Ujung(s).stok * Ujung(s).hpp
        batas == s[j].saldo.stok + 100 * (Len(s) - j)
    IN 2 * beda <= batas /\ -2 * beda <= batas

BarisBaik(s) ==
  /\ s \in Seq(BarisNilai)
  /\ s # <<>> => 1 \in Terhitung(s)
  /\ SelisihBaris(s)

-----------------------------------------------------------------------------
\* Rounding takes half a unit at most.
LEMMA BulatBenar ==
  ASSUME NEW a \in Nat, NEW b \in Nat, b > 0
  PROVE  /\ BulatBagi(a, b) \in Nat
         /\ 2 * (a - b * BulatBagi(a, b)) <= b
         /\ -(2 * (a - b * BulatBagi(a, b))) <= b
<1> DEFINE q == (2 * a + b) \div (2 * b)
<1> DEFINE m == (2 * a + b) % (2 * b)
<1>1. 2 * a + b \in Nat /\ 2 * b \in Nat /\ 2 * b > 0
  OBVIOUS
<1>2. q \in Int /\ m \in Int /\ 2 * a + b = 2 * b * q + m /\ 0 <= m /\ m < 2 * b
  BY <1>1
<1>3. q >= 0
  BY <1>1
<1>4. QED BY <1>2, <1>3 DEF BulatBagi

LEMMA KaliAlami == ASSUME NEW a \in Nat, NEW b \in Nat PROVE a * b \in Nat
OBVIOUS

LEMMA BagianSelang ==
  ASSUME NEW n \in Nat, NEW S, S \subseteq 1..n
  PROVE  S \subseteq Nat /\ IsFiniteSet(S)
<1>1. IsFiniteSet(1..n)
  BY FS_Interval
<1>2. IsFiniteSet(S)
  BY <1>1, FS_Subset
<1>3. QED BY <1>2

LEMMA MasukBaik ==
  ASSUME NEW l \in SaldoSah, NEW q \in Nat \ {0}, NEW n \in Nat
  PROVE  LET s == SetelahMasuk(l, q, n)
             beda == 100 * s.nilai - s.stok * s.hpp IN
         s \in SaldoSah /\ s.stok > 0 /\ 2 * beda <= s.stok /\ -2 * beda <= s.stok
<1>1. PICK a : a = 100 * (l.nilai + n)
  OBVIOUS
<1>2. PICK b : b = l.stok + q
  OBVIOUS
<1>3. l.stok \in Nat /\ l.nilai \in Nat
  BY DEF SaldoSah
<1>4. a \in Nat /\ b \in Nat /\ b > 0
  BY <1>1, <1>2, <1>3
<1>5. PICK h : h = BulatBagi(a, b)
  OBVIOUS
<1>6. h \in Nat /\ 2 * (a - b * h) <= b /\ -(2 * (a - b * h)) <= b
  BY <1>4, <1>5, BulatBenar
<1>7. PICK s : s = SetelahMasuk(l, q, n)
  OBVIOUS
<1>8. s = [stok |-> b, nilai |-> l.nilai + n, hpp |-> h]
  BY <1>1, <1>2, <1>5, <1>7 DEF SetelahMasuk, HppDari
<1>9. s \in SaldoSah /\ s.stok = b /\ 100 * s.nilai = a /\ s.hpp = h
  BY <1>1, <1>3, <1>4, <1>6, <1>8 DEF SaldoSah
<1>10. PICK bh \in Int : bh = b * h
  BY <1>4, <1>6
<1>11. QED BY <1>4, <1>6, <1>7, <1>9, <1>10

\* What goods out are worth, against their share of the average.
LEMMA NilaiDariBenar ==
  ASSUME NEW q \in Nat, NEW h \in Nat
  PROVE  /\ NilaiDari(q, h) \in Nat
         /\ 2 * (q * h - 100 * NilaiDari(q, h)) <= 100
         /\ -(2 * (q * h - 100 * NilaiDari(q, h))) <= 100
<1>1. q * h \in Nat
  BY KaliAlami
<1>2. QED BY <1>1, BulatBenar DEF NilaiDari

LEMMA KeluarBaik ==
  ASSUME NEW l \in SaldoSah, NEW q \in Nat, Diterima(SetelahKeluar(l, q))
  PROVE  LET s == SetelahKeluar(l, q)
             lalu == 100 * l.nilai - l.stok * l.hpp
             beda == 100 * s.nilai - s.stok * s.hpp IN
         /\ s \in SaldoSah /\ s.stok = l.stok - q
         /\ s.stok > 0 => 2 * beda <= 2 * lalu + 100 /\ -2 * beda <= -2 * lalu + 100
<1>1. l.stok \in Nat /\ l.nilai \in Nat /\ l.hpp \in Nat
  BY DEF SaldoSah
<1>2. PICK n : n = NilaiDari(q, l.hpp)
  OBVIOUS
<1>3. PICK x : x = q * l.hpp
  OBVIOUS
<1>4. n \in Nat /\ x \in Nat /\ 2 * (x - 100 * n) <= 100 /\ -(2 * (x - 100 * n)) <= 100
  BY <1>1, <1>2, <1>3, NilaiDariBenar, KaliAlami
<1>5. PICK s : s = SetelahKeluar(l, q)
  OBVIOUS
<1>6. s = [stok |-> l.stok - q, nilai |-> IF l.stok = q THEN 0 ELSE l.nilai - n, hpp |-> l.hpp]
  BY <1>2, <1>5 DEF SetelahKeluar
<1>7. s.stok = l.stok - q /\ s.hpp = l.hpp /\ s.nilai = IF l.stok = q THEN 0 ELSE l.nilai - n
  BY <1>6
<1>8. s.stok >= 0 /\ s.nilai >= 0
  BY <1>5 DEF Diterima
<1>9. s \in SaldoSah
  BY <1>1, <1>4, <1>6, <1>7, <1>8 DEF SaldoSah
<1>10. ASSUME s.stok > 0
       PROVE  /\ 2 * (100 * s.nilai - s.stok * s.hpp) <= 2 * (100 * l.nilai - l.stok * l.hpp) + 100
              /\ -2 * (100 * s.nilai - s.stok * s.hpp) <= -2 * (100 * l.nilai - l.stok * l.hpp) + 100
  <2>1. s.nilai = l.nilai - n
    BY <1>1, <1>7, <1>10
  <2>2. PICK y : y = l.stok * l.hpp
    OBVIOUS
  <2>3. y \in Nat
    BY <1>1, <2>2, KaliAlami
  <2>4. s.stok * s.hpp = y - x
    BY <1>1, <1>3, <1>7, <2>2
  <2>5. QED BY <1>1, <1>4, <2>1, <2>2, <2>3, <2>4
<1>11. QED BY <1>5, <1>7, <1>9, <1>10

LEMMA UjungSah == ASSUME NEW s \in Seq(BarisNilai) PROVE Ujung(s) \in SaldoSah
<1>1. SaldoKosong \in SaldoSah
  BY DEF SaldoKosong, SaldoSah
<1>2. s # <<>> => s[Len(s)] \in BarisNilai
  OBVIOUS
<1>3. QED BY <1>1, <1>2 DEF Ujung, BarisNilai

\* One row more.
LEMMA TambahUjung ==
  ASSUME NEW s \in Seq(BarisNilai), NEW x \in BarisNilai
  PROVE  LET t == Append(s, x) IN
         /\ t \in Seq(BarisNilai) /\ Len(t) = Len(s) + 1 /\ t # <<>> /\ Ujung(t) = x.saldo
         /\ \A i \in DOMAIN s : t[i] = s[i]
         /\ t[Len(s) + 1] = x /\ DOMAIN s = 1..Len(s) /\ Len(s) \in Nat
         /\ Terhitung(t) = Terhitung(s) \cup (IF x.jenis = "keluar" THEN {} ELSE {Len(s) + 1})
<1>1. PICK t : t = Append(s, x)
  OBVIOUS
<1>2. /\ t \in Seq(BarisNilai) /\ Len(t) = Len(s) + 1 /\ t # <<>>
      /\ DOMAIN t = 1..(Len(s) + 1) /\ DOMAIN s = 1..Len(s) /\ Len(s) \in Nat
      /\ t[Len(s) + 1] = x /\ \A i \in DOMAIN s : t[i] = s[i]
  BY <1>1
<1>3. Ujung(t) = x.saldo
  BY <1>2 DEF Ujung
<1>4. Terhitung(t) = Terhitung(s) \cup (IF x.jenis = "keluar" THEN {} ELSE {Len(s) + 1})
  BY <1>2 DEF Terhitung
<1>5. QED BY <1>1, <1>2, <1>3, <1>4

LEMMA TambahMasuk ==
  ASSUME NEW s, BarisBaik(s), NEW q \in Nat \ {0}, NEW n \in Nat, NEW jenis \in {"masuk", "lebih"}
  PROVE  BarisBaik(Append(s, [jenis |-> jenis, saldo |-> SetelahMasuk(Ujung(s), q, n)]))
<1>1. PICK m : m = SetelahMasuk(Ujung(s), q, n)
  OBVIOUS
<1>2. PICK x : x = [jenis |-> jenis, saldo |-> m]
  OBVIOUS
<1>3. PICK t : t = Append(s, x)
  OBVIOUS
<1>4. s \in Seq(BarisNilai) /\ Ujung(s) \in SaldoSah
  BY UjungSah DEF BarisBaik
<1>5. /\ m \in SaldoSah /\ m.stok > 0
      /\ 2 * (100 * m.nilai - m.stok * m.hpp) <= m.stok
      /\ -2 * (100 * m.nilai - m.stok * m.hpp) <= m.stok
  BY <1>1, <1>4, MasukBaik
<1>6. x \in BarisNilai /\ x.saldo = m /\ x.jenis # "keluar"
  BY <1>2, <1>5 DEF BarisNilai
<1>7. PICK k : k = Len(s) + 1
  OBVIOUS
<1>8. /\ t \in Seq(BarisNilai) /\ Len(t) = k /\ Ujung(t) = m /\ t[k] = x /\ k \in Nat
      /\ Terhitung(t) = Terhitung(s) \cup {k} /\ DOMAIN s = 1..Len(s) /\ Len(s) \in Nat
  BY <1>3, <1>4, <1>6, <1>7, TambahUjung
<1>9. Terhitung(t) \subseteq 1..k /\ k \in Terhitung(t)
  BY <1>7, <1>8 DEF Terhitung
<1>10. Terhitung(t) \subseteq Nat /\ IsFiniteSet(Terhitung(t)) /\ Terhitung(t) # {}
  BY <1>8, <1>9, BagianSelang
<1>11. Max(Terhitung(t)) \in Terhitung(t) /\ k <= Max(Terhitung(t))
  BY <1>9, <1>10, AdaMaks
<1>12. Max(Terhitung(t)) = k
  BY <1>8, <1>9, <1>11
<1>13. m.stok \in Nat /\ m.nilai \in Nat /\ m.hpp \in Nat
  BY <1>5 DEF SaldoSah
<1>14. SelisihBaris(t)
  BY <1>5, <1>6, <1>8, <1>12, <1>13 DEF SelisihBaris
<1>15. 1 \in Terhitung(t)
  <2>1. CASE s = <<>>
    BY <1>7, <1>8, <2>1
  <2>2. CASE s # <<>>
    BY <1>8, <2>2 DEF BarisBaik
  <2>3. QED BY <2>1, <2>2
<1>16. QED BY <1>1, <1>2, <1>3, <1>8, <1>14, <1>15 DEF BarisBaik

LEMMA TambahKeluar ==
  ASSUME NEW s, BarisBaik(s), NEW q \in Nat \ {0}, Diterima(SetelahKeluar(Ujung(s), q))
  PROVE  BarisBaik(Append(s, [jenis |-> "keluar", saldo |-> SetelahKeluar(Ujung(s), q)]))
<1>1. PICK m : m = SetelahKeluar(Ujung(s), q)
  OBVIOUS
<1>2. PICK x : x = [jenis |-> "keluar", saldo |-> m]
  OBVIOUS
<1>3. PICK t : t = Append(s, x)
  OBVIOUS
<1>4. s \in Seq(BarisNilai) /\ Ujung(s) \in SaldoSah
  BY UjungSah DEF BarisBaik
<1>5. PICK l : l = Ujung(s)
  OBVIOUS
<1>6. /\ m \in SaldoSah /\ m.stok = l.stok - q
      /\ m.stok > 0 =>
           /\ 2 * (100 * m.nilai - m.stok * m.hpp) <= 2 * (100 * l.nilai - l.stok * l.hpp) + 100
           /\ -2 * (100 * m.nilai - m.stok * m.hpp) <= -2 * (100 * l.nilai - l.stok * l.hpp) + 100
  BY <1>1, <1>4, <1>5, KeluarBaik
<1>7. x \in BarisNilai /\ x.saldo = m /\ x.jenis = "keluar"
  BY <1>2, <1>6 DEF BarisNilai
<1>8. /\ t \in Seq(BarisNilai) /\ Len(t) = Len(s) + 1 /\ Ujung(t) = m
      /\ Terhitung(t) = Terhitung(s) /\ DOMAIN s = 1..Len(s) /\ Len(s) \in Nat
      /\ \A i \in DOMAIN s : t[i] = s[i]
  <2>1. /\ t \in Seq(BarisNilai) /\ Len(t) = Len(s) + 1 /\ Ujung(t) = x.saldo
        /\ DOMAIN s = 1..Len(s) /\ Len(s) \in Nat /\ \A i \in DOMAIN s : t[i] = s[i]
        /\ Terhitung(t) = Terhitung(s) \cup (IF x.jenis = "keluar" THEN {} ELSE {Len(s) + 1})
    BY <1>3, <1>4, <1>7, TambahUjung
  <2>2. QED BY <1>7, <2>1
<1>9. l.stok \in Nat /\ l.nilai \in Nat /\ l.hpp \in Nat /\ m.stok \in Nat /\ m.nilai \in Nat /\ m.hpp \in Nat
  BY <1>4, <1>5, <1>6 DEF SaldoSah
<1>10. l.stok > 0
  BY <1>6, <1>9
<1>11. s # <<>>
  BY <1>5, <1>10 DEF Ujung, SaldoKosong
<1>12. 1 \in Terhitung(s)
  BY <1>11 DEF BarisBaik
<1>13. SelisihBaris(t)
  <2> SUFFICES ASSUME m.stok > 0 PROVE SelisihBaris(t)
    BY <1>8 DEF SelisihBaris
  <2>1. PICK j : j = Max(Terhitung(s))
    OBVIOUS
  <2>2. Terhitung(s) \subseteq DOMAIN s
    BY DEF Terhitung
  <2>3. Terhitung(s) \subseteq Nat /\ IsFiniteSet(Terhitung(s)) /\ Terhitung(s) # {}
    BY <1>8, <1>12, <2>2, BagianSelang
  <2>4. j \in Terhitung(s)
    BY <2>1, <2>3, AdaMaks
  <2>5. j \in DOMAIN s /\ t[j] = s[j] /\ s[j] \in BarisNilai /\ j \in Nat
    BY <1>4, <1>8, <2>2, <2>4
  <2>6. s[j].saldo.stok \in Nat
    BY <2>5 DEF BarisNilai, SaldoSah
  <2>7. PICK y : y = l.stok * l.hpp
    OBVIOUS
  <2>8. PICK z : z = m.stok * m.hpp
    OBVIOUS
  <2>9. y \in Nat /\ z \in Nat
    BY <1>9, <2>7, <2>8, KaliAlami
  <2>10. PICK p \in Nat : p = s[j].saldo.stok
    BY <2>6
  <2>11. /\ 2 * (100 * l.nilai - y) <= p + 100 * (Len(s) - j)
         /\ -2 * (100 * l.nilai - y) <= p + 100 * (Len(s) - j)
    BY <1>5, <1>10, <2>1, <2>7, <2>10 DEF BarisBaik, SelisihBaris
  <2>12. /\ 2 * (100 * m.nilai - z) <= 2 * (100 * l.nilai - y) + 100
         /\ -2 * (100 * m.nilai - z) <= -2 * (100 * l.nilai - y) + 100
    BY <1>6, <2>7, <2>8
  <2>f. PICK ml \in Int : ml = 100 * l.nilai - y
    BY <1>9, <2>9
  <2>g. PICK mm \in Int : mm = 100 * m.nilai - z
    BY <1>9, <2>9
  <2>h. PICK c \in Int : c = Len(s) - j
    BY <1>8, <2>5
  <2>a. ml = 100 * l.nilai - y /\ mm = 100 * m.nilai - z /\ c = Len(s) - j
    BY <2>f, <2>g, <2>h
  <2>b. 2 * ml <= p + 100 * c /\ -2 * ml <= p + 100 * c
    BY <2>11, <2>a
  <2>c. 2 * mm <= 2 * ml + 100 /\ -2 * mm <= -2 * ml + 100
    BY <2>12, <2>a
  <2>d. 2 * mm <= p + 100 * (c + 1) /\ -2 * mm <= p + 100 * (c + 1)
    BY <2>b, <2>c
  <2>e. Len(s) + 1 - j = c + 1
    BY <1>8, <2>5, <2>a
  <2>13. /\ 2 * (100 * m.nilai - z) <= p + 100 * (Len(s) + 1 - j)
         /\ -2 * (100 * m.nilai - z) <= p + 100 * (Len(s) + 1 - j)
    BY <2>a, <2>d, <2>e
  <2>14. QED BY <1>8, <2>1, <2>5, <2>8, <2>10, <2>13 DEF SelisihBaris
<1>14. QED BY <1>1, <1>2, <1>3, <1>8, <1>12, <1>13 DEF BarisBaik

-----------------------------------------------------------------------------
(* The ledger of all the rooms.                                            *)
KartuBaik(k) == k \in [Ruang -> Seq(BarisNilai)] /\ \A r \in Ruang : BarisBaik(k[r])

LEMMA SesudahUjung == ASSUME NEW k, NEW r PROVE Sesudah(k, r) = Ujung(k[r])
BY DEF Sesudah, Ujung

LEMMA SesudahSah == ASSUME NEW k, KartuBaik(k), NEW r \in Ruang PROVE Sesudah(k, r) \in SaldoSah
<1>1. k[r] \in Seq(BarisNilai)
  BY DEF KartuBaik
<1>2. QED BY <1>1, SesudahUjung, UjungSah

\* A row is written to one room, and says what its balance is.
LEMMA TambahHanya ==
  ASSUME NEW k, KartuBaik(k), NEW r \in Ruang, NEW jenis \in {"masuk", "keluar", "lebih"},
         NEW saldo \in SaldoSah, NEW b \in Ruang
  PROVE  Tambah(k, r, jenis, saldo)[b] =
           IF b = r THEN Append(k[r], [jenis |-> jenis, saldo |-> saldo]) ELSE k[b]
BY DEF KartuBaik, Tambah

LEMMA TambahSesudah ==
  ASSUME NEW k, KartuBaik(k), NEW r \in Ruang, NEW jenis \in {"masuk", "keluar", "lebih"},
         NEW saldo \in SaldoSah, NEW h, h = Tambah(k, r, jenis, saldo)
  PROVE  \A b \in Ruang : Sesudah(h, b) = IF b = r THEN saldo ELSE Sesudah(k, b)
<1>1. PICK x : x = [jenis |-> jenis, saldo |-> saldo]
  OBVIOUS
<1>2. x \in BarisNilai /\ x.saldo = saldo
  BY <1>1 DEF BarisNilai
<1>3. k[r] \in Seq(BarisNilai) /\ DOMAIN k = Ruang
  BY DEF KartuBaik
<1>4. \A b \in Ruang : h[b] = IF b = r THEN Append(k[r], x) ELSE k[b]
  BY <1>1, <1>3 DEF Tambah
<1>5. Ujung(Append(k[r], x)) = saldo
  BY <1>2, <1>3, TambahUjung
<1>6. \A b \in Ruang : Sesudah(h, b) = Ujung(h[b]) /\ Sesudah(k, b) = Ujung(k[b])
  BY SesudahUjung
<1>7. QED BY <1>4, <1>5, <1>6

LEMMA MasukKartu ==
  ASSUME NEW k, KartuBaik(k), NEW r \in Ruang, NEW q \in Nat \ {0}, NEW n \in Nat,
         NEW jenis \in {"masuk", "lebih"}
  PROVE  KartuBaik(Tambah(k, r, jenis, SetelahMasuk(Sesudah(k, r), q, n)))
<1>1. PICK m : m = SetelahMasuk(Sesudah(k, r), q, n)
  OBVIOUS
<1>2. m \in SaldoSah
  BY <1>1, SesudahSah, MasukBaik
<1>3. PICK h : h = Tambah(k, r, jenis, m)
  OBVIOUS
<1>4. PICK x : x = [jenis |-> jenis, saldo |-> m]
  OBVIOUS
<1>5. BarisBaik(Append(k[r], x))
  <2>1. BarisBaik(k[r])
    BY DEF KartuBaik
  <2>2. m = SetelahMasuk(Ujung(k[r]), q, n)
    BY <1>1, SesudahUjung
  <2>3. QED BY <1>4, <2>1, <2>2, TambahMasuk
<1>6. \A b \in Ruang : h[b] = IF b = r THEN Append(k[r], x) ELSE k[b]
  BY <1>2, <1>3, <1>4, TambahHanya
<1>7. \A b \in Ruang : BarisBaik(h[b])
  BY <1>5, <1>6 DEF KartuBaik
<1>8. h \in [Ruang -> Seq(BarisNilai)]
  <2>1. h = [k EXCEPT ![r] = Append(@, x)]
    BY <1>3, <1>4 DEF Tambah
  <2>2. \A b \in Ruang : h[b] \in Seq(BarisNilai)
    BY <1>7 DEF BarisBaik
  <2>3. QED BY <2>1, <2>2 DEF KartuBaik
<1>9. QED BY <1>1, <1>3, <1>7, <1>8 DEF KartuBaik

LEMMA KeluarKartu ==
  ASSUME NEW k, KartuBaik(k), NEW r \in Ruang, NEW q \in Nat \ {0},
         Diterima(SetelahKeluar(Sesudah(k, r), q))
  PROVE  /\ KartuBaik(Tambah(k, r, "keluar", SetelahKeluar(Sesudah(k, r), q)))
         /\ SetelahKeluar(Sesudah(k, r), q) \in SaldoSah
<1>1. PICK m : m = SetelahKeluar(Sesudah(k, r), q)
  OBVIOUS
<1>2. m \in SaldoSah
  BY <1>1, SesudahSah, KeluarBaik
<1>3. PICK h : h = Tambah(k, r, "keluar", m)
  OBVIOUS
<1>4. PICK x : x = [jenis |-> "keluar", saldo |-> m]
  OBVIOUS
<1>5. BarisBaik(Append(k[r], x))
  <2>1. BarisBaik(k[r])
    BY DEF KartuBaik
  <2>2. m = SetelahKeluar(Ujung(k[r]), q)
    BY <1>1, SesudahUjung
  <2>3. Diterima(SetelahKeluar(Ujung(k[r]), q))
    BY SesudahUjung
  <2>4. QED BY <1>4, <2>1, <2>2, <2>3, TambahKeluar
<1>6. \A b \in Ruang : h[b] = IF b = r THEN Append(k[r], x) ELSE k[b]
  BY <1>2, <1>3, <1>4, TambahHanya
<1>7. \A b \in Ruang : BarisBaik(h[b])
  BY <1>5, <1>6 DEF KartuBaik
<1>8. h \in [Ruang -> Seq(BarisNilai)]
  <2>1. h = [k EXCEPT ![r] = Append(@, x)]
    BY <1>3, <1>4 DEF Tambah
  <2>2. \A b \in Ruang : h[b] \in Seq(BarisNilai)
    BY <1>7 DEF BarisBaik
  <2>3. QED BY <2>1, <2>2 DEF KartuBaik
<1>9. QED BY <1>1, <1>2, <1>3, <1>7, <1>8 DEF KartuBaik

-----------------------------------------------------------------------------
(* The steps.                                                              *)
TerjagaNilai ==
  /\ KartuBaik(kartu)
  /\ dokumen \in Seq(DokumenNilai)
  /\ \A i \in DOMAIN dokumen : dokumen[i].jenis = "mutasi" => dokumen[i].ruang # dokumen[i].tujuan

\* A document more.
LEMMA CatatSah ==
  ASSUME TerjagaNilai, NEW jenis \in {"masuk", "keluar", "mutasi"}, NEW r \in Ruang,
         NEW b \in Ruang, NEW q \in Qty, NEW n \in Nat, jenis = "mutasi" => r # b,
         Catat(jenis, r, b, q, n), KartuBaik(kartu)'
  PROVE  TerjagaNilai'
<1>1. PICK d : d = [jenis |-> jenis, ruang |-> r, tujuan |-> b, qty |-> q, nilai |-> n,
                    batal |-> FALSE]
  OBVIOUS
<1>2. /\ d \in DokumenNilai /\ dokumen \in Seq(DokumenNilai) /\ dokumen' = Append(dokumen, d)
      /\ d.jenis = "mutasi" => d.ruang # d.tujuan
  BY <1>1 DEF DokumenNilai, TerjagaNilai, Catat
<1>3. /\ dokumen' \in Seq(DokumenNilai)
      /\ \A i \in DOMAIN dokumen' : dokumen'[i] = d \/ (i \in DOMAIN dokumen /\ dokumen'[i] = dokumen[i])
  BY <1>2
<1>4. \A i \in DOMAIN dokumen' :
         dokumen'[i].jenis = "mutasi" => dokumen'[i].ruang # dokumen'[i].tujuan
  BY <1>2, <1>3 DEF TerjagaNilai
<1>5. QED BY <1>3, <1>4 DEF TerjagaNilai

LEMMA QtySah == ASSUME NEW q \in Qty PROVE q \in Nat \ {0}
BY AsumsiNilai DEF AsumsiNilai

LEMMA SaldoSahNilai ==
  ASSUME TerjagaNilai, NEW r \in Ruang, NEW q \in Qty
  PROVE  /\ Saldo(r) \in SaldoSah /\ Saldo(r) = Sesudah(kartu, r) /\ KartuBaik(kartu)
         /\ NilaiDari(q, Saldo(r).hpp) \in Nat
<1>1. Saldo(r) = Sesudah(kartu, r) /\ KartuBaik(kartu)
  BY DEF Saldo, TerjagaNilai
<1>2. Saldo(r) \in SaldoSah
  BY <1>1, SesudahSah
<1>3. Saldo(r).hpp \in Nat
  BY <1>2 DEF SaldoSah
<1>4. QED BY <1>1, <1>2, <1>3, QtySah, NilaiDariBenar

LEMMA TerimaSah ==
  ASSUME TerjagaNilai, NEW r \in Ruang, NEW q \in Qty, NEW n \in Nilai, Terima(r, q, n)
  PROVE  TerjagaNilai'
<1>1. n \in Nat /\ q \in Nat \ {0}
  BY AsumsiNilai DEF AsumsiNilai
<1>2. KartuBaik(kartu)'
  BY <1>1, SaldoSahNilai, MasukKartu DEF Terima
<1>3. QED BY <1>1, <1>2, CatatSah DEF Terima

LEMMA KeluarkanSah ==
  ASSUME TerjagaNilai, NEW r \in Ruang, NEW q \in Qty, Keluarkan(r, q)
  PROVE  TerjagaNilai'
<1>1. KartuBaik(kartu)'
  BY QtySah, SaldoSahNilai, KeluarKartu DEF Keluarkan
<1>2. QED BY <1>1, SaldoSahNilai, CatatSah DEF Keluarkan

LEMMA LebihSah ==
  ASSUME TerjagaNilai, NEW r \in Ruang, NEW q \in Qty, Lebih(r, q)
  PROVE  TerjagaNilai'
<1>1. KartuBaik(kartu)'
  BY QtySah, SaldoSahNilai, MasukKartu DEF Lebih
<1>2. QED BY <1>1, SaldoSahNilai, CatatSah DEF Lebih

\* A transfer is the row out of the one room and the row into the other.
LEMMA MutasiSah ==
  ASSUME TerjagaNilai, NEW a \in Ruang, NEW b \in Ruang, NEW q \in Qty, Mutasi(a, b, q)
  PROVE  TerjagaNilai'
<1>1. PICK m : m = SetelahKeluar(Saldo(a), q)
  OBVIOUS
<1>2. PICK k : k = Tambah(kartu, a, "keluar", m)
  OBVIOUS
<1>3. PICK n : n = NilaiDari(q, Saldo(a).hpp)
  OBVIOUS
<1>4. a # b /\ Diterima(m) /\ Saldo(a) = Sesudah(kartu, a) /\ Saldo(b) = Sesudah(kartu, b) /\ n \in Nat
  BY <1>1, <1>3, SaldoSahNilai DEF Mutasi
<1>5. KartuBaik(k) /\ m \in SaldoSah /\ KartuBaik(kartu)
  BY <1>1, <1>2, <1>4, QtySah, SaldoSahNilai, KeluarKartu
<1>6. Sesudah(k, b) = Saldo(b)
  <2>1. "keluar" \in {"masuk", "keluar", "lebih"}
    OBVIOUS
  <2>2. Sesudah(k, b) = IF b = a THEN m ELSE Sesudah(kartu, b)
    BY <1>2, <1>5, <2>1, TambahSesudah
  <2>3. QED BY <1>4, <2>2
<1>7. kartu' = Tambah(k, b, "masuk", SetelahMasuk(Sesudah(k, b), q, n))
  BY <1>1, <1>2, <1>3, <1>6 DEF Mutasi
<1>8. KartuBaik(kartu)'
  BY <1>4, <1>5, <1>7, QtySah, MasukKartu
<1>9. Catat("mutasi", a, b, q, n)
  BY <1>3 DEF Mutasi
<1>10. QED BY <1>4, <1>8, <1>9, CatatSah

LEMMA BatalSah ==
  ASSUME TerjagaNilai, NEW i \in DOMAIN dokumen, Batal(i)
  PROVE  TerjagaNilai'
<1>1. PICK d : d = dokumen[i]
  OBVIOUS
<1>2. /\ d \in DokumenNilai /\ KartuBaik(kartu) /\ dokumen \in Seq(DokumenNilai)
      /\ d.jenis = "mutasi" => d.ruang # d.tujuan
  BY <1>1 DEF TerjagaNilai
<1>3. d.ruang \in Ruang /\ d.tujuan \in Ruang /\ d.qty \in Qty /\ d.qty \in Nat \ {0} /\ d.nilai \in Nat
  BY <1>2, QtySah DEF DokumenNilai
<1>4. PICK p : p = Tambah(kartu, d.ruang, "masuk", SetelahMasuk(Saldo(d.ruang), d.qty, d.nilai))
  OBVIOUS
<1>5. KartuBaik(p)
  BY <1>2, <1>3, <1>4, MasukKartu DEF Saldo
<1>6. KartuBaik(kartu)'
  <2>1. CASE kartu' = p
    BY <1>5, <2>1
  <2>2. ASSUME NEW k, KartuBaik(k), NEW r \in Ruang, Diterima(SetelahKeluar(Sesudah(k, r), d.qty)),
               kartu' = Tambah(k, r, "keluar", SetelahKeluar(Sesudah(k, r), d.qty))
        PROVE  KartuBaik(kartu)'
    BY <1>3, <2>2, KeluarKartu
  <2>3. CASE /\ Diterima(SetelahKeluar(Sesudah(kartu, d.ruang), d.qty))
             /\ kartu' = Tambah(kartu, d.ruang, "keluar", SetelahKeluar(Sesudah(kartu, d.ruang), d.qty))
    BY <1>2, <1>3, <2>2, <2>3
  <2>4. CASE /\ Diterima(SetelahKeluar(Sesudah(p, d.tujuan), d.qty))
             /\ kartu' = Tambah(p, d.tujuan, "keluar", SetelahKeluar(Sesudah(p, d.tujuan), d.qty))
    BY <1>3, <1>5, <2>2, <2>4
  <2>5. QED BY <1>1, <1>4, <2>1, <2>3, <2>4 DEF Batal
<1>7. /\ dokumen' \in Seq(DokumenNilai) /\ DOMAIN dokumen' = DOMAIN dokumen
      /\ \A j \in DOMAIN dokumen : /\ dokumen'[j].jenis = dokumen[j].jenis
                                   /\ dokumen'[j].ruang = dokumen[j].ruang
                                   /\ dokumen'[j].tujuan = dokumen[j].tujuan
  <2>1. PICK c : c = [d EXCEPT !.batal = TRUE]
    OBVIOUS
  <2>2. c \in DokumenNilai /\ c.jenis = d.jenis /\ c.ruang = d.ruang /\ c.tujuan = d.tujuan
    BY <1>2, <2>1 DEF DokumenNilai
  <2>3. dokumen' = [dokumen EXCEPT ![i] = c]
    BY <1>1, <1>2, <2>1 DEF Batal
  <2>4. QED BY <1>1, <1>2, <2>2, <2>3
<1>8. QED BY <1>6, <1>7 DEF TerjagaNilai

LEMMA NilaiAwal == InitNilai => TerjagaNilai
<1> SUFFICES ASSUME InitNilai PROVE TerjagaNilai
  OBVIOUS
<1>1. <<>> \in Seq(BarisNilai) /\ BarisBaik(<<>>)
  BY DEF BarisBaik, SelisihBaris, Ujung, SaldoKosong
<1>2. QED BY <1>1 DEF InitNilai, TerjagaNilai, KartuBaik

LEMMA NilaiLangkah == TerjagaNilai /\ [NextNilai]_varsNilai => TerjagaNilai'
<1> SUFFICES ASSUME TerjagaNilai, [NextNilai]_varsNilai PROVE TerjagaNilai'
  OBVIOUS
<1>1. CASE Buat
  BY <1>1, TerimaSah, KeluarkanSah, MutasiSah, LebihSah DEF Buat
<1>2. CASE \E i \in DOMAIN dokumen : Batal(i)
  BY <1>2, BatalSah
<1>3. CASE UNCHANGED varsNilai
  BY <1>3 DEF TerjagaNilai, KartuBaik, varsNilai
<1>4. QED BY <1>1, <1>2, <1>3 DEF NextNilai, Habis

LEMMA NilaiSelalu == SpecNilai => []TerjagaNilai
BY NilaiAwal, NilaiLangkah, PTL DEF SpecNilai

LEMMA TerjagaSelisih == TerjagaNilai => SelisihTerbatas
<1> SUFFICES ASSUME TerjagaNilai, NEW r \in Ruang, kartu[r] # <<>>, Saldo(r).stok > 0
             PROVE  LET beda == 100 * Saldo(r).nilai - Saldo(r).stok * Saldo(r).hpp
                    IN 2 * beda <= BatasSelisih(r) /\ -2 * beda <= BatasSelisih(r)
  BY DEF SelisihTerbatas
<1>1. SelisihBaris(kartu[r])
  BY DEF TerjagaNilai, KartuBaik, BarisBaik
<1>2. Saldo(r) = Ujung(kartu[r])
  BY SesudahUjung DEF Saldo
<1>3. RataDihitung(r) = Max(Terhitung(kartu[r]))
  BY DEF RataDihitung, Terhitung
<1>4. QED BY <1>1, <1>2, <1>3 DEF SelisihBaris, BatasSelisih

\* SelisihTerbatas: value against stock times average.
THEOREM SelisihSelaluTerbatas == SpecNilai => []SelisihTerbatas
BY NilaiSelalu, TerjagaSelisih, PTL

-----------------------------------------------------------------------------
(* The value of all the rooms.                                             *)
NilaiDi(k) == [r \in Ruang |-> Sesudah(k, r).nilai]

\* The sum of the model is the sum of the lemmas.
LEMMA NilaiSeluruhJml == ASSUME NEW k PROVE NilaiSeluruh(k) = Jml(NilaiDi(k), Ruang)
<1> DEFINE f == NilaiDi(k)
<1> DEFINE G == CHOOSE G : G = [s \in SUBSET Ruang |-> IF s = {} THEN 0
                   ELSE Sesudah(k, CHOOSE x \in s : TRUE).nilai + G[s \ {CHOOSE x \in s : TRUE}]]
<1>0. IsFiniteSet(Ruang)
  BY AsumsiNilai DEF AsumsiNilai
<1>1. PICK F : Menjumlah(F, f, SUBSET Ruang)
  BY <1>0, PenjumlahAda
<1>2. \A s \in SUBSET Ruang : s # {} => f[Ambil(s)] = Sesudah(k, CHOOSE x \in s : TRUE).nilai
  <2>1. \A r \in Ruang : f[r] = Sesudah(k, r).nilai
    BY DEF NilaiDi
  <2>2. QED BY <2>1, Ambilan DEF Ambil
<1>3. F = [s \in SUBSET Ruang |-> IF s = {} THEN 0
             ELSE Sesudah(k, CHOOSE x \in s : TRUE).nilai + F[s \ {CHOOSE x \in s : TRUE}]]
  BY <1>1, <1>2 DEF Ambil, Menjumlah
<1>4. G = [s \in SUBSET Ruang |-> IF s = {} THEN 0
             ELSE Sesudah(k, CHOOSE x \in s : TRUE).nilai + G[s \ {CHOOSE x \in s : TRUE}]]
  BY <1>3
<1>5. NilaiSeluruh(k) = G[Ruang]
  BY DEF NilaiSeluruh, MapThenSumSet, MapThenFoldSet
<1> HIDE DEF G, f
<1>6. Menjumlah(G, f, SUBSET Ruang)
  BY <1>4, <1>2 DEF Menjumlah, Ambil
<1>7. Jml(f, Ruang) = G[Ruang]
  BY <1>0, <1>6, JmlAdalah
<1>8. QED BY <1>5, <1>7 DEF f

\* What a transfer does to its two rooms, and to no other.
LEMMA MutasiNilai ==
  ASSUME TerjagaNilai, NEW a \in Ruang, NEW b \in Ruang, NEW q \in Qty, Mutasi(a, b, q)
  PROVE  /\ KartuBaik(kartu)' /\ a # b
         /\ Sesudah(kartu', a) = SetelahKeluar(Saldo(a), q)
         /\ Sesudah(kartu', b).nilai = Saldo(b).nilai + NilaiDari(q, Saldo(a).hpp)
         /\ \A r \in Ruang : r # a /\ r # b => Sesudah(kartu', r) = Sesudah(kartu, r)
<1>1. PICK m : m = SetelahKeluar(Saldo(a), q)
  OBVIOUS
<1>2. PICK k : k = Tambah(kartu, a, "keluar", m)
  OBVIOUS
<1>3. PICK w : w = SetelahMasuk(Saldo(b), q, NilaiDari(q, Saldo(a).hpp))
  OBVIOUS
<1>4. a # b /\ Diterima(m) /\ kartu' = Tambah(k, b, "masuk", w)
  BY <1>1, <1>2, <1>3 DEF Mutasi
<1>5. KartuBaik(k) /\ m \in SaldoSah /\ KartuBaik(kartu)
  BY <1>1, <1>2, <1>4, QtySah, SaldoSahNilai, KeluarKartu DEF Saldo
<1>6. w \in SaldoSah /\ w.nilai = Saldo(b).nilai + NilaiDari(q, Saldo(a).hpp)
  <2>1. w \in SaldoSah
    BY <1>3, QtySah, SaldoSahNilai, MasukBaik
  <2>2. QED BY <1>3, <2>1 DEF SetelahMasuk
<1>7. \A r \in Ruang : Sesudah(k, r) = IF r = a THEN m ELSE Sesudah(kartu, r)
  <2>1. "keluar" \in {"masuk", "keluar", "lebih"}
    OBVIOUS
  <2>2. QED BY <1>2, <1>5, <2>1, TambahSesudah
<1>8. \A r \in Ruang : Sesudah(kartu', r) = IF r = b THEN w ELSE Sesudah(k, r)
  <2>1. "masuk" \in {"masuk", "keluar", "lebih"}
    OBVIOUS
  <2>2. PICK h : h = kartu'
    OBVIOUS
  <2>3. h = Tambah(k, b, "masuk", w)
    BY <1>4, <2>2
  <2>4. \A r \in Ruang : Sesudah(h, r) = IF r = b THEN w ELSE Sesudah(k, r)
    BY <1>5, <1>6, <2>1, <2>3, TambahSesudah
  <2>5. QED BY <2>2, <2>4
<1>9. KartuBaik(kartu)'
  BY MutasiSah DEF TerjagaNilai
<1>10. QED BY <1>1, <1>4, <1>6, <1>7, <1>8, <1>9

\* The rounding of the average is bounded in every room that has goods.
LEMMA MutasiTertutup ==
  ASSUME TerjagaNilai, NEW a \in Ruang, NEW b \in Ruang, NEW q \in Qty, Mutasi(a, b, q)
  PROVE  LET beda == NilaiSeluruh(kartu') - NilaiSeluruh(kartu)
             batas == IF Sesudah(kartu', a).stok > 0 THEN 0 ELSE BatasSelisih(a) + 100
         IN 200 * beda <= batas /\ -200 * beda <= batas
<1>1. PICK f : f = NilaiDi(kartu)
  OBVIOUS
<1>2. PICK g : g = NilaiDi(kartu')
  OBVIOUS
<1>3. PICK l : l = Saldo(a)
  OBVIOUS
<1>4. PICK n : n = NilaiDari(q, l.hpp)
  OBVIOUS
<1>5. PICK m : m = SetelahKeluar(l, q)
  OBVIOUS
<1>6. KartuBaik(kartu) /\ KartuBaik(kartu)' /\ a # b /\ l \in SaldoSah /\ Saldo(b) \in SaldoSah
  BY <1>3, MutasiNilai, SaldoSahNilai
<1>7. \A r \in Ruang : f[r] = Sesudah(kartu, r).nilai /\ g[r] = Sesudah(kartu', r).nilai
  BY <1>1, <1>2 DEF NilaiDi
<1>8. \A r \in Ruang : f[r] \in Int /\ g[r] \in Int
  <2>1. \A r \in Ruang : Sesudah(kartu, r) \in SaldoSah
    BY <1>6, SesudahSah
  <2>2. PICK h : h = kartu'
    OBVIOUS
  <2>3. KartuBaik(h)
    BY <1>6, <2>2
  <2>4. \A r \in Ruang : Sesudah(h, r) \in SaldoSah
    BY <2>3, SesudahSah
  <2>5. QED BY <1>7, <2>1, <2>2, <2>4 DEF SaldoSah
<1>9. /\ \A r \in Ruang : r # a /\ r # b => g[r] = f[r]
      /\ g[a] = m.nilai /\ f[a] = l.nilai /\ g[b] = f[b] + n /\ Sesudah(kartu', a) = m
  BY <1>3, <1>4, <1>5, <1>7, MutasiNilai DEF Saldo
<1>10. Jml(g, Ruang) - Jml(f, Ruang) = (g[a] - f[a]) + (g[b] - f[b])
  <2>1. IsFiniteSet(Ruang)
    BY AsumsiNilai DEF AsumsiNilai
  <2>2. QED BY <1>6, <1>8, <1>9, <2>1, JmlDua
<1>11. NilaiSeluruh(kartu') - NilaiSeluruh(kartu) = m.nilai - l.nilai + n
  <2>1. PICK h : h = kartu'
    OBVIOUS
  <2>2. NilaiSeluruh(h) = Jml(NilaiDi(h), Ruang) /\ NilaiSeluruh(kartu) = Jml(NilaiDi(kartu), Ruang)
    BY NilaiSeluruhJml
  <2>3. g = NilaiDi(h)
    BY <1>2, <2>1
  <2>4. m.nilai \in Int /\ l.nilai \in Int /\ g[b] \in Int /\ f[b] \in Int /\ n \in Int
    BY <1>3, <1>4, <1>8, <1>9, SaldoSahNilai
  <2>5. QED BY <1>1, <1>9, <1>10, <2>1, <2>2, <2>3, <2>4
<1>12. /\ l.stok \in Nat /\ l.nilai \in Nat /\ l.hpp \in Nat /\ q \in Nat \ {0} /\ n \in Nat
       /\ Diterima(m) /\ m.stok = l.stok - q
       /\ m.nilai = IF l.stok = q THEN 0 ELSE l.nilai - n
  BY <1>3, <1>4, <1>5, <1>6, QtySah, SaldoSahNilai DEF SaldoSah, SetelahKeluar, Mutasi
<1>13. CASE m.stok > 0
  <2>1. m.nilai - l.nilai + n = 0
    BY <1>12, <1>13
  <2>2. QED BY <1>9, <1>11, <1>13, <2>1
<1>14. CASE ~(m.stok > 0)
  <2>1. l.stok = q /\ l.stok > 0 /\ m.nilai = 0
    BY <1>12, <1>14 DEF Diterima
  <2>2. PICK x : x = l.stok * l.hpp
    OBVIOUS
  <2>3. x \in Nat
    BY <1>12, <2>2, KaliAlami
  <2>4. PICK c : c = BatasSelisih(a)
    OBVIOUS
  <2>5. 2 * (100 * l.nilai - x) <= c /\ -2 * (100 * l.nilai - x) <= c
    <3>1. kartu[a] # <<>>
      BY <1>3, <2>1 DEF Saldo, Sesudah, SaldoKosong
    <3>2. QED BY <1>3, <2>1, <2>2, <2>4, <3>1, TerjagaSelisih DEF SelisihTerbatas
  <2>6. 2 * (x - 100 * n) <= 100 /\ -(2 * (x - 100 * n)) <= 100
    BY ZenonT(30), <1>4, <1>12, <2>1, <2>2, NilaiDariBenar
  <2>7. c \in Int
    <3>1. PICK t \in Seq(BarisNilai) : t = kartu[a]
      BY <1>6 DEF KartuBaik
    <3>2. BarisBaik(t)
      BY <1>6, <3>1 DEF KartuBaik
    <3>3. t # <<>>
      BY <1>3, <2>1, <3>1 DEF Saldo, Sesudah, SaldoKosong
    <3>4. Terhitung(t) \subseteq 1..Len(t) /\ 1 \in Terhitung(t) /\ Len(t) \in Nat
      BY <3>2, <3>3 DEF BarisBaik, Terhitung
    <3>5. Terhitung(t) \subseteq Nat /\ IsFiniteSet(Terhitung(t))
      BY <3>4, BagianSelang
    <3>6. PICK j : j = Max(Terhitung(t))
      OBVIOUS
    <3>7. j \in Terhitung(t)
      BY <3>4, <3>5, <3>6, AdaMaks
    <3>8. j \in Nat /\ t[j] \in BarisNilai
      BY <3>4, <3>7
    <3>9. c = t[j].saldo.stok + 100 * (Len(t) - j)
      BY <2>4, <3>1, <3>6 DEF BatasSelisih, RataDihitung, Terhitung
    <3>10. t[j].saldo.stok \in Nat
      BY <3>8 DEF BarisNilai, SaldoSah
    <3>11. QED BY <3>4, <3>8, <3>9, <3>10
  <2>8. 200 * (n - l.nilai) <= c + 100 /\ -200 * (n - l.nilai) <= c + 100
    BY <1>12, <2>3, <2>5, <2>6, <2>7
  <2>9. NilaiSeluruh(kartu') - NilaiSeluruh(kartu) = n - l.nilai
    BY <1>11, <1>12, <2>1
  <2>10. QED BY <1>9, <1>14, <2>4, <2>8, <2>9
<1>15. QED BY <1>13, <1>14

\* MutasiTerjaga: a transfer conserves the value of the stock.
THEOREM MutasiSelaluTerjaga == SpecNilai => MutasiTerjaga
<1>1. TerjagaNilai /\ [NextNilai]_varsNilai =>
        [Len(dokumen') > Len(dokumen) =>
           \A a, b \in Ruang : \A q \in Qty : Mutasi(a, b, q) =>
             LET beda == NilaiSeluruh(kartu') - NilaiSeluruh(kartu)
                 batas == IF Sesudah(kartu', a).stok > 0 THEN 0 ELSE BatasSelisih(a) + 100
             IN 200 * beda <= batas /\ -200 * beda <= batas]_varsNilai
  BY MutasiTertutup
<1>2. QED BY <1>1, NilaiSelalu, PTL DEF SpecNilai, MutasiTerjaga

\* The bound on the documents.
DokumenTerbatas == TerjagaNilai /\ Len(dokumen) <= MaksDok

LEMMA TipeNilaiLangkah == DokumenTerbatas /\ [NextNilai]_varsNilai => DokumenTerbatas'
<1> SUFFICES ASSUME DokumenTerbatas, [NextNilai]_varsNilai PROVE DokumenTerbatas'
  OBVIOUS
<1>1. TerjagaNilai /\ TerjagaNilai' /\ dokumen \in Seq(DokumenNilai) /\ Len(dokumen) <= MaksDok
  BY NilaiLangkah DEF DokumenTerbatas, TerjagaNilai
<1>2. CASE Buat
  <2>1. Len(dokumen) < MaksDok /\ \E d : dokumen' = Append(dokumen, d)
    BY <1>2 DEF Buat, Terima, Keluarkan, Mutasi, Lebih, Catat
  <2>2. Len(dokumen') <= MaksDok
    BY <1>1, <2>1, AsumsiNilai
  <2>3. QED BY <1>1, <2>2 DEF DokumenTerbatas
<1>3. CASE \E i \in DOMAIN dokumen : Batal(i)
  <2>1. DOMAIN dokumen' = DOMAIN dokumen
    BY <1>3 DEF Batal
  <2>2. dokumen' \in Seq(DokumenNilai)
    BY <1>1 DEF TerjagaNilai
  <2>3. Len(dokumen') = Len(dokumen)
    BY <1>1, <2>1, <2>2
  <2>4. QED BY <1>1, <2>3 DEF DokumenTerbatas
<1>4. CASE UNCHANGED varsNilai
  BY <1>1, <1>4 DEF DokumenTerbatas, varsNilai
<1>5. QED BY <1>2, <1>3, <1>4 DEF NextNilai, Habis

\* TypeOKNilai: every balance a natural number.
LEMMA TipeNilaiSelalu == SpecNilai => []TypeOKNilai
<1>1. InitNilai => DokumenTerbatas
  <2> SUFFICES ASSUME InitNilai PROVE DokumenTerbatas
    OBVIOUS
  <2>1. Len(dokumen) = 0
    BY DEF InitNilai
  <2>2. QED BY <2>1, NilaiAwal, AsumsiNilai DEF DokumenTerbatas
<1>2. DokumenTerbatas => TypeOKNilai
  <2> SUFFICES ASSUME DokumenTerbatas PROVE TypeOKNilai
    OBVIOUS
  <2>1. kartu \in [Ruang -> Seq(BarisNilai)] /\ Len(dokumen) <= MaksDok
    BY DEF DokumenTerbatas, TerjagaNilai, KartuBaik
  <2>2. ASSUME NEW r \in Ruang, NEW i \in DOMAIN kartu[r]
        PROVE  kartu[r][i].saldo \in [stok : Nat, nilai : Nat, hpp : Nat]
    <3>1. kartu[r] \in Seq(BarisNilai)
      BY <2>1
    <3>2. kartu[r][i] \in BarisNilai
      BY <3>1
    <3>3. QED BY <3>2 DEF BarisNilai, SaldoSah
  <2>3. QED BY <2>1, <2>2 DEF TypeOKNilai
<1>3. QED BY <1>1, <1>2, TipeNilaiLangkah, PTL DEF SpecNilai

-----------------------------------------------------------------------------
(***************************************************************************)
(* Laporan: what is read back from the ledger is what was written to it.   *)
(***************************************************************************)
JenisLap == {"PEMBELIAN", "PENJUALAN", "MUTASI_KELUAR", "MUTASI_MASUK", "PEMBATALAN_TRANSAKSI"}

BarisLap ==
  [b : BarangLap, r : RuangLap, tgl : TglLap, jenis : JenisLap, awal : Nat, masuk : Nat,
   keluar : Nat, akhir : Nat, nm : Nat, nk : Nat, nilai : Nat, hpp : Nat, asal : Nat, mitra : RuangLap]

\* What the job expects of the row x after the balance l.
CocokDengan(x, l) ==
  /\ x.akhir >= 0 /\ x.awal = l.stok /\ x.akhir = l.stok + x.masuk - x.keluar
  /\ x.nk = IF x.masuk > 0 THEN 0 ELSE NilaiDari(x.keluar, l.hpp)
  /\ x.hpp = IF x.masuk > 0 /\ x.akhir > 0 THEN HppDari(l.nilai + x.nm, x.akhir) ELSE l.hpp
  /\ x.nilai = IF x.akhir = 0 THEN 0
               ELSE IF x.masuk > 0 THEN l.nilai + x.nm ELSE l.nilai - NilaiDari(x.keluar, l.hpp)

LEMMA MenyimpangUrai ==
  ASSUME NEW k, NEW i, k[i].akhir \in Int
  PROVE  Menyimpang(k, i) <=> ~CocokDengan(k[i], Lag(k, i))
<1>1. PICK x : x = k[i]
  OBVIOUS
<1>2. PICK h : h = Harap(k, i)
  OBVIOUS
<1>3. PICK l : l = Lag(k, i)
  OBVIOUS
<1>4. /\ h.awal = l.stok /\ h.akhir = l.stok + x.masuk - x.keluar
      /\ h.nk = IF x.masuk > 0 THEN 0 ELSE NilaiDari(x.keluar, l.hpp)
      /\ h.hpp = IF x.masuk > 0 /\ h.akhir > 0 THEN HppDari(l.nilai + x.nm, h.akhir) ELSE l.hpp
      /\ h.nilai = IF h.akhir = 0 THEN 0
                   ELSE IF x.masuk > 0 THEN l.nilai + x.nm ELSE l.nilai - NilaiDari(x.keluar, l.hpp)
  BY <1>1, <1>2, <1>3 DEF Harap
<1>5. Menyimpang(k, i) <=>
        x.akhir < 0 \/ \E kolom \in {"awal", "akhir", "nk", "hpp", "nilai"} : x[kolom] # h[kolom]
  BY <1>1, <1>2 DEF Menyimpang
<1>6. (\E kolom \in {"awal", "akhir", "nk", "hpp", "nilai"} : x[kolom] # h[kolom]) <=>
        x.awal # h.awal \/ x.akhir # h.akhir \/ x.nk # h.nk \/ x.hpp # h.hpp \/ x.nilai # h.nilai
  OBVIOUS
<1>7. QED BY <1>1, <1>3, <1>4, <1>5, <1>6 DEF CocokDengan

-----------------------------------------------------------------------------
(* The balance a set of rows ends with.                                    *)
SaldoIdx(k, I) ==
  IF I = {} THEN SaldoKosong ELSE [stok |-> k[Max(I)].akhir, nilai |-> k[Max(I)].nilai, hpp |-> k[Max(I)].hpp]

Sebelum(k, i) == {j \in BarisPasangan(k, k[i].b, k[i].r) : j < i}

LEMMA SaldoUrai ==
  ASSUME NEW k
  PROVE  /\ \A b, r : Terakhir(k, b, r) = SaldoIdx(k, BarisPasangan(k, b, r))
         /\ \A i : Lag(k, i) = SaldoIdx(k, Sebelum(k, i))
BY DEF Terakhir, Lag, SaldoIdx, Sebelum

LEMMA BarisTipe ==
  ASSUME NEW x \in BarisLap
  PROVE  /\ x.awal \in Nat /\ x.masuk \in Nat /\ x.keluar \in Nat /\ x.akhir \in Nat
         /\ x.nm \in Nat /\ x.nk \in Nat /\ x.nilai \in Nat /\ x.hpp \in Nat /\ x.asal \in Nat
         /\ x.b \in BarangLap /\ x.r \in RuangLap /\ x.tgl \in TglLap /\ x.jenis \in JenisLap
         /\ x.mitra \in RuangLap
BY DEF BarisLap

\* Ids are numbers, and there is a last one.
LEMMA IdTerakhir ==
  ASSUME NEW k \in Seq(BarisLap), NEW I, I \subseteq DOMAIN k, I # {}
  PROVE  Max(I) \in I /\ \A j \in I : j <= Max(I)
<1>1. DOMAIN k = 1..Len(k) /\ Len(k) \in Nat
  OBVIOUS
<1>2. I \subseteq Nat /\ IsFiniteSet(I)
  BY <1>1, BagianSelang
<1>3. QED BY <1>2, AdaMaks

LEMMA PasanganBaris ==
  ASSUME NEW k
  PROVE  /\ \A b, r : BarisPasangan(k, b, r) \subseteq DOMAIN k
         /\ \A i : Sebelum(k, i) \subseteq DOMAIN k
BY DEF BarisPasangan, Sebelum

LEMMA SaldoIdxSah ==
  ASSUME NEW k \in Seq(BarisLap), NEW I, I \subseteq DOMAIN k
  PROVE  SaldoIdx(k, I) \in SaldoSah
<1>1. CASE I = {}
  BY <1>1 DEF SaldoIdx, SaldoKosong, SaldoSah
<1>2. CASE I # {}
  <2>1. k[Max(I)] \in BarisLap
    BY <1>2, IdTerakhir
  <2>2. PICK x : x = k[Max(I)]
    OBVIOUS
  <2>3. x.akhir \in Nat /\ x.nilai \in Nat /\ x.hpp \in Nat
    BY <2>1, <2>2 DEF BarisLap
  <2>4. QED BY <1>2, <2>2, <2>3 DEF SaldoIdx, SaldoSah
<1>3. QED BY <1>1, <1>2

LEMMA TerakhirSah ==
  ASSUME NEW k \in Seq(BarisLap), NEW b, NEW r
  PROVE  Terakhir(k, b, r) \in SaldoSah
BY SaldoUrai, PasanganBaris, SaldoIdxSah

LEMMA SaldoIdxSama ==
  ASSUME NEW k \in Seq(BarisLap), NEW h, NEW I, I \subseteq DOMAIN k,
         \A j \in I : h[j].akhir = k[j].akhir /\ h[j].nilai = k[j].nilai /\ h[j].hpp = k[j].hpp
  PROVE  SaldoIdx(h, I) = SaldoIdx(k, I)
<1>1. CASE I = {}
  BY <1>1 DEF SaldoIdx
<1>2. CASE I # {}
  BY <1>2, IdTerakhir DEF SaldoIdx
<1>3. QED BY <1>1, <1>2

\* A row more.
LEMMA TambahBaris ==
  ASSUME NEW k \in Seq(BarisLap), NEW x \in BarisLap
  PROVE  LET h == Append(k, x)
             n == Len(k) + 1 IN
         /\ h \in Seq(BarisLap) /\ DOMAIN h = DOMAIN k \cup {n} /\ n \notin DOMAIN k
         /\ Len(h) = n /\ n \in Nat /\ h[n] = x /\ \A j \in DOMAIN k : h[j] = k[j] /\ j < n
         /\ \A b, r : BarisPasangan(h, b, r) =
              BarisPasangan(k, b, r) \cup (IF x.b = b /\ x.r = r THEN {n} ELSE {})
         /\ \A j \in DOMAIN k : Lag(h, j) = Lag(k, j)
         /\ Lag(h, n) = Terakhir(k, x.b, x.r)
<1>1. PICK h : h = Append(k, x)
  OBVIOUS
<1>2. PICK n : n = Len(k) + 1
  OBVIOUS
<1>3. /\ h \in Seq(BarisLap) /\ DOMAIN h = DOMAIN k \cup {n} /\ n \notin DOMAIN k
      /\ Len(h) = n /\ n \in Nat /\ h[n] = x /\ \A j \in DOMAIN k : h[j] = k[j] /\ j < n /\ j \in Nat
  BY <1>1, <1>2
<1>4. \A b, r : BarisPasangan(h, b, r) =
                  BarisPasangan(k, b, r) \cup (IF x.b = b /\ x.r = r THEN {n} ELSE {})
  BY <1>3 DEF BarisPasangan
<1>5. \A b, r : \A j \in BarisPasangan(k, b, r) : j \in DOMAIN k
  BY DEF BarisPasangan
<1>6. ASSUME NEW j \in DOMAIN k PROVE Lag(h, j) = Lag(k, j)
  <2>1. Sebelum(h, j) = Sebelum(k, j)
    BY <1>3, <1>4, <1>5, <1>6 DEF Sebelum
  <2>2. Sebelum(k, j) \subseteq DOMAIN k
    BY PasanganBaris
  <2>3. SaldoIdx(h, Sebelum(k, j)) = SaldoIdx(k, Sebelum(k, j))
    BY <1>3, <2>2, SaldoIdxSama
  <2>4. QED BY <2>1, <2>3, SaldoUrai
<1>7. Lag(h, n) = Terakhir(k, x.b, x.r)
  <2>1. Sebelum(h, n) = BarisPasangan(k, x.b, x.r)
    BY <1>3, <1>4, <1>5 DEF Sebelum
  <2>2. BarisPasangan(k, x.b, x.r) \subseteq DOMAIN k
    BY PasanganBaris
  <2>3. SaldoIdx(h, BarisPasangan(k, x.b, x.r)) = SaldoIdx(k, BarisPasangan(k, x.b, x.r))
    BY <1>3, <2>2, SaldoIdxSama
  <2>4. QED BY <2>1, <2>3, SaldoUrai
<1>8. QED BY <1>1, <1>2, <1>3, <1>4, <1>6, <1>7

LEMMA TambahTerakhir ==
  ASSUME NEW k \in Seq(BarisLap), NEW x \in BarisLap, NEW b, NEW r
  PROVE  LET t == Terakhir(Append(k, x), b, r) IN
         /\ x.b = b /\ x.r = r => t.stok = x.akhir /\ t.nilai = x.nilai /\ t.hpp = x.hpp
         /\ ~(x.b = b /\ x.r = r) => t = Terakhir(k, b, r)
<1>0. PICK h : h = Append(k, x)
  OBVIOUS
<1>1. PICK n : n = Len(k) + 1
  OBVIOUS
<1>2. /\ h \in Seq(BarisLap) /\ DOMAIN h = DOMAIN k \cup {n} /\ n \in Nat
      /\ h[n] = x /\ \A j \in DOMAIN k : h[j] = k[j] /\ j < n
      /\ BarisPasangan(h, b, r) = BarisPasangan(k, b, r) \cup (IF x.b = b /\ x.r = r THEN {n} ELSE {})
  BY <1>0, <1>1, TambahBaris
<1>3. BarisPasangan(k, b, r) \subseteq DOMAIN k /\ BarisPasangan(h, b, r) \subseteq DOMAIN h
  BY PasanganBaris
<1>4. CASE x.b = b /\ x.r = r
  <2>1. PICK I : I = BarisPasangan(h, b, r)
    OBVIOUS
  <2>2. n \in I /\ I \subseteq DOMAIN h
    BY <1>2, <1>3, <1>4, <2>1
  <2>3. Max(I) \in I /\ n <= Max(I)
    BY <1>2, <2>2, IdTerakhir
  <2>4. PICK m : m = Max(I)
    OBVIOUS
  <2>5. m = n
    <3>1. m \in DOMAIN k \cup {n} /\ n <= m
      BY <1>2, <2>2, <2>3, <2>4
    <3>2. \A j \in DOMAIN k : j < n /\ j \in Nat
      BY <1>2
    <3>3. QED BY <1>2, <3>1, <3>2
  <2>6. SaldoIdx(h, I) = [stok |-> h[m].akhir, nilai |-> h[m].nilai, hpp |-> h[m].hpp]
    BY <2>2, <2>4 DEF SaldoIdx
  <2>7. Terakhir(h, b, r) = SaldoIdx(h, I)
    BY <2>1, SaldoUrai
  <2>8. QED BY <1>0, <1>2, <1>4, <2>5, <2>6, <2>7
<1>5. CASE ~(x.b = b /\ x.r = r)
  <2>1. BarisPasangan(h, b, r) = BarisPasangan(k, b, r)
    BY <1>2, <1>5
  <2>2. PICK I : I = BarisPasangan(k, b, r)
    OBVIOUS
  <2>3. I \subseteq DOMAIN k
    BY <1>3, <2>2
  <2>4. \A j \in I : h[j].akhir = k[j].akhir /\ h[j].nilai = k[j].nilai /\ h[j].hpp = k[j].hpp
    BY <1>2, <2>3
  <2>5. SaldoIdx(h, I) = SaldoIdx(k, I)
    BY <2>3, <2>4, SaldoIdxSama
  <2>6. Terakhir(h, b, r) = SaldoIdx(h, I) /\ Terakhir(k, b, r) = SaldoIdx(k, I)
    BY <2>1, <2>2, SaldoUrai
  <2>7. QED BY <1>0, <1>5, <2>5, <2>6
<1>6. QED BY <1>0, <1>4, <1>5

-----------------------------------------------------------------------------
(* A row the trigger completed is what the job expects.                    *)
SatuArah(x) == (x.masuk > 0 /\ x.keluar = 0) \/ (x.masuk = 0 /\ x.keluar > 0)

LEMMA BarisBenar ==
  ASSUME NEW k \in Seq(BarisLap), NEW b \in BarangLap, NEW r \in RuangLap, NEW tgl \in TglLap,
         NEW jenis \in JenisLap, NEW masuk \in Nat, NEW keluar \in Nat, NEW nm \in Nat,
         NEW asal \in Nat, NEW mitra \in RuangLap,
         (masuk > 0 /\ keluar = 0) \/ (masuk = 0 /\ keluar > 0),
         masuk = 0 => BolehTulis(Append(k, BarisLedger(k, b, r, tgl, jenis, masuk, keluar, nm, asal, mitra)))
  PROVE  LET x == BarisLedger(k, b, r, tgl, jenis, masuk, keluar, nm, asal, mitra) IN
         /\ x \in BarisLap /\ SatuArah(x) /\ CocokDengan(x, Terakhir(k, b, r))
         /\ x.b = b /\ x.r = r /\ x.tgl = tgl /\ x.jenis = jenis /\ x.masuk = masuk
         /\ x.keluar = keluar /\ x.asal = asal /\ x.mitra = mitra
<1>a. PICK x : x = BarisLedger(k, b, r, tgl, jenis, masuk, keluar, nm, asal, mitra)
  OBVIOUS
<1>b. masuk = 0 => x.akhir >= 0 /\ x.nilai >= 0
  <2>1. Append(k, x)[Len(Append(k, x))] = x
    OBVIOUS
  <2>2. QED BY <1>a, <2>1 DEF BolehTulis
<1>1. PICK l : l = Terakhir(k, b, r)
  OBVIOUS
<1>2. PICK s : s = IF masuk > 0 THEN SetelahMasuk(l, masuk, nm) ELSE SetelahKeluar(l, keluar)
  OBVIOUS
<1>3. l \in SaldoSah /\ l.stok \in Nat /\ l.nilai \in Nat /\ l.hpp \in Nat
  <2>1. l \in SaldoSah
    BY <1>1, TerakhirSah
  <2>2. QED BY <2>1 DEF SaldoSah
<1>4. PICK nk : nk = IF masuk > 0 THEN 0 ELSE NilaiDari(keluar, l.hpp)
  OBVIOUS
<1>5. x = [b |-> b, r |-> r, tgl |-> tgl, jenis |-> jenis, awal |-> l.stok, masuk |-> masuk,
           keluar |-> keluar, akhir |-> s.stok, nm |-> nm, nk |-> nk,
           nilai |-> s.nilai, hpp |-> s.hpp, asal |-> asal, mitra |-> mitra]
  BY <1>a, <1>1, <1>2, <1>4 DEF BarisLedger
<1>6. /\ x.b = b /\ x.r = r /\ x.tgl = tgl /\ x.jenis = jenis /\ x.awal = l.stok /\ x.masuk = masuk
      /\ x.keluar = keluar /\ x.akhir = s.stok /\ x.nm = nm /\ x.nk = nk
      /\ x.nilai = s.nilai /\ x.hpp = s.hpp /\ x.asal = asal /\ x.mitra = mitra
  BY <1>5
<1>7. nk \in Nat
  BY <1>3, <1>4, NilaiDariBenar
<1>8. s \in SaldoSah
  <2>1. CASE masuk > 0
    BY <1>2, <1>3, <2>1, MasukBaik
  <2>2. CASE masuk = 0
    <3>1. s = SetelahKeluar(l, keluar) /\ Diterima(s)
      BY <1>b, <1>2, <1>6, <2>2 DEF Diterima
    <3>2. QED BY <1>3, <3>1, KeluarBaik
  <2>3. QED BY <2>1, <2>2
<1>9. s.stok \in Nat /\ s.nilai \in Nat /\ s.hpp \in Nat
  BY <1>8 DEF SaldoSah
<1>10. x \in BarisLap
  BY <1>3, <1>5, <1>7, <1>9 DEF BarisLap
<1>11. CocokDengan(x, l)
  <2>1. CASE masuk > 0
    <3>1. s.stok = l.stok + masuk /\ s.nilai = l.nilai + nm /\ s.hpp = HppDari(l.nilai + nm, l.stok + masuk)
      BY <1>2, <2>1 DEF SetelahMasuk
    <3>2. QED BY <1>3, <1>4, <1>6, <1>9, <2>1, <3>1 DEF CocokDengan
  <2>2. CASE masuk = 0
    <3>1. /\ s.stok = l.stok - keluar /\ s.hpp = l.hpp
          /\ s.nilai = IF l.stok = keluar THEN 0 ELSE l.nilai - NilaiDari(keluar, l.hpp)
      BY <1>2, <2>2 DEF SetelahKeluar
    <3>2. QED BY <1>3, <1>4, <1>6, <1>9, <2>2, <3>1 DEF CocokDengan
  <2>3. QED BY <2>1, <2>2
<1>12. QED BY <1>a, <1>1, <1>6, <1>10, <1>11 DEF SatuArah

-----------------------------------------------------------------------------
(* A ledger k of which the rows R were changed by hand.                    *)
Arus(k) == [i \in DOMAIN k |-> k[i].masuk - k[i].keluar]

Sepasang(x, y) == x.b = y.b /\ x.r = y.r

RantaiBaik(k, R) ==
  /\ R = {} \/ \E m \in DOMAIN k : R = {m}
  /\ \A m \in R : Menyimpang(k, m)
  /\ \A i \in DOMAIN k : Menyimpang(k, i) => \E m \in R : Sepasang(k[m], k[i]) /\ m <= i

ArusBaik(k, R) ==
  R = {} => \A b, r : Jml(Arus(k), BarisPasangan(k, b, r)) = Terakhir(k, b, r).stok

LedgerBaik(k, R) ==
  /\ k \in Seq(BarisLap) /\ \A i \in DOMAIN k : SatuArah(k[i])
  /\ RantaiBaik(k, R) /\ ArusBaik(k, R)

LEMMA TulisRantai ==
  ASSUME NEW k, NEW R, LedgerBaik(k, R), NEW x \in BarisLap, CocokDengan(x, Terakhir(k, x.b, x.r)),
         NEW h, h = Append(k, x)
  PROVE  RantaiBaik(h, R)
<1>1. PICK n : n = Len(k) + 1
  OBVIOUS
<1>2. /\ h \in Seq(BarisLap) /\ DOMAIN h = DOMAIN k \cup {n} /\ n \notin DOMAIN k
      /\ h[n] = x /\ \A j \in DOMAIN k : h[j] = k[j] /\ Lag(h, j) = Lag(k, j)
      /\ Lag(h, n) = Terakhir(k, x.b, x.r)
  BY <1>1, TambahBaris DEF LedgerBaik
<1>3. \A j \in DOMAIN h : h[j].akhir \in Int
  <2>1. \A j \in DOMAIN h : h[j] \in BarisLap
    BY <1>2
  <2>2. QED BY <2>1, BarisTipe
<1>4. ~Menyimpang(h, n)
  BY <1>2, <1>3, MenyimpangUrai
<1>5. \A j \in DOMAIN k : Menyimpang(h, j) <=> Menyimpang(k, j)
  BY <1>2, <1>3, MenyimpangUrai
<1>6. R \subseteq DOMAIN k
  BY DEF LedgerBaik, RantaiBaik
<1>7. \A i \in DOMAIN h : Menyimpang(h, i) => \E m \in R : Sepasang(h[m], h[i]) /\ m <= i
  BY <1>2, <1>4, <1>5, <1>6 DEF LedgerBaik, RantaiBaik
<1>8. QED BY <1>2, <1>5, <1>6, <1>7 DEF LedgerBaik, RantaiBaik

LEMMA TulisArus ==
  ASSUME NEW k, NEW R, LedgerBaik(k, R), NEW x \in BarisLap, CocokDengan(x, Terakhir(k, x.b, x.r)),
         NEW h, h = Append(k, x)
  PROVE  ArusBaik(h, R)
<1> SUFFICES ASSUME R = {}, NEW b, NEW r
             PROVE  Jml(Arus(h), BarisPasangan(h, b, r)) = Terakhir(h, b, r).stok
  BY DEF ArusBaik
<1>1. PICK n : n = Len(k) + 1
  OBVIOUS
<1>2. PICK I : I = BarisPasangan(k, b, r)
  OBVIOUS
<1>3. PICK H : H = BarisPasangan(h, b, r)
  OBVIOUS
<1>4. PICK f : f = Arus(k)
  OBVIOUS
<1>5. PICK g : g = Arus(h)
  OBVIOUS
<1>6. /\ k \in Seq(BarisLap) /\ h \in Seq(BarisLap) /\ DOMAIN h = DOMAIN k \cup {n} /\ n \notin DOMAIN k
      /\ h[n] = x /\ \A j \in DOMAIN k : h[j] = k[j]
      /\ H = I \cup (IF x.b = b /\ x.r = r THEN {n} ELSE {})
  BY <1>1, <1>2, <1>3, TambahBaris DEF LedgerBaik
<1>7. I \subseteq DOMAIN k
  BY <1>2, PasanganBaris
<1>8. IsFiniteSet(I) /\ IsFiniteSet(H)
  <2>1. DOMAIN k = 1..Len(k) /\ Len(k) \in Nat
    BY <1>6
  <2>2. IsFiniteSet(I)
    BY <1>7, <2>1, BagianSelang
  <2>3. H \subseteq DOMAIN h /\ DOMAIN h = 1..Len(h) /\ Len(h) \in Nat
    BY <1>6, <1>7
  <2>4. QED BY <2>2, <2>3, BagianSelang
<1>9. \A j \in H : g[j] \in Int
  <2> SUFFICES ASSUME NEW j \in H PROVE g[j] \in Int
    OBVIOUS
  <2>1. j \in DOMAIN h /\ h[j] \in BarisLap
    BY <1>6, <1>7
  <2>2. g[j] = h[j].masuk - h[j].keluar
    BY <1>5, <2>1 DEF Arus
  <2>3. h[j].masuk \in Nat /\ h[j].keluar \in Nat
    BY <2>1, BarisTipe
  <2>4. PICK u \in Nat : u = h[j].masuk
    BY <2>3
  <2>5. PICK v \in Nat : v = h[j].keluar
    BY <2>3
  <2>6. u - v \in Int
    OBVIOUS
  <2>7. QED BY <2>2, <2>4, <2>5, <2>6
<1>10. Jml(g, I) = Jml(f, I)
  <2>1. \A j \in I : g[j] = f[j]
    BY <1>4, <1>5, <1>6, <1>7 DEF Arus
  <2>2. QED BY <1>8, <2>1, JmlSama
<1>11. Jml(f, I) = Terakhir(k, b, r).stok
  BY <1>2, <1>4 DEF LedgerBaik, ArusBaik
<1>12. PICK l : l = Terakhir(k, b, r)
  OBVIOUS
<1>13. l.stok \in Nat
  BY <1>6, <1>12, TerakhirSah DEF SaldoSah
<1>14. CASE x.b = b /\ x.r = r
  <2>1. n \in H /\ H \ {n} = I
    BY <1>6, <1>7, <1>14
  <2>2. Jml(g, H) = g[n] + Jml(g, I)
    BY <1>8, <1>9, <2>1, JmlAmbil
  <2>3. g[n] = x.masuk - x.keluar /\ x.masuk \in Nat /\ x.keluar \in Nat
    BY <1>5, <1>6 DEF Arus, BarisLap
  <2>4. x.akhir = l.stok + x.masuk - x.keluar
    BY <1>12, <1>14 DEF CocokDengan
  <2>5. Terakhir(h, b, r).stok = x.akhir
    BY <1>6, <1>14, TambahTerakhir
  <2>6. QED BY <1>3, <1>5, <1>10, <1>11, <1>12, <1>13, <2>2, <2>3, <2>4, <2>5
<1>15. CASE ~(x.b = b /\ x.r = r)
  <2>1. H = I
    BY <1>6, <1>15
  <2>2. Terakhir(h, b, r) = Terakhir(k, b, r)
    BY <1>6, <1>15, TambahTerakhir
  <2>3. QED BY <1>3, <1>5, <1>10, <1>11, <2>1, <2>2
<1>16. QED BY <1>14, <1>15

LEMMA TulisBaik ==
  ASSUME NEW k, NEW R, LedgerBaik(k, R), NEW x \in BarisLap, SatuArah(x),
         CocokDengan(x, Terakhir(k, x.b, x.r)), NEW h, h = Append(k, x)
  PROVE  LedgerBaik(h, R)
<1>1. h \in Seq(BarisLap) /\ \A i \in DOMAIN h : SatuArah(h[i])
  BY DEF LedgerBaik
<1>2. RantaiBaik(h, R)
  BY TulisRantai
<1>3. ArusBaik(h, R)
  BY TulisArus
<1>4. QED BY <1>1, <1>2, <1>3 DEF LedgerBaik

-----------------------------------------------------------------------------
(* The steps.                                                              *)
LedgerInv == LedgerBaik(ledger, rusak)

LEMMA DatangSah ==
  ASSUME LedgerInv, NEW b \in BarangLap, NEW r \in RuangLap, NEW q \in QtyLap, NEW n \in NilaiLap,
         NEW t \in TglLap, DatangLap(b, r, q, n, t), UNCHANGED rusak
  PROVE  LedgerInv'
<1>1. PICK x : x = BarisLedger(ledger, b, r, t, "PEMBELIAN", q, 0, n, 0, r)
  OBVIOUS
<1>2. q \in Nat /\ q > 0 /\ n \in Nat /\ "PEMBELIAN" \in JenisLap /\ ledger \in Seq(BarisLap)
  BY AsumsiLaporan DEF AsumsiLaporan, JenisLap, LedgerInv, LedgerBaik
<1>3. x \in BarisLap /\ SatuArah(x) /\ CocokDengan(x, Terakhir(ledger, x.b, x.r))
  BY <1>1, <1>2, BarisBenar
<1>4. PICK h : h = Append(ledger, x)
  OBVIOUS
<1>5. LedgerBaik(h, rusak)
  BY <1>3, <1>4, TulisBaik DEF LedgerInv
<1>6. ledger' = h
  BY <1>1, <1>4 DEF DatangLap
<1>7. QED BY <1>5, <1>6 DEF LedgerInv

LEMMA JualSah ==
  ASSUME LedgerInv, NEW b \in BarangLap, NEW r \in RuangLap, NEW q \in QtyLap,
         NEW t \in TglLap, JualLap(b, r, q, t), UNCHANGED rusak
  PROVE  LedgerInv'
<1>1. PICK x : x = BarisLedger(ledger, b, r, t, "PENJUALAN", 0, q, 0, 0, r)
  OBVIOUS
<1>2. q \in Nat /\ q > 0 /\ "PENJUALAN" \in JenisLap /\ ledger \in Seq(BarisLap)
  BY AsumsiLaporan DEF AsumsiLaporan, JenisLap, LedgerInv, LedgerBaik
<1>3. PICK h : h = Append(ledger, x)
  OBVIOUS
<1>4. ledger' = h /\ BolehTulis(h)
  BY <1>1, <1>3 DEF JualLap
<1>5. x \in BarisLap /\ SatuArah(x) /\ CocokDengan(x, Terakhir(ledger, x.b, x.r))
  BY <1>1, <1>2, <1>3, <1>4, BarisBenar
<1>6. LedgerBaik(h, rusak)
  BY <1>3, <1>5, TulisBaik DEF LedgerInv
<1>7. QED BY <1>4, <1>6 DEF LedgerInv

\* What a transfer writes.
LEMMA MutasiBaris ==
  ASSUME LedgerInv, NEW b \in BarangLap, NEW a \in RuangLap, NEW c \in RuangLap, NEW q \in QtyLap,
         NEW t \in TglLap, MutasiLap(b, a, c, q, t)
  PROVE  \E x \in BarisLap, y \in BarisLap :
            /\ ledger' = Append(Append(ledger, x), y) /\ SatuArah(x) /\ SatuArah(y)
            /\ CocokDengan(x, Terakhir(ledger, x.b, x.r))
            /\ CocokDengan(y, Terakhir(Append(ledger, x), y.b, y.r))
            /\ x.b = b /\ x.r = a /\ x.jenis = "MUTASI_KELUAR" /\ x.masuk = 0 /\ x.keluar = q /\ x.asal = 0
            /\ y.b = b /\ y.r = c /\ y.jenis = "MUTASI_MASUK" /\ y.masuk = q /\ y.keluar = 0 /\ y.asal = 0
            /\ y.mitra = a /\ a # c
<1>1. PICK x : x = BarisLedger(ledger, b, a, t, "MUTASI_KELUAR", 0, q, 0, 0, c)
  OBVIOUS
<1>2. /\ q \in Nat /\ q > 0 /\ ledger \in Seq(BarisLap) /\ 0 \in Nat
      /\ "MUTASI_KELUAR" \in JenisLap /\ "MUTASI_MASUK" \in JenisLap
  BY AsumsiLaporan DEF AsumsiLaporan, JenisLap, LedgerInv, LedgerBaik
<1>3. PICK h : h = Append(ledger, x)
  OBVIOUS
<1>4. BolehTulis(h) /\ ledger' = Append(h, BarisLedger(h, b, c, t, "MUTASI_MASUK", q, 0, h[Len(h)].nk, 0, a))
  BY <1>1, <1>3 DEF MutasiLap
<1>5. /\ x \in BarisLap /\ SatuArah(x) /\ CocokDengan(x, Terakhir(ledger, x.b, x.r))
      /\ x.b = b /\ x.r = a /\ x.jenis = "MUTASI_KELUAR" /\ x.masuk = 0 /\ x.keluar = q /\ x.asal = 0
  BY SMTT(20), <1>1, <1>2, <1>3, <1>4, BarisBenar
<1>6. h \in Seq(BarisLap) /\ h[Len(h)] = x
  BY <1>2, <1>3, <1>5
<1>7. PICK n : n = x.nk
  OBVIOUS
<1>8. n \in Nat
  BY <1>5, <1>7, BarisTipe
<1>9. PICK y : y = BarisLedger(h, b, c, t, "MUTASI_MASUK", q, 0, n, 0, a)
  OBVIOUS
<1>10. /\ y \in BarisLap /\ SatuArah(y) /\ CocokDengan(y, Terakhir(h, y.b, y.r))
       /\ y.b = b /\ y.r = c /\ y.jenis = "MUTASI_MASUK" /\ y.masuk = q /\ y.keluar = 0 /\ y.asal = 0
       /\ y.mitra = a
  <2>1. q > 0 /\ ~(q = 0)
    BY <1>2
  <2>2. /\ y \in BarisLap /\ SatuArah(y) /\ CocokDengan(y, Terakhir(h, b, c))
        /\ y.b = b /\ y.r = c /\ y.jenis = "MUTASI_MASUK" /\ y.masuk = q /\ y.keluar = 0
        /\ y.asal = 0 /\ y.mitra = a
    <3>1. h \in Seq(BarisLap) /\ q \in Nat /\ "MUTASI_MASUK" \in JenisLap
      BY <1>2, <1>6
    <3>2. PICK m \in Nat : m = q
      BY <3>1
    <3>3. (m > 0 /\ 0 = 0) \/ (m = 0 /\ 0 > 0)
      BY <2>1, <3>2
    <3>4. y = BarisLedger(h, b, c, t, "MUTASI_MASUK", m, 0, n, 0, a)
      BY <1>9, <3>2
    <3>5. m = 0 => BolehTulis(Append(h, BarisLedger(h, b, c, t, "MUTASI_MASUK", m, 0, n, 0, a)))
      BY <2>1, <3>2
    <3>6. /\ y \in BarisLap /\ SatuArah(y) /\ CocokDengan(y, Terakhir(h, b, c))
          /\ y.b = b /\ y.r = c /\ y.jenis = "MUTASI_MASUK" /\ y.masuk = m /\ y.keluar = 0
          /\ y.asal = 0 /\ y.mitra = a
      BY <1>8, <3>1, <3>3, <3>4, <3>5, BarisBenar
    <3>7. QED BY <3>2, <3>6
  <2>3. QED BY <2>2
<1>11. ledger' = Append(h, y)
  BY <1>4, <1>6, <1>7, <1>9
<1>12. a # c
  BY DEF MutasiLap
<1>13. QED BY <1>3, <1>5, <1>10, <1>11, <1>12

LEMMA MutasiLapSah ==
  ASSUME LedgerInv, NEW b \in BarangLap, NEW a \in RuangLap, NEW c \in RuangLap, NEW q \in QtyLap,
         NEW t \in TglLap, MutasiLap(b, a, c, q, t), UNCHANGED rusak
  PROVE  LedgerInv'
<1>1. PICK x \in BarisLap, y \in BarisLap :
         /\ ledger' = Append(Append(ledger, x), y) /\ SatuArah(x) /\ SatuArah(y)
         /\ CocokDengan(x, Terakhir(ledger, x.b, x.r))
         /\ CocokDengan(y, Terakhir(Append(ledger, x), y.b, y.r))
  BY MutasiBaris
<1>2. PICK h : h = Append(ledger, x)
  OBVIOUS
<1>3. LedgerBaik(h, rusak)
  BY <1>1, <1>2, TulisBaik DEF LedgerInv
<1>4. PICK g : g = Append(h, y)
  OBVIOUS
<1>5. LedgerBaik(g, rusak)
  BY <1>1, <1>2, <1>3, <1>4, TulisBaik
<1>6. ledger' = g
  BY <1>1, <1>2, <1>4
<1>7. QED BY <1>5, <1>6 DEF LedgerInv

\* What a cancellation writes.
LEMMA BalikBaris ==
  ASSUME LedgerInv, NEW i \in DOMAIN ledger, NEW t \in TglLap, BalikLap(i, t)
  PROVE  \E x \in BarisLap :
            /\ ledger' = Append(ledger, x) /\ SatuArah(x) /\ x.asal = i /\ x.jenis = "PEMBATALAN_TRANSAKSI"
            /\ CocokDengan(x, Terakhir(ledger, x.b, x.r))
<1>1. PICK z : z = ledger[i]
  OBVIOUS
<1>2. ledger \in Seq(BarisLap) /\ z \in BarisLap /\ SatuArah(z) /\ i \in Nat
  BY <1>1 DEF LedgerInv, LedgerBaik
<1>3. /\ z.masuk \in Nat /\ z.keluar \in Nat /\ z.nk \in Nat /\ z.b \in BarangLap /\ z.r \in RuangLap
      /\ (z.keluar > 0 /\ z.masuk = 0) \/ (z.keluar = 0 /\ z.masuk > 0)
  BY <1>2, BarisTipe DEF SatuArah
<1>4. PICK x : x = BarisLedger(ledger, z.b, z.r, t, "PEMBATALAN_TRANSAKSI", z.keluar, z.masuk, z.nk, i, z.r)
  OBVIOUS
<1>5. PICK h : h = Append(ledger, x)
  OBVIOUS
<1>6. ledger' = h /\ BolehTulis(h)
  BY <1>1, <1>4, <1>5 DEF BalikLap
<1>7. "PEMBATALAN_TRANSAKSI" \in JenisLap
  BY DEF JenisLap
<1>8. /\ x \in BarisLap /\ SatuArah(x) /\ CocokDengan(x, Terakhir(ledger, x.b, x.r)) /\ x.asal = i
      /\ x.jenis = "PEMBATALAN_TRANSAKSI"
  <2>1. PICK b \in BarangLap : b = z.b
    BY <1>3
  <2>2. PICK r \in RuangLap : r = z.r
    BY <1>3
  <2>3. PICK m \in Nat : m = z.keluar
    BY <1>3
  <2>4. PICK k \in Nat : k = z.masuk
    BY <1>3
  <2>5. PICK n \in Nat : n = z.nk
    BY <1>3
  <2>6. (m > 0 /\ k = 0) \/ (m = 0 /\ k > 0)
    BY <1>3, <2>3, <2>4
  <2>7. x = BarisLedger(ledger, b, r, t, "PEMBATALAN_TRANSAKSI", m, k, n, i, r)
    BY <1>4, <2>1, <2>2, <2>3, <2>4, <2>5
  <2>8. BolehTulis(Append(ledger, x))
    BY <1>5, <1>6
  <2>9. /\ x \in BarisLap /\ SatuArah(x) /\ CocokDengan(x, Terakhir(ledger, b, r)) /\ x.b = b /\ x.r = r
        /\ x.jenis = "PEMBATALAN_TRANSAKSI" /\ x.asal = i
    BY <1>2, <1>7, <2>6, <2>7, <2>8, BarisBenar
  <2>10. QED BY <2>9
<1>9. QED BY <1>5, <1>6, <1>8

LEMMA BalikSah ==
  ASSUME LedgerInv, NEW i \in DOMAIN ledger, NEW t \in TglLap, BalikLap(i, t), UNCHANGED rusak
  PROVE  LedgerInv'
<1>1. PICK x \in BarisLap : /\ ledger' = Append(ledger, x) /\ SatuArah(x)
                            /\ CocokDengan(x, Terakhir(ledger, x.b, x.r))
  BY BalikBaris
<1>2. PICK h : h = Append(ledger, x)
  OBVIOUS
<1>3. LedgerBaik(h, rusak)
  BY <1>1, <1>2, TulisBaik DEF LedgerInv
<1>4. ledger' = h
  BY <1>1, <1>2
<1>5. QED BY <1>3, <1>4 DEF LedgerInv

\* A figure changed by hand is not the one expected, and no other is.
KolomLap == {"awal", "akhir", "nk", "nilai", "hpp"}

UbahSatu(x, kolom) == [x EXCEPT ![kolom] = @ + 1]

LEMMA UbahBaris ==
  ASSUME NEW x \in BarisLap, NEW l, CocokDengan(x, l), NEW kolom \in KolomLap
  PROVE  LET y == UbahSatu(x, kolom) IN
         /\ y \in BarisLap /\ ~CocokDengan(y, l) /\ Sepasang(x, y)
         /\ y.masuk = x.masuk /\ y.keluar = x.keluar /\ y.nm = x.nm
<1>a. PICK y : y = UbahSatu(x, kolom)
  OBVIOUS
<1> SUFFICES /\ y \in BarisLap /\ ~CocokDengan(y, l) /\ Sepasang(x, y)
             /\ y.masuk = x.masuk /\ y.keluar = x.keluar /\ y.nm = x.nm
  BY <1>a
<1>0. y = [x EXCEPT ![kolom] = @ + 1]
  BY <1>a DEF UbahSatu
<1>1. /\ x.awal \in Nat /\ x.akhir \in Nat /\ x.nk \in Nat /\ x.nilai \in Nat /\ x.hpp \in Nat
      /\ x.masuk \in Nat /\ x.keluar \in Nat
  BY BarisTipe
<1>2. CASE kolom = "awal"
  <2>1. y = [x EXCEPT !.awal = x.awal + 1]
    BY <1>0, <1>2
  <2>2. QED BY <1>1, <2>1 DEF BarisLap, CocokDengan, Sepasang
<1>3. CASE kolom = "akhir"
  <2>1. y = [x EXCEPT !.akhir = x.akhir + 1]
    BY <1>0, <1>3
  <2>2. QED BY <1>1, <2>1 DEF BarisLap, CocokDengan, Sepasang
<1>4. CASE kolom = "nk"
  <2>1. y = [x EXCEPT !.nk = x.nk + 1]
    BY <1>0, <1>4
  <2>2. QED BY <1>1, <2>1 DEF BarisLap, CocokDengan, Sepasang
<1>5. CASE kolom = "nilai"
  <2>1. y = [x EXCEPT !.nilai = x.nilai + 1]
    BY <1>0, <1>5
  <2>2. QED BY <1>1, <2>1 DEF BarisLap, CocokDengan, Sepasang
<1>6. CASE kolom = "hpp"
  <2>1. y = [x EXCEPT !.hpp = x.hpp + 1]
    BY <1>0, <1>6
  <2>2. QED BY <1>1, <2>1 DEF BarisLap, CocokDengan, Sepasang
<1>7. QED BY <1>2, <1>3, <1>4, <1>5, <1>6 DEF KolomLap

\* A row changed in place: what was expected of it is expected still, and of
\* no row before it or of another pair is anything else expected.
LEMMA UbahLag ==
  ASSUME NEW k \in Seq(BarisLap), NEW i \in DOMAIN k, NEW y \in BarisLap, Sepasang(k[i], y),
         NEW j \in DOMAIN k, j <= i \/ ~Sepasang(k[i], k[j])
  PROVE  Lag([k EXCEPT ![i] = y], j) = Lag(k, j)
<1>0. PICK h : h = [k EXCEPT ![i] = y]
  OBVIOUS
<1>1. DOMAIN h = DOMAIN k /\ h[i] = y /\ \A m \in DOMAIN k : m # i => h[m] = k[m]
  BY <1>0
<1>2. \A m \in DOMAIN k : h[m].b = k[m].b /\ h[m].r = k[m].r
  BY <1>1 DEF Sepasang
<1>3. Sebelum(h, j) = Sebelum(k, j)
  BY <1>1, <1>2 DEF Sebelum, BarisPasangan
<1>4. i \notin Sebelum(k, j)
  <2>1. i \in Nat /\ j \in Nat
    OBVIOUS
  <2>2. QED BY <2>1 DEF Sebelum, BarisPasangan, Sepasang
<1>5. PICK I : I = Sebelum(k, j)
  OBVIOUS
<1>6. I \subseteq DOMAIN k
  BY <1>5, PasanganBaris
<1>7. \A m \in I : h[m].akhir = k[m].akhir /\ h[m].nilai = k[m].nilai /\ h[m].hpp = k[m].hpp
  BY <1>1, <1>4, <1>5, <1>6
<1>8. SaldoIdx(h, I) = SaldoIdx(k, I)
  BY <1>6, <1>7, SaldoIdxSama
<1>9. QED BY <1>0, <1>3, <1>5, <1>8, SaldoUrai

LEMMA UbahSah ==
  ASSUME LedgerInv, NEW i \in DOMAIN ledger, NEW kolom \in KolomLap, UbahTangan(i, kolom)
  PROVE  LedgerInv'
<1>1. PICK k \in Seq(BarisLap) : k = ledger
  BY DEF LedgerInv, LedgerBaik
<1>2. PICK x \in BarisLap : x = k[i]
  BY <1>1
<1>3. PICK y : y = UbahSatu(x, kolom)
  OBVIOUS
<1>4. PICK h : h = [k EXCEPT ![i] = y]
  OBVIOUS
<1>5. ledger' = h /\ rusak = {} /\ rusak' = {i}
  BY <1>1, <1>2, <1>3, <1>4 DEF UbahTangan, UbahSatu
<1>6. /\ \A j \in DOMAIN k : ~Menyimpang(k, j) /\ SatuArah(k[j]) /\ k[j] \in BarisLap
      /\ \A j \in DOMAIN k : CocokDengan(k[j], Lag(k, j))
  <2>1. \A j \in DOMAIN k : ~Menyimpang(k, j) /\ SatuArah(k[j]) /\ k[j] \in BarisLap
    BY <1>1, <1>5 DEF LedgerInv, LedgerBaik, RantaiBaik
  <2>2. \A j \in DOMAIN k : k[j].akhir \in Int
    BY <2>1, BarisTipe
  <2>3. QED BY <2>1, <2>2, MenyimpangUrai
<1>7. /\ y \in BarisLap /\ ~CocokDengan(y, Lag(k, i)) /\ Sepasang(x, y)
      /\ y.masuk = x.masuk /\ y.keluar = x.keluar
  <2>1. CocokDengan(x, Lag(k, i))
    BY <1>1, <1>2, <1>6
  <2>2. QED BY <1>3, <2>1, UbahBaris
<1>8. /\ h \in Seq(BarisLap) /\ DOMAIN h = DOMAIN k /\ h[i] = y
      /\ \A j \in DOMAIN k : j # i => h[j] = k[j]
  BY <1>1, <1>4, <1>7
<1>9. \A j \in DOMAIN h : SatuArah(h[j]) /\ h[j].akhir \in Int
  <2>1. SatuArah(y) /\ y.akhir \in Int
    BY <1>1, <1>2, <1>6, <1>7, BarisTipe DEF SatuArah
  <2>2. \A j \in DOMAIN k : k[j].akhir \in Int
    BY <1>6, BarisTipe
  <2>3. QED BY <1>6, <1>8, <2>1, <2>2
<1>10. \A j \in DOMAIN k : j <= i \/ ~Sepasang(k[i], k[j]) => Lag(h, j) = Lag(k, j)
  <2> SUFFICES ASSUME NEW j \in DOMAIN k, j <= i \/ ~Sepasang(k[i], k[j])
               PROVE  Lag(h, j) = Lag(k, j)
    OBVIOUS
  <2>1. i \in DOMAIN k /\ y \in BarisLap /\ Sepasang(k[i], y)
    BY <1>1, <1>2, <1>7
  <2>2. Lag([k EXCEPT ![i] = y], j) = Lag(k, j)
    BY <2>1, UbahLag
  <2>3. QED BY <1>4, <2>2
<1>11. Menyimpang(h, i)
  <2>1. i \in DOMAIN k /\ i <= i
    BY <1>1
  <2>2. Lag(h, i) = Lag(k, i)
    BY <1>10, <2>1
  <2>3. QED BY <1>7, <1>8, <1>9, <2>1, <2>2, MenyimpangUrai
<1>12. ASSUME NEW j \in DOMAIN h, Menyimpang(h, j) PROVE Sepasang(h[i], h[j]) /\ i <= j
  <2>1. CASE j = i
    BY <1>1, <2>1 DEF Sepasang
  <2>2. CASE j # i /\ (j <= i \/ ~Sepasang(k[i], k[j]))
    <3>1. h[j] = k[j] /\ Lag(h, j) = Lag(k, j) /\ j \in DOMAIN k
      BY <1>8, <1>10, <2>2
    <3>2. CocokDengan(h[j], Lag(h, j))
      BY <1>6, <3>1
    <3>3. QED BY <1>9, <1>12, <3>2, MenyimpangUrai
  <2>3. CASE j # i /\ ~(j <= i) /\ Sepasang(k[i], k[j])
    <3>1. i \in Nat /\ j \in Nat
      BY <1>1, <1>8
    <3>2. QED BY <1>2, <1>7, <1>8, <2>3, <3>1 DEF Sepasang
  <2>4. QED BY <2>1, <2>2, <2>3
<1>13. RantaiBaik(h, {i})
  BY <1>1, <1>8, <1>11, <1>12 DEF RantaiBaik
<1>14. ArusBaik(h, {i})
  BY DEF ArusBaik
<1>15. QED BY <1>5, <1>8, <1>9, <1>13, <1>14 DEF LedgerInv, LedgerBaik

LEMMA LedgerAwal == InitLaporan => LedgerInv
<1> SUFFICES ASSUME InitLaporan PROVE LedgerInv
  OBVIOUS
<1>1. ledger = <<>> /\ rusak = {} /\ ledger \in Seq(BarisLap) /\ DOMAIN ledger = {}
  BY DEF InitLaporan
<1>2. ASSUME NEW b, NEW r PROVE Jml(Arus(ledger), BarisPasangan(ledger, b, r)) = Terakhir(ledger, b, r).stok
  <2>1. BarisPasangan(ledger, b, r) = {}
    BY <1>1 DEF BarisPasangan
  <2>2. Terakhir(ledger, b, r).stok = 0
    BY <2>1 DEF Terakhir, SaldoKosong
  <2>3. QED BY <2>1, <2>2, JmlKosong
<1>3. QED BY <1>1, <1>2 DEF LedgerInv, LedgerBaik, RantaiBaik, ArusBaik

LEMMA LedgerLangkah == LedgerInv /\ [NextLaporan]_varsLaporan => LedgerInv'
<1> SUFFICES ASSUME LedgerInv, [NextLaporan]_varsLaporan PROVE LedgerInv'
  OBVIOUS
<1>1. CASE UNCHANGED varsLaporan
  BY <1>1 DEF varsLaporan, LedgerInv
<1>2. ASSUME NEW b \in BarangLap, NEW r \in RuangLap, NEW q \in QtyLap, NEW t \in TglLap,
             UNCHANGED rusak,
             \/ \E n \in NilaiLap : DatangLap(b, r, q, n, t)
             \/ JualLap(b, r, q, t)
             \/ \E c \in RuangLap : MutasiLap(b, r, c, q, t)
      PROVE  LedgerInv'
  BY <1>2, DatangSah, JualSah, MutasiLapSah
<1>3. ASSUME NEW i \in DOMAIN ledger, NEW t \in TglLap, BalikLap(i, t), UNCHANGED rusak
      PROVE  LedgerInv'
  BY <1>3, BalikSah
<1>4. ASSUME NEW i \in DOMAIN ledger, NEW kolom \in KolomLap, UbahTangan(i, kolom)
      PROVE  LedgerInv'
  BY <1>4, UbahSah
<1>5. QED BY <1>1, <1>2, <1>3, <1>4 DEF NextLaporan, KolomLap

LEMMA LedgerSelalu == SpecLaporan => []LedgerInv
BY LedgerAwal, LedgerLangkah, PTL DEF SpecLaporan

-----------------------------------------------------------------------------
(* What the job reports.                                                   *)
LEMMA AdaMin ==
  ASSUME NEW I, NEW m \in I, \A j \in I : m <= j, I \subseteq Nat
  PROVE  Min(I) = m
<1>1. \E x \in I : \A y \in I : x <= y
  OBVIOUS
<1>2. Min(I) \in I /\ \A y \in I : Min(I) <= y
  BY <1>1 DEF Min
<1>3. PICK n \in I : n = Min(I)
  BY <1>2
<1>4. n \in Nat /\ m \in Nat /\ m <= n /\ n <= m
  BY <1>2, <1>3
<1>5. QED BY <1>3, <1>4

LEMMA InvTerlapor == LedgerInv => RantaiTerlapor
<1> SUFFICES ASSUME LedgerInv
             PROVE  PeriksaRantai(ledger) = {<<ledger[i].b, ledger[i].r, i>> : i \in rusak}
  BY DEF RantaiTerlapor
<1>1. PICK k \in Seq(BarisLap) : k = ledger
  BY DEF LedgerInv, LedgerBaik
<1>2. PICK I : I = {i \in DOMAIN k : Menyimpang(k, i)}
  OBVIOUS
<1>3. /\ \A m \in rusak : Menyimpang(k, m) /\ m \in DOMAIN k
      /\ \A i \in I : \E m \in rusak : Sepasang(k[m], k[i]) /\ m <= i
      /\ \A m, n \in rusak : m = n
  BY <1>1, <1>2 DEF LedgerInv, LedgerBaik, RantaiBaik
<1>4. PeriksaRantai(k) = {<<k[i].b, k[i].r, Min(I \cap BarisPasangan(k, k[i].b, k[i].r))>> : i \in I}
  BY <1>2 DEF PeriksaRantai
<1>5. ASSUME NEW i \in I, NEW m \in rusak
      PROVE  /\ k[m].b = k[i].b /\ k[m].r = k[i].r
             /\ Min(I \cap BarisPasangan(k, k[i].b, k[i].r)) = m
  <2>1. Sepasang(k[m], k[i])
    BY <1>3
  <2>2. PICK J : J = I \cap BarisPasangan(k, k[i].b, k[i].r)
    OBVIOUS
  <2>3. m \in J
    BY <1>2, <1>3, <2>1, <2>2 DEF Sepasang, BarisPasangan
  <2>4. \A j \in J : m <= j
    BY <1>3, <2>2
  <2>5. J \subseteq Nat
    BY <1>2, <2>2
  <2>6. Min(J) = m
    BY <2>3, <2>4, <2>5, AdaMin
  <2>7. QED BY <2>1, <2>2, <2>6 DEF Sepasang
<1>6. rusak \subseteq I
  BY <1>2, <1>3
<1>7. \A i \in I : \E m \in rusak : TRUE
  BY <1>3
<1>8. PICK a : a = [i \in I |-> <<k[i].b, k[i].r, Min(I \cap BarisPasangan(k, k[i].b, k[i].r))>>]
  OBVIOUS
<1>9. PeriksaRantai(k) = {<<k[m].b, k[m].r, m>> : m \in rusak}
  <2>1. PeriksaRantai(k) = {a[i] : i \in I}
    BY <1>4, <1>8
  <2>2. ASSUME NEW i \in I, NEW m \in rusak PROVE a[i] = <<k[m].b, k[m].r, m>>
    BY <1>5, <1>8
  <2>3. QED BY <1>6, <1>7, <2>1, <2>2
<1>10. QED BY <1>1, <1>9

\* RantaiTerlapor: exactly the row that was touched is reported.
THEOREM RantaiSelaluTerlapor == SpecLaporan => []RantaiTerlapor
BY LedgerSelalu, InvTerlapor, PTL

-----------------------------------------------------------------------------
(* The reports.                                                            *)
\* The sums of the model are the sums of the lemmas.
LEMMA FoldArus ==
  ASSUME NEW k \in Seq(BarisLap), NEW S \in SUBSET DOMAIN k
  PROVE  MapThenSumSet(LAMBDA i : k[i].masuk - k[i].keluar, S) = Jml(Arus(k), S)
<1> DEFINE f == Arus(k)
<1> DEFINE G == CHOOSE G : G = [s \in SUBSET S |-> IF s = {} THEN 0
                   ELSE k[CHOOSE x \in s : TRUE].masuk - k[CHOOSE x \in s : TRUE].keluar
                        + G[s \ {CHOOSE x \in s : TRUE}]]
<1>0. IsFiniteSet(S)
  <2>1. DOMAIN k = 1..Len(k) /\ Len(k) \in Nat
    OBVIOUS
  <2>2. QED BY <2>1, BagianSelang
<1>1. PICK F : Menjumlah(F, f, SUBSET S)
  BY <1>0, PenjumlahAda
<1>2. \A s \in SUBSET S : s # {} =>
        f[Ambil(s)] = k[CHOOSE x \in s : TRUE].masuk - k[CHOOSE x \in s : TRUE].keluar
  <2>1. \A i \in S : f[i] = k[i].masuk - k[i].keluar
    BY DEF Arus
  <2>2. QED BY <2>1, Ambilan DEF Ambil
<1>3. F = [s \in SUBSET S |-> IF s = {} THEN 0
             ELSE k[CHOOSE x \in s : TRUE].masuk - k[CHOOSE x \in s : TRUE].keluar
                  + F[s \ {CHOOSE x \in s : TRUE}]]
  BY ZenonT(30), <1>1, <1>2 DEF Ambil, Menjumlah
<1>4. G = [s \in SUBSET S |-> IF s = {} THEN 0
             ELSE k[CHOOSE x \in s : TRUE].masuk - k[CHOOSE x \in s : TRUE].keluar
                  + G[s \ {CHOOSE x \in s : TRUE}]]
  BY <1>3
<1>5. MapThenSumSet(LAMBDA i : k[i].masuk - k[i].keluar, S) = G[S]
  BY DEF MapThenSumSet, MapThenFoldSet
<1> HIDE DEF G, f
<1>6. Menjumlah(G, f, SUBSET S)
  BY ZenonT(30), <1>4, <1>2 DEF Menjumlah, Ambil
<1>7. Jml(f, S) = G[S]
  BY <1>0, <1>6, JmlAdalah
<1>8. QED BY <1>5, <1>7 DEF f

Cakup(u) == {r \in RuangLap : DalamLingkup(r, u)}
StokDi(k, b) == [r \in RuangLap |-> Terakhir(k, b, r).stok]
NilaiPada(k, b) == [r \in RuangLap |-> Terakhir(k, b, r).nilai]

\* The rooms a product moved in, among those of the unit.
LEMMA RuangBergerak ==
  ASSUME NEW k \in Seq(BarisLap), NEW b, NEW u
  PROVE  /\ DOMAIN SaldoPerRuang(k, b, u) \in SUBSET Cakup(u)
         /\ IsFiniteSet(Cakup(u)) /\ Cakup(u) \subseteq RuangLap /\ IsFiniteSet(DOMAIN SaldoPerRuang(k, b, u))
         /\ \A r \in DOMAIN SaldoPerRuang(k, b, u) : SaldoPerRuang(k, b, u)[r] = Terakhir(k, b, r)
         /\ \A r \in Cakup(u) \ DOMAIN SaldoPerRuang(k, b, u) :
              Terakhir(k, b, r).stok = 0 /\ Terakhir(k, b, r).nilai = 0
         /\ \A r \in RuangLap : Terakhir(k, b, r).stok \in Nat /\ Terakhir(k, b, r).nilai \in Nat
<1>1. PICK s : s = SaldoPerRuang(k, b, u)
  OBVIOUS
<1>2. /\ DOMAIN s = {x \in RuangLap : DalamLingkup(x, u) /\ BarisPasangan(k, b, x) # {}}
      /\ \A r \in DOMAIN s : s[r] = Terakhir(k, b, r)
  BY <1>1 DEF SaldoPerRuang
<1>3. DOMAIN s \subseteq Cakup(u) /\ Cakup(u) \subseteq RuangLap
  BY <1>2 DEF Cakup
<1>4. IsFiniteSet(Cakup(u)) /\ IsFiniteSet(DOMAIN s)
  <2>1. IsFiniteSet(RuangLap)
    BY AsumsiLaporan DEF AsumsiLaporan
  <2>2. IsFiniteSet(Cakup(u))
    BY <1>3, <2>1, FS_Subset
  <2>3. QED BY <1>3, <2>2, FS_Subset
<1>5. ASSUME NEW r \in Cakup(u) \ DOMAIN s PROVE Terakhir(k, b, r).stok = 0 /\ Terakhir(k, b, r).nilai = 0
  <2>1. BarisPasangan(k, b, r) = {}
    BY <1>2 DEF Cakup
  <2>2. QED BY <2>1 DEF Terakhir, SaldoKosong
<1>6. \A r \in RuangLap : Terakhir(k, b, r).stok \in Nat /\ Terakhir(k, b, r).nilai \in Nat
  BY TerakhirSah DEF SaldoSah
<1>7. QED BY <1>1, <1>2, <1>3, <1>4, <1>5, <1>6

LEMMA FoldStok ==
  ASSUME NEW k \in Seq(BarisLap), NEW b, NEW u
  PROVE  TotalStok(k, b, u) = Jml(StokDi(k, b), DOMAIN SaldoPerRuang(k, b, u))
<1> DEFINE v == SaldoPerRuang(k, b, u)
<1> DEFINE S == DOMAIN v
<1> DEFINE f == StokDi(k, b)
<1> DEFINE G == CHOOSE G : G = [s \in SUBSET S |-> IF s = {} THEN 0
                   ELSE v[CHOOSE x \in s : TRUE].stok + G[s \ {CHOOSE x \in s : TRUE}]]
<1>0. IsFiniteSet(S) /\ S \subseteq RuangLap /\ \A r \in S : v[r] = Terakhir(k, b, r)
  BY RuangBergerak
<1>5. TotalStok(k, b, u) = G[S]
  BY DEF TotalStok, MapThenSumSet, MapThenFoldSet
<1> HIDE DEF v
<1>1. PICK F : Menjumlah(F, f, SUBSET S)
  BY <1>0, PenjumlahAda
<1>2. \A s \in SUBSET S : s # {} => f[Ambil(s)] = v[CHOOSE x \in s : TRUE].stok
  <2>1. \A r \in S : f[r] = v[r].stok
    BY <1>0 DEF StokDi
  <2>2. QED BY <2>1, Ambilan DEF Ambil
<1>3. F = [s \in SUBSET S |-> IF s = {} THEN 0
             ELSE v[CHOOSE x \in s : TRUE].stok + F[s \ {CHOOSE x \in s : TRUE}]]
  BY <1>1, <1>2 DEF Ambil, Menjumlah
<1>4. G = [s \in SUBSET S |-> IF s = {} THEN 0
             ELSE v[CHOOSE x \in s : TRUE].stok + G[s \ {CHOOSE x \in s : TRUE}]]
  BY <1>3
<1> HIDE DEF G, f
<1>6. Menjumlah(G, f, SUBSET S)
  BY <1>4, <1>2 DEF Menjumlah, Ambil
<1>7. Jml(f, S) = G[S]
  BY <1>0, <1>6, JmlAdalah
<1>8. QED BY <1>5, <1>7 DEF f, v

\* A room where the product never moved adds nothing.
LEMMA TotalStokJml ==
  ASSUME NEW k \in Seq(BarisLap), NEW b, NEW u
  PROVE  TotalStok(k, b, u) = Jml(StokDi(k, b), Cakup(u)) /\ TotalStok(k, b, u) \in Nat
<1>1. PICK f : f = StokDi(k, b)
  OBVIOUS
<1>2. PICK S : S = DOMAIN SaldoPerRuang(k, b, u)
  OBVIOUS
<1>3. S \in SUBSET Cakup(u) /\ IsFiniteSet(Cakup(u))
  BY <1>2, RuangBergerak
<1>4. /\ \A r \in Cakup(u) : f[r] \in Nat
      /\ \A r \in Cakup(u) \ S : f[r] = 0
  BY <1>1, <1>2, RuangBergerak DEF StokDi
<1>5. Jml(f, S) = Jml(f, Cakup(u))
  BY <1>3, <1>4, JmlSempit
<1>6. Jml(f, Cakup(u)) \in Nat
  BY <1>3, <1>4, JmlAlami
<1>7. QED BY <1>1, <1>2, <1>5, <1>6, FoldStok

LEMMA PergerakanJml ==
  ASSUME NEW k \in Seq(BarisLap), NEW b, NEW r, NEW m, NEW n
  PROVE  Pergerakan(k, b, r, m, n) = Jml(Arus(k), Riwayat(k, b, r, m, n, Semua))
<1>1. Riwayat(k, b, r, m, n, Semua) \in SUBSET DOMAIN k
  BY DEF Riwayat, BarisPasangan
<1>2. QED BY <1>1, FoldArus DEF Pergerakan

\* Up to a day and since, whatever the order of the dates.
LEMMA ArusSepadan ==
  ASSUME NEW k, LedgerBaik(k, {}), NEW b \in BarangLap, NEW r \in RuangLap, NEW d \in TglLap
  PROVE  Pergerakan(k, b, r, 0, d) + Pergerakan(k, b, r, d + 1, Max(TglLap)) = Terakhir(k, b, r).stok
<1>1. /\ k \in Seq(BarisLap) /\ \A i \in DOMAIN k : k[i].tgl \in TglLap
      /\ Jml(Arus(k), BarisPasangan(k, b, r)) = Terakhir(k, b, r).stok
  <2>1. k \in Seq(BarisLap) /\ Jml(Arus(k), BarisPasangan(k, b, r)) = Terakhir(k, b, r).stok
    BY DEF LedgerBaik, ArusBaik
  <2>2. \A i \in DOMAIN k : k[i] \in BarisLap
    BY <2>1
  <2>3. QED BY <2>1, <2>2, BarisTipe
<1>2. PICK n : n = Max(TglLap)
  OBVIOUS
<1>3. TglLap \subseteq Nat /\ n \in Nat /\ \A t \in TglLap : t <= n
  <2>1. TglLap \subseteq Nat /\ IsFiniteSet(TglLap) /\ TglLap # {}
    BY AsumsiLaporan DEF AsumsiLaporan
  <2>2. TglLap \subseteq Int
    BY <2>1
  <2>3. Max(TglLap) \in TglLap /\ \A t \in TglLap : t <= Max(TglLap)
    BY <2>1, <2>2, AdaMaks
  <2>4. QED BY <1>2, <2>1, <2>3
<1>4. PICK S : S = Riwayat(k, b, r, 0, d, Semua)
  OBVIOUS
<1>5. PICK T : T = Riwayat(k, b, r, d + 1, n, Semua)
  OBVIOUS
<1>6. PICK P : P = BarisPasangan(k, b, r)
  OBVIOUS
<1>7. P \subseteq DOMAIN k /\ \A i \in P : k[i].tgl \in 0..n
  <2>1. P \subseteq DOMAIN k
    BY <1>6, PasanganBaris
  <2>2. \A t \in TglLap : t \in 0..n
    BY <1>3
  <2>3. QED BY <1>1, <2>1, <2>2
<1>8. /\ S = {i \in P : k[i].tgl \in 0..d} /\ T = {i \in P : k[i].tgl \in (d + 1)..n}
  BY <1>4, <1>5, <1>6 DEF Riwayat, DalamLingkup
<1>9. S \cap T = {} /\ S \cup T = P
  <2>1. d \in Nat
    BY <1>3
  <2>2. \A t \in 0..n : (t \in 0..d /\ t \notin (d + 1)..n) \/ (t \notin 0..d /\ t \in (d + 1)..n)
    BY <1>3, <2>1
  <2>3. QED BY <1>7, <1>8, <2>2
<1>10. IsFiniteSet(S) /\ IsFiniteSet(T)
  <2>1. DOMAIN k = 1..Len(k) /\ Len(k) \in Nat
    BY <1>1
  <2>2. IsFiniteSet(P)
    BY <1>7, <2>1, BagianSelang
  <2>3. QED BY <1>8, <2>2, FS_Subset
<1>11. \A i \in S \cup T : Arus(k)[i] \in Int
  <2>1. \A i \in DOMAIN k : k[i].masuk \in Nat /\ k[i].keluar \in Nat
    BY <1>1, BarisTipe
  <2>2. QED BY <1>7, <1>9, <2>1 DEF Arus
<1>12. Jml(Arus(k), P) = Jml(Arus(k), S) + Jml(Arus(k), T)
  BY <1>9, <1>10, <1>11, JmlPisah
<1>13. Pergerakan(k, b, r, 0, d) = Jml(Arus(k), S) /\ Pergerakan(k, b, r, d + 1, n) = Jml(Arus(k), T)
  BY <1>1, <1>4, <1>5, PergerakanJml
<1>14. QED BY <1>1, <1>2, <1>6, <1>12, <1>13

\* Low, out and healthy, against the list of what is to be ordered.
LEMMA KesehatanSepadan ==
  ASSUME NEW k \in Seq(BarisLap), NEW u
  PROVE  /\ Menipis(k, u) \cup Habis_(k, u) = StokMinimum(k, u) \cap Dinilai(k, u)
         /\ Sehat(k, u) \cap StokMinimum(k, u) = {}
<1>1. \A b \in BarangLap : MinimumLap[b] \in Nat
  BY AsumsiLaporan DEF AsumsiLaporan
<1>2. PICK t : t = [b \in BarangLap |-> TotalStok(k, b, u)]
  OBVIOUS
<1>3. \A b \in BarangLap : t[b] \in Nat /\ t[b] = TotalStok(k, b, u)
  BY <1>2, TotalStokJml
<1>4. PICK D : D = Dinilai(k, u)
  OBVIOUS
<1>5. D \subseteq BarangLap /\ \A b \in D : MinimumLap[b] > 0
  BY <1>4 DEF Dinilai
<1>6. /\ Menipis(k, u) = {b \in D : t[b] \in 1..MinimumLap[b]}
      /\ Habis_(k, u) = {b \in D : t[b] = 0}
      /\ Sehat(k, u) = {b \in D : t[b] > MinimumLap[b]}
      /\ StokMinimum(k, u) = {b \in BarangLap : MinimumLap[b] > 0 /\ t[b] <= MinimumLap[b]}
  BY <1>3, <1>4, <1>5 DEF Menipis, Habis_, Sehat, StokMinimum
<1>7. \A b \in D : t[b] <= MinimumLap[b] <=> t[b] \in 1..MinimumLap[b] \/ t[b] = 0
  BY <1>1, <1>3, <1>5
<1>8. \A b \in D : ~(t[b] > MinimumLap[b] /\ t[b] <= MinimumLap[b])
  BY <1>1, <1>3, <1>5
<1>9. QED BY <1>4, <1>5, <1>6, <1>7, <1>8

\* What one room holds, product by product.
NilaiIsi(k, r) == [b \in BarangLap |-> Terakhir(k, b, r).nilai]
NilaiRuang(k, r) == MapThenSumSet(LAMBDA b : Terakhir(k, b, r).nilai, BarangLap)
NilaiSemuaBarang(k, u) == MapThenSumSet(LAMBDA b : NilaiBarang(k, b, u), BarangLap)

LEMMA FoldRuang ==
  ASSUME NEW k, NEW r
  PROVE  NilaiRuang(k, r) = Jml(NilaiIsi(k, r), BarangLap)
<1> DEFINE S == BarangLap
<1> DEFINE f == NilaiIsi(k, r)
<1> DEFINE G == CHOOSE G : G = [s \in SUBSET S |-> IF s = {} THEN 0
                   ELSE Terakhir(k, CHOOSE x \in s : TRUE, r).nilai + G[s \ {CHOOSE x \in s : TRUE}]]
<1>0. IsFiniteSet(S)
  BY AsumsiLaporan DEF AsumsiLaporan
<1>5. NilaiRuang(k, r) = G[S]
  BY DEF NilaiRuang, MapThenSumSet, MapThenFoldSet
<1>1. PICK F : Menjumlah(F, f, SUBSET S)
  BY <1>0, PenjumlahAda
<1>2. \A s \in SUBSET S : s # {} => f[Ambil(s)] = Terakhir(k, CHOOSE x \in s : TRUE, r).nilai
  <2>1. \A b \in S : f[b] = Terakhir(k, b, r).nilai
    BY DEF NilaiIsi
  <2>2. QED BY <2>1, Ambilan DEF Ambil
<1>3. F = [s \in SUBSET S |-> IF s = {} THEN 0
             ELSE Terakhir(k, CHOOSE x \in s : TRUE, r).nilai + F[s \ {CHOOSE x \in s : TRUE}]]
  BY <1>1, <1>2 DEF Ambil, Menjumlah
<1>4. G = [s \in SUBSET S |-> IF s = {} THEN 0
             ELSE Terakhir(k, CHOOSE x \in s : TRUE, r).nilai + G[s \ {CHOOSE x \in s : TRUE}]]
  BY <1>3
<1> HIDE DEF G, f
<1>6. Menjumlah(G, f, SUBSET S)
  BY <1>4, <1>2 DEF Menjumlah, Ambil
<1>7. Jml(f, S) = G[S]
  BY <1>0, <1>6, JmlAdalah
<1>8. QED BY <1>5, <1>7 DEF f

LEMMA FoldBarang ==
  ASSUME NEW k \in Seq(BarisLap), NEW b, NEW u
  PROVE  NilaiBarang(k, b, u) = Jml(NilaiPada(k, b), DOMAIN SaldoPerRuang(k, b, u))
<1> DEFINE v == SaldoPerRuang(k, b, u)
<1> DEFINE S == DOMAIN v
<1> DEFINE f == NilaiPada(k, b)
<1> DEFINE G == CHOOSE G : G = [s \in SUBSET S |-> IF s = {} THEN 0
                   ELSE v[CHOOSE x \in s : TRUE].nilai + G[s \ {CHOOSE x \in s : TRUE}]]
<1>0. IsFiniteSet(S) /\ S \subseteq RuangLap /\ \A r \in S : v[r] = Terakhir(k, b, r)
  BY RuangBergerak
<1>5. NilaiBarang(k, b, u) = G[S]
  BY DEF NilaiBarang, MapThenSumSet, MapThenFoldSet
<1> HIDE DEF v
<1>1. PICK F : Menjumlah(F, f, SUBSET S)
  BY <1>0, PenjumlahAda
<1>2. \A s \in SUBSET S : s # {} => f[Ambil(s)] = v[CHOOSE x \in s : TRUE].nilai
  <2>1. \A r \in S : f[r] = v[r].nilai
    BY <1>0 DEF NilaiPada
  <2>2. QED BY <2>1, Ambilan DEF Ambil
<1>3. F = [s \in SUBSET S |-> IF s = {} THEN 0
             ELSE v[CHOOSE x \in s : TRUE].nilai + F[s \ {CHOOSE x \in s : TRUE}]]
  BY <1>1, <1>2 DEF Ambil, Menjumlah
<1>4. G = [s \in SUBSET S |-> IF s = {} THEN 0
             ELSE v[CHOOSE x \in s : TRUE].nilai + G[s \ {CHOOSE x \in s : TRUE}]]
  BY <1>3
<1> HIDE DEF G, f
<1>6. Menjumlah(G, f, SUBSET S)
  BY <1>4, <1>2 DEF Menjumlah, Ambil
<1>7. Jml(f, S) = G[S]
  BY <1>0, <1>6, JmlAdalah
<1>8. QED BY <1>5, <1>7 DEF f, v

\* A room where the product never moved is worth nothing of it.
LEMMA NilaiBarangJml ==
  ASSUME NEW k \in Seq(BarisLap), NEW b, NEW u
  PROVE  NilaiBarang(k, b, u) = Jml(NilaiPada(k, b), Cakup(u))
<1>1. PICK f : f = NilaiPada(k, b)
  OBVIOUS
<1>2. PICK S : S = DOMAIN SaldoPerRuang(k, b, u)
  OBVIOUS
<1>3. S \in SUBSET Cakup(u) /\ IsFiniteSet(Cakup(u))
  BY <1>2, RuangBergerak
<1>4. /\ \A r \in Cakup(u) : f[r] \in Nat
      /\ \A r \in Cakup(u) \ S : f[r] = 0
  BY <1>1, <1>2, RuangBergerak DEF NilaiPada
<1>5. Jml(f, S) = Jml(f, Cakup(u))
  BY <1>3, <1>4, JmlSempit
<1>6. QED BY <1>1, <1>2, <1>5, FoldBarang

LEMMA FoldSemuaBarang ==
  ASSUME NEW k, NEW u, NEW f, \A b \in BarangLap : f[b] = NilaiBarang(k, b, u)
  PROVE  NilaiSemuaBarang(k, u) = Jml(f, BarangLap)
<1> DEFINE S == BarangLap
<1> DEFINE G == CHOOSE G : G = [s \in SUBSET S |-> IF s = {} THEN 0
                   ELSE NilaiBarang(k, CHOOSE x \in s : TRUE, u) + G[s \ {CHOOSE x \in s : TRUE}]]
<1>0. IsFiniteSet(S)
  BY AsumsiLaporan DEF AsumsiLaporan
<1>5. NilaiSemuaBarang(k, u) = G[S]
  BY DEF NilaiSemuaBarang, MapThenSumSet, MapThenFoldSet
<1>1. PICK F : Menjumlah(F, f, SUBSET S)
  BY <1>0, PenjumlahAda
<1>2. \A s \in SUBSET S : s # {} => f[Ambil(s)] = NilaiBarang(k, CHOOSE x \in s : TRUE, u)
  BY Ambilan DEF Ambil
<1>3. F = [s \in SUBSET S |-> IF s = {} THEN 0
             ELSE NilaiBarang(k, CHOOSE x \in s : TRUE, u) + F[s \ {CHOOSE x \in s : TRUE}]]
  BY <1>1, <1>2 DEF Ambil, Menjumlah
<1>4. G = [s \in SUBSET S |-> IF s = {} THEN 0
             ELSE NilaiBarang(k, CHOOSE x \in s : TRUE, u) + G[s \ {CHOOSE x \in s : TRUE}]]
  BY <1>3
<1> HIDE DEF G
<1>6. Menjumlah(G, f, SUBSET S)
  BY <1>4, <1>2 DEF Menjumlah, Ambil
<1>7. Jml(f, S) = G[S]
  BY <1>0, <1>6, JmlAdalah
<1>8. QED BY <1>5, <1>7

\* Room by room or product by product, the stock is worth the same.
LEMMA NilaiSepadan ==
  ASSUME NEW k \in Seq(BarisLap), NEW u
  PROVE  MapThenSumSet(LAMBDA r : NilaiPersediaan(k, u)[r], DOMAIN NilaiPersediaan(k, u)) =
           MapThenSumSet(LAMBDA b : NilaiBarang(k, b, u), BarangLap)
<1>1. PICK f : f = [b \in BarangLap |-> NilaiPada(k, b)]
  OBVIOUS
<1>2. PICK C : C = Cakup(u)
  OBVIOUS
<1>3. PICK p : p = NilaiPersediaan(k, u)
  OBVIOUS
<1>4. IsFiniteSet(BarangLap) /\ IsFiniteSet(C) /\ C \subseteq RuangLap
  BY <1>2, AsumsiLaporan, RuangBergerak DEF AsumsiLaporan
<1>5. \A b \in BarangLap : \A r \in C : f[b][r] = Terakhir(k, b, r).nilai /\ f[b][r] \in Int
  <2>1. \A b, r : Terakhir(k, b, r).nilai \in Nat
    BY TerakhirSah DEF SaldoSah
  <2>2. QED BY <1>1, <1>4, <2>1 DEF NilaiPada
<1>6. Jml([b \in BarangLap |-> Jml(f[b], C)], BarangLap) =
        Jml([r \in C |-> Jml([b \in BarangLap |-> f[b][r]], BarangLap)], C)
  BY <1>4, <1>5, JmlTukar
<1>7. DOMAIN p = C /\ \A r \in C : p[r] = Jml([b \in BarangLap |-> f[b][r]], BarangLap)
  <2>1. DOMAIN p = C /\ \A r \in C : p[r] = NilaiRuang(k, r)
    BY <1>2, <1>3 DEF NilaiPersediaan, NilaiRuang, Cakup
  <2>2. \A r \in C : [b \in BarangLap |-> f[b][r]] = NilaiIsi(k, r)
    BY <1>5 DEF NilaiIsi
  <2>3. QED BY <2>1, <2>2, FoldRuang
<1>8. Jml(p, DOMAIN p) = Jml([r \in C |-> Jml([b \in BarangLap |-> f[b][r]], BarangLap)], C)
  <2>1. PICK g : g = [r \in C |-> Jml([b \in BarangLap |-> f[b][r]], BarangLap)]
    OBVIOUS
  <2>2. \A r \in C : p[r] = g[r]
    BY <1>7, <2>1
  <2>3. Jml(p, C) = Jml(g, C)
    BY <1>4, <2>2, JmlSama
  <2>4. QED BY <1>7, <2>1, <2>3
<1>9. NilaiSemuaBarang(k, u) = Jml([b \in BarangLap |-> Jml(f[b], C)], BarangLap)
  <2>1. PICK g : g = [b \in BarangLap |-> Jml(f[b], C)]
    OBVIOUS
  <2>2. \A b \in BarangLap : g[b] = NilaiBarang(k, b, u)
    BY <1>1, <1>2, <2>1, NilaiBarangJml
  <2>3. QED BY <2>1, <2>2, FoldSemuaBarang
<1>10. Jml(p, DOMAIN p) = NilaiSemuaBarang(k, u)
  BY <1>6, <1>8, <1>9
<1>11. QED BY <1>3, <1>10 DEF Jml, NilaiSemuaBarang

LEMMA InvSepadan == LedgerInv => LaporanSepadan
<1> SUFFICES ASSUME LedgerInv, rusak = {} PROVE Sepadan(ledger)
  BY DEF LaporanSepadan
<1>1. PICK k : k = ledger
  OBVIOUS
<1>2. LedgerBaik(k, {}) /\ k \in Seq(BarisLap)
  BY <1>1 DEF LedgerInv, LedgerBaik
<1>3. QED BY <1>1, <1>2, ArusSepadan, KesehatanSepadan, NilaiSepadan DEF Sepadan

\* LaporanTerjaga: job and reports read back what was written.
THEOREM LaporanSelaluTerjaga == SpecLaporan => []LaporanTerjaga
<1>1. LedgerInv => LaporanTerjaga
  BY InvTerlapor, InvSepadan DEF LaporanTerjaga
<1>2. QED BY <1>1, LedgerSelalu, PTL

-----------------------------------------------------------------------------
(* Dead stock.                                                             *)
\* A row that is neither demand of the unit nor an arrival in it.
BukanGerak(x, u) ==
  x.asal # 0 \/ /\ x.jenis \notin {"PENJUALAN", "PEMAKAIAN"}
                /\ x.masuk = 0 \/ (x.jenis = "MUTASI_MASUK" /\ DalamLingkup(x.mitra, u))

LEMMA GerakTetap ==
  ASSUME NEW k \in Seq(BarisLap), NEW x \in BarisLap, NEW b, NEW u, BukanGerak(x, u)
  PROVE  /\ Kedatangan(Append(k, x), b, u) = Kedatangan(k, b, u)
         /\ AdaPermintaan(Append(k, x), b, u) <=> AdaPermintaan(k, b, u)
         /\ Kedatangan(k, b, u) \subseteq DOMAIN k
<1>1. PICK h : h = Append(k, x)
  OBVIOUS
<1>2. PICK n : n = Len(k) + 1
  OBVIOUS
<1>3. DOMAIN h = DOMAIN k \cup {n} /\ h[n] = x /\ \A j \in DOMAIN k : h[j] = k[j]
  BY <1>1, <1>2, TambahBaris
<1>4. PICK Datang : Datang = {i \in DOMAIN h :
        /\ h[i].b = b /\ DalamLingkup(h[i].r, u) /\ h[i].masuk > 0 /\ h[i].asal = 0
        /\ h[i].jenis # "MUTASI_MASUK" \/ ~DalamLingkup(h[i].mitra, u)}
  OBVIOUS
<1>5. Kedatangan(h, b, u) = Datang
  BY <1>4 DEF Kedatangan
<1>6. n \notin Datang
  <2>1. x.masuk \in Nat
    BY BarisTipe
  <2>2. QED BY <1>3, <1>4, <2>1 DEF BukanGerak
<1>7. Kedatangan(k, b, u) = Datang
  <2>1. Datang = {i \in DOMAIN k :
          /\ k[i].b = b /\ DalamLingkup(k[i].r, u) /\ k[i].masuk > 0 /\ k[i].asal = 0
          /\ k[i].jenis # "MUTASI_MASUK" \/ ~DalamLingkup(k[i].mitra, u)}
    BY <1>3, <1>4, <1>6
  <2>2. QED BY <2>1 DEF Kedatangan
<1>8. AdaPermintaan(h, b, u) <=> \E i \in DOMAIN k :
        /\ h[i].b = b /\ DalamLingkup(h[i].r, u) /\ h[i].asal = 0
        /\ h[i].jenis \in {"PENJUALAN", "PEMAKAIAN"} /\ h[i].tgl >= BatasMati
  BY <1>3 DEF AdaPermintaan, BukanGerak
<1>9. AdaPermintaan(h, b, u) <=> AdaPermintaan(k, b, u)
  BY <1>3, <1>8 DEF AdaPermintaan
<1>10. Datang \subseteq DOMAIN k
  BY <1>3, <1>4, <1>6
<1>11. QED BY <1>1, <1>3, <1>5, <1>7, <1>9, <1>10

\* What makes a product dead, its stock aside.
Sepi(k, b, u) ==
  /\ ~AdaPermintaan(k, b, u)
  /\ Kedatangan(k, b, u) = {} \/ \E i \in Kedatangan(k, b, u) : k[i].tgl < BatasMati

LEMMA SepiTetap ==
  ASSUME NEW k \in Seq(BarisLap), NEW x \in BarisLap, NEW b, NEW u, BukanGerak(x, u)
  PROVE  Sepi(Append(k, x), b, u) <=> Sepi(k, b, u)
<1>1. PICK h : h = Append(k, x)
  OBVIOUS
<1>2. /\ Kedatangan(h, b, u) = Kedatangan(k, b, u) /\ (AdaPermintaan(h, b, u) <=> AdaPermintaan(k, b, u))
      /\ \A i \in Kedatangan(k, b, u) : h[i].tgl = k[i].tgl
  <2>1. Kedatangan(Append(k, x), b, u) = Kedatangan(k, b, u)
    BY GerakTetap
  <2>2. AdaPermintaan(Append(k, x), b, u) <=> AdaPermintaan(k, b, u)
    BY GerakTetap
  <2>3. \A i \in Kedatangan(k, b, u) : h[i].tgl = k[i].tgl
    <3>1. Kedatangan(k, b, u) \subseteq DOMAIN k
      BY GerakTetap
    <3>2. \A j \in DOMAIN k : h[j] = k[j]
      BY <1>1, TambahBaris
    <3>3. QED BY <3>1, <3>2
  <2>4. QED BY <1>1, <2>1, <2>2, <2>3
<1>3. QED BY <1>1, <1>2 DEF Sepi

LEMMA MatiSepi ==
  ASSUME NEW k, NEW u, NEW b
  PROVE  b \in StokMati(k, u) <=> b \in BarangLap /\ TotalStok(k, b, u) > 0 /\ Sepi(k, b, u)
BY DEF StokMati, Sepi

\* A transfer inside the unit leaves the unit with what it had.
LEMMA TotalTetap ==
  ASSUME NEW k \in Seq(BarisLap), NEW x \in BarisLap, NEW y \in BarisLap, NEW b, NEW u,
         CocokDengan(x, Terakhir(k, x.b, x.r)), CocokDengan(y, Terakhir(Append(k, x), y.b, y.r)),
         x.b = y.b, x.r # y.r, DalamLingkup(x.r, u), DalamLingkup(y.r, u),
         x.masuk = 0, y.masuk = x.keluar, y.keluar = 0
  PROVE  TotalStok(Append(Append(k, x), y), b, u) = TotalStok(k, b, u)
<1>0. PICK q \in Nat : q = x.keluar
  BY BarisTipe
<1>1. PICK h : h = Append(k, x)
  OBVIOUS
<1>2. PICK g : g = Append(h, y)
  OBVIOUS
<1>3. h \in Seq(BarisLap) /\ g \in Seq(BarisLap)
  BY <1>1, <1>2
<1>4. PICK C : C = Cakup(u)
  OBVIOUS
<1>5. IsFiniteSet(C) /\ C \subseteq RuangLap /\ x.r \in C /\ y.r \in C
  BY <1>4, RuangBergerak, BarisTipe DEF Cakup
<1>6. PICK f : f = StokDi(k, b)
  OBVIOUS
<1>7. PICK e : e = StokDi(g, b)
  OBVIOUS
<1>8. \A r \in C : f[r] = Terakhir(k, b, r).stok /\ e[r] = Terakhir(g, b, r).stok /\ f[r] \in Int /\ e[r] \in Int
  <2>1. \A r \in RuangLap : Terakhir(k, b, r).stok \in Nat /\ Terakhir(g, b, r).stok \in Nat
    BY <1>3, RuangBergerak
  <2>2. QED BY <1>5, <1>6, <1>7, <2>1 DEF StokDi
<1>9. /\ \A r : ~(x.b = b /\ x.r = r) => Terakhir(h, b, r) = Terakhir(k, b, r)
      /\ \A r : ~(y.b = b /\ y.r = r) => Terakhir(g, b, r) = Terakhir(h, b, r)
      /\ x.b = b => Terakhir(h, b, x.r).stok = x.akhir
      /\ y.b = b => Terakhir(g, b, y.r).stok = y.akhir
  <2>1. /\ \A r : ~(x.b = b /\ x.r = r) => Terakhir(h, b, r) = Terakhir(k, b, r)
        /\ x.b = b => Terakhir(h, b, x.r).stok = x.akhir
    BY <1>1, TambahTerakhir
  <2>2. /\ \A r : ~(y.b = b /\ y.r = r) => Terakhir(g, b, r) = Terakhir(h, b, r)
        /\ y.b = b => Terakhir(g, b, y.r).stok = y.akhir
    BY <1>2, <1>3, TambahTerakhir
  <2>3. QED BY <2>1, <2>2
<1>10. CASE x.b # b
  <2>1. \A r \in C : e[r] = f[r]
    BY <1>8, <1>9, <1>10
  <2>2. Jml(e, C) = Jml(f, C)
    BY <1>5, <2>1, JmlSama
  <2>3. TotalStok(g, b, u) = Jml(e, C) /\ TotalStok(k, b, u) = Jml(f, C)
    BY <1>3, <1>4, <1>6, <1>7, TotalStokJml
  <2>4. QED BY <1>1, <1>2, <2>2, <2>3
<1>11. CASE x.b = b
  <2>1. \A r \in C : r # x.r /\ r # y.r => e[r] = f[r]
    BY <1>8, <1>9
  <2>2. e[x.r] = f[x.r] - q
    <3>1. x.akhir = Terakhir(k, b, x.r).stok + 0 - q
      BY <1>0, <1>11 DEF CocokDengan
    <3>2. e[x.r] = x.akhir
      BY <1>5, <1>8, <1>9, <1>11
    <3>3. QED BY <1>5, <1>8, <3>1, <3>2
  <2>3. e[y.r] = f[y.r] + q
    <3>1. y.akhir = Terakhir(h, b, y.r).stok + q - 0
      BY <1>0, <1>1, <1>11 DEF CocokDengan
    <3>2. e[y.r] = y.akhir /\ Terakhir(h, b, y.r) = Terakhir(k, b, y.r)
      BY <1>5, <1>8, <1>9, <1>11
    <3>3. QED BY <1>5, <1>8, <3>1, <3>2
  <2>4. Jml(e, C) - Jml(f, C) = (e[x.r] - f[x.r]) + (e[y.r] - f[y.r])
    BY <1>5, <1>8, <2>1, JmlDua
  <2>5. Jml(e, C) \in Int /\ Jml(f, C) \in Int
    BY <1>5, <1>8, JmlBulat
  <2>6. f[x.r] \in Int /\ f[y.r] \in Int
    BY <1>5, <1>8
  <2>7. Jml(e, C) = Jml(f, C)
    BY <2>2, <2>3, <2>4, <2>5, <2>6
  <2>8. TotalStok(g, b, u) = Jml(e, C) /\ TotalStok(k, b, u) = Jml(f, C)
    BY <1>3, <1>4, <1>6, <1>7, TotalStokJml
  <2>9. QED BY <1>1, <1>2, <2>7, <2>8
<1>12. QED BY <1>10, <1>11

\* StokMatiTetapMati of one step, from the ledger k to the ledger h.
TetapMati(k, h) ==
  LET x == h[Len(h)] IN
  \A u \in Lingkup :
    /\ x.jenis = "MUTASI_MASUK" /\ DalamLingkup(x.r, u) /\ DalamLingkup(x.mitra, u) =>
         StokMati(h, u) = StokMati(k, u)
    /\ x.asal # 0 => \A b \in StokMati(k, u) : TotalStok(h, b, u) > 0 => b \in StokMati(h, u)

LEMMA TetapBalik ==
  ASSUME NEW k \in Seq(BarisLap), NEW x \in BarisLap, x.jenis # "MUTASI_MASUK"
  PROVE  TetapMati(k, Append(k, x))
<1>1. PICK h : h = Append(k, x)
  OBVIOUS
<1>2. h[Len(h)] = x
  BY <1>1
<1>3. ASSUME NEW u \in Lingkup, x.asal # 0, NEW b \in StokMati(k, u), TotalStok(h, b, u) > 0
      PROVE  b \in StokMati(h, u)
  <2>1. BukanGerak(x, u)
    BY <1>3 DEF BukanGerak
  <2>2. b \in BarangLap /\ Sepi(k, b, u)
    BY <1>3, MatiSepi
  <2>3. Sepi(h, b, u)
    BY <1>1, <2>1, <2>2, SepiTetap
  <2>4. QED BY <1>3, <2>2, <2>3, MatiSepi
<1>4. TetapMati(k, h)
  BY <1>2, <1>3 DEF TetapMati
<1>5. QED BY <1>1, <1>4

LEMMA TetapMutasi ==
  ASSUME NEW k \in Seq(BarisLap), NEW x \in BarisLap, NEW y \in BarisLap,
         CocokDengan(x, Terakhir(k, x.b, x.r)), CocokDengan(y, Terakhir(Append(k, x), y.b, y.r)),
         x.b = y.b, x.r # y.r, x.masuk = 0, y.masuk = x.keluar, y.keluar = 0,
         x.jenis = "MUTASI_KELUAR", y.jenis = "MUTASI_MASUK", y.mitra = x.r, y.asal = 0
  PROVE  TetapMati(k, Append(Append(k, x), y))
<1>1. PICK h : h = Append(k, x)
  OBVIOUS
<1>2. PICK g : g = Append(h, y)
  OBVIOUS
<1>3. h \in Seq(BarisLap) /\ g[Len(g)] = y
  BY <1>1, <1>2
<1>4. ASSUME NEW u \in Lingkup, DalamLingkup(y.r, u), DalamLingkup(y.mitra, u)
      PROVE  StokMati(g, u) = StokMati(k, u)
  <2>1. BukanGerak(x, u) /\ BukanGerak(y, u)
    BY <1>4 DEF BukanGerak
  <2>2. \A b : Sepi(g, b, u) <=> Sepi(k, b, u)
    <3>1. \A b : Sepi(h, b, u) <=> Sepi(k, b, u)
      BY <1>1, <2>1, SepiTetap
    <3>2. \A b : Sepi(g, b, u) <=> Sepi(h, b, u)
      BY <1>2, <1>3, <2>1, SepiTetap
    <3>3. QED BY <3>1, <3>2
  <2>3. \A b : TotalStok(g, b, u) = TotalStok(k, b, u)
    <3>1. DalamLingkup(x.r, u) /\ DalamLingkup(y.r, u)
      BY <1>4
    <3>2. QED BY <1>1, <1>2, <3>1, TotalTetap
  <2>4. \A b : b \in StokMati(g, u) <=> b \in StokMati(k, u)
    BY <2>2, <2>3, MatiSepi
  <2>5. StokMati(g, u) \subseteq BarangLap /\ StokMati(k, u) \subseteq BarangLap
    BY DEF StokMati
  <2>6. QED BY <2>4, <2>5
<1>5. TetapMati(k, g)
  BY <1>3, <1>4 DEF TetapMati
<1>6. QED BY <1>1, <1>2, <1>5

LEMMA MatiDatang ==
  ASSUME LedgerInv, NEW b \in BarangLap, NEW r \in RuangLap, NEW q \in QtyLap, NEW n \in NilaiLap,
         NEW t \in TglLap, DatangLap(b, r, q, n, t)
  PROVE  TetapMati(ledger, ledger')
<1>1. PICK x : x = BarisLedger(ledger, b, r, t, "PEMBELIAN", q, 0, n, 0, r)
  OBVIOUS
<1>2. q \in Nat /\ q > 0 /\ n \in Nat /\ "PEMBELIAN" \in JenisLap /\ ledger \in Seq(BarisLap)
  BY AsumsiLaporan DEF AsumsiLaporan, JenisLap, LedgerInv, LedgerBaik
<1>3. x \in BarisLap /\ x.jenis = "PEMBELIAN"
  BY <1>1, <1>2, BarisBenar
<1>4. ledger' = Append(ledger, x)
  BY <1>1 DEF DatangLap
<1>5. TetapMati(ledger, Append(ledger, x))
  BY <1>2, <1>3, TetapBalik
<1>6. QED BY <1>4, <1>5

LEMMA MatiJual ==
  ASSUME LedgerInv, NEW b \in BarangLap, NEW r \in RuangLap, NEW q \in QtyLap,
         NEW t \in TglLap, JualLap(b, r, q, t)
  PROVE  TetapMati(ledger, ledger')
<1>1. PICK x : x = BarisLedger(ledger, b, r, t, "PENJUALAN", 0, q, 0, 0, r)
  OBVIOUS
<1>2. q \in Nat /\ q > 0 /\ "PENJUALAN" \in JenisLap /\ ledger \in Seq(BarisLap)
  BY AsumsiLaporan DEF AsumsiLaporan, JenisLap, LedgerInv, LedgerBaik
<1>3. PICK h : h = Append(ledger, x)
  OBVIOUS
<1>4. ledger' = h /\ BolehTulis(h)
  BY <1>1, <1>3 DEF JualLap
<1>5. x \in BarisLap /\ x.jenis = "PENJUALAN"
  BY <1>1, <1>2, <1>3, <1>4, BarisBenar
<1>6. TetapMati(ledger, h)
  BY <1>2, <1>3, <1>5, TetapBalik
<1>7. QED BY <1>4, <1>6

LEMMA MatiMutasi ==
  ASSUME LedgerInv, NEW b \in BarangLap, NEW a \in RuangLap, NEW c \in RuangLap, NEW q \in QtyLap,
         NEW t \in TglLap, MutasiLap(b, a, c, q, t)
  PROVE  TetapMati(ledger, ledger')
<1>1. PICK x \in BarisLap, y \in BarisLap :
         /\ ledger' = Append(Append(ledger, x), y)
         /\ CocokDengan(x, Terakhir(ledger, x.b, x.r))
         /\ CocokDengan(y, Terakhir(Append(ledger, x), y.b, y.r))
         /\ x.b = b /\ x.r = a /\ x.jenis = "MUTASI_KELUAR" /\ x.masuk = 0 /\ x.keluar = q
         /\ y.b = b /\ y.r = c /\ y.jenis = "MUTASI_MASUK" /\ y.masuk = q /\ y.keluar = 0 /\ y.asal = 0
         /\ y.mitra = a /\ a # c
  BY MutasiBaris
<1>2. ledger \in Seq(BarisLap)
  BY DEF LedgerInv, LedgerBaik
<1>3. TetapMati(ledger, Append(Append(ledger, x), y))
  <2>1. x.b = y.b /\ x.r # y.r /\ y.mitra = x.r /\ y.masuk = x.keluar
    BY <1>1
  <2>2. QED BY <1>1, <1>2, <2>1, TetapMutasi
<1>4. QED BY <1>1, <1>3

LEMMA MatiBalik ==
  ASSUME LedgerInv, NEW i \in DOMAIN ledger, NEW t \in TglLap, BalikLap(i, t)
  PROVE  TetapMati(ledger, ledger')
<1>1. PICK x \in BarisLap : ledger' = Append(ledger, x) /\ x.jenis = "PEMBATALAN_TRANSAKSI"
  BY BalikBaris
<1>2. ledger \in Seq(BarisLap)
  BY DEF LedgerInv, LedgerBaik
<1>3. TetapMati(ledger, Append(ledger, x))
  BY <1>1, <1>2, TetapBalik
<1>4. QED BY <1>1, <1>3

\* A hand on a row adds none.
LEMMA UbahPanjang ==
  ASSUME LedgerInv, NEW i \in DOMAIN ledger, NEW kolom \in KolomLap, UbahTangan(i, kolom)
  PROVE  ~(Len(ledger') > Len(ledger))
<1>1. PICK k \in Seq(BarisLap) : k = ledger
  BY DEF LedgerInv, LedgerBaik
<1>2. PICK h : h = ledger'
  OBVIOUS
<1>3. h \in Seq(BarisLap)
  BY <1>2, UbahSah DEF LedgerInv, LedgerBaik
<1>4. DOMAIN h = DOMAIN k
  BY <1>1, <1>2 DEF UbahTangan
<1>5. Len(h) = Len(k)
  BY <1>3, <1>4
<1>6. Len(k) \in Nat
  OBVIOUS
<1>7. QED BY <1>1, <1>2, <1>5, <1>6

\* StokMatiTetapMati: a transfer inside the unit and a cancellation leave dead
\* stock dead.
THEOREM StokMatiSelaluMati == SpecLaporan => StokMatiTetapMati
<1> DEFINE Langkah == Len(ledger') > Len(ledger) => TetapMati(ledger, ledger')
<1>1. LedgerInv /\ [NextLaporan]_varsLaporan => [Langkah]_varsLaporan
  <2> SUFFICES ASSUME LedgerInv, NextLaporan, Len(ledger') > Len(ledger) PROVE TetapMati(ledger, ledger')
    OBVIOUS
  <2>1. ASSUME NEW b \in BarangLap, NEW r \in RuangLap, NEW q \in QtyLap, NEW t \in TglLap,
               \/ \E n \in NilaiLap : DatangLap(b, r, q, n, t)
               \/ JualLap(b, r, q, t)
               \/ \E c \in RuangLap : MutasiLap(b, r, c, q, t)
        PROVE  TetapMati(ledger, ledger')
    BY <2>1, MatiDatang, MatiJual, MatiMutasi
  <2>2. ASSUME NEW i \in DOMAIN ledger, NEW t \in TglLap, BalikLap(i, t)
        PROVE  TetapMati(ledger, ledger')
    BY <2>2, MatiBalik
  <2>3. ASSUME NEW i \in DOMAIN ledger, NEW kolom \in KolomLap, UbahTangan(i, kolom) PROVE FALSE
    BY <2>3, UbahPanjang
  <2>4. QED BY <2>1, <2>2, <2>3 DEF NextLaporan, KolomLap
<1>2. SpecLaporan => [][Langkah]_varsLaporan
  BY <1>1, LedgerSelalu, PTL DEF SpecLaporan
<1>3. QED BY <1>2 DEF StokMatiTetapMati, TetapMati

\* A row reverses an older one, or none.
LaporanSah ==
  /\ LedgerInv /\ Len(ledger) <= MaksKartu
  /\ \A i \in DOMAIN ledger : ledger[i].asal \in 0..(i - 1)

LEMMA AsalTambah ==
  ASSUME NEW k \in Seq(BarisLap), NEW h \in Seq(BarisLap), NEW x, h = Append(k, x),
         \A i \in DOMAIN k : k[i].asal \in 0..(i - 1), x.asal \in 0..Len(k)
  PROVE  /\ Len(h) = Len(k) + 1
         /\ \A i \in DOMAIN h : h[i].asal \in 0..(i - 1)
<1>1. Len(h) = Len(k) + 1 /\ DOMAIN h = 1..(Len(k) + 1) /\ DOMAIN k = 1..Len(k) /\ Len(k) \in Nat
  OBVIOUS
<1>2. ASSUME NEW i \in DOMAIN h PROVE h[i].asal \in 0..(i - 1)
  <2>1. CASE i \in DOMAIN k
    <3>1. h[i] = k[i]
      BY <2>1
    <3>2. QED BY <2>1, <3>1
  <2>2. CASE i \notin DOMAIN k
    <3>1. i = Len(k) + 1
      BY <1>1, <2>2
    <3>2. h[i] = x /\ i - 1 = Len(k)
      BY <1>1, <3>1
    <3>3. QED BY <3>2
  <2>3. QED BY <2>1, <2>2
<1>3. QED BY <1>1, <1>2

LEMMA AsalBaris ==
  ASSUME NEW k, NEW b, NEW r, NEW tgl, NEW jenis, NEW masuk, NEW keluar, NEW nm, NEW asal, NEW mitra
  PROVE  BarisLedger(k, b, r, tgl, jenis, masuk, keluar, nm, asal, mitra).asal = asal
BY DEF BarisLedger

LEMMA TipeLaporanLangkah == LaporanSah /\ [NextLaporan]_varsLaporan => LaporanSah'
<1> SUFFICES ASSUME LaporanSah, [NextLaporan]_varsLaporan PROVE LaporanSah'
  OBVIOUS
<1>1. /\ LedgerInv /\ LedgerInv' /\ Len(ledger) <= MaksKartu
      /\ \A i \in DOMAIN ledger : ledger[i].asal \in 0..(i - 1)
  BY LedgerLangkah DEF LaporanSah
<1>2. ledger \in Seq(BarisLap) /\ ledger' \in Seq(BarisLap) /\ Len(ledger) \in Nat /\ MaksKartu \in Nat
  BY <1>1, AsumsiLaporan DEF LedgerInv, LedgerBaik
<1>3. ASSUME NEW x, ledger' = Append(ledger, x), x.asal \in 0..Len(ledger), Len(ledger) < MaksKartu
      PROVE  LaporanSah'
  <2>1. /\ Len(ledger') = Len(ledger) + 1
        /\ \A i \in DOMAIN ledger' : ledger'[i].asal \in 0..(i - 1)
    BY <1>1, <1>2, <1>3, AsalTambah
  <2>2. Len(ledger') <= MaksKartu
    BY <1>2, <1>3, <2>1
  <2>3. QED BY <1>1, <2>1, <2>2 DEF LaporanSah
<1>4. ASSUME NEW b, NEW r, NEW q, NEW n, NEW t, DatangLap(b, r, q, n, t), Len(ledger) < MaksKartu
      PROVE  LaporanSah'
  BY <1>2, <1>3, <1>4, AsalBaris DEF DatangLap
<1>5. ASSUME NEW b, NEW r, NEW q, NEW t, JualLap(b, r, q, t), Len(ledger) < MaksKartu
      PROVE  LaporanSah'
  BY <1>2, <1>3, <1>5, AsalBaris DEF JualLap
<1>6. ASSUME NEW i \in DOMAIN ledger, NEW t, BalikLap(i, t), Len(ledger) < MaksKartu
      PROVE  LaporanSah'
  <2>1. i \in 0..Len(ledger)
    BY <1>2
  <2>2. QED BY <1>3, <1>6, <2>1, AsalBaris DEF BalikLap
<1>7. ASSUME NEW b, NEW r, NEW c, NEW q, NEW t, MutasiLap(b, r, c, q, t), Len(ledger) + 2 <= MaksKartu
      PROVE  LaporanSah'
  <2>1. PICK x, y, k : /\ k = Append(ledger, x) /\ ledger' = Append(k, y)
                       /\ x.asal = 0 /\ y.asal = 0
    <3>1. PICK x : x = BarisLedger(ledger, b, r, t, "MUTASI_KELUAR", 0, q, 0, 0, c)
      OBVIOUS
    <3>2. PICK k : k = Append(ledger, x)
      OBVIOUS
    <3>3. PICK y : y = BarisLedger(k, b, c, t, "MUTASI_MASUK", q, 0, k[Len(k)].nk, 0, r)
      OBVIOUS
    <3>4. ledger' = Append(k, y)
      BY <1>7, <3>1, <3>2, <3>3, Zenon DEF MutasiLap
    <3>5. x.asal = 0 /\ y.asal = 0
      BY <3>1, <3>3, AsalBaris
    <3>6. QED BY <3>2, <3>4, <3>5
  <2>2. k \in Seq(BarisLap)
    <3>1. \A i \in DOMAIN k : i \in DOMAIN ledger' /\ ledger'[i] = k[i] /\ ledger'[i] \in BarisLap
      BY <1>2, <2>1
    <3>2. QED BY <1>2, <2>1, <3>1
  <2>3. Len(k) = Len(ledger) + 1 /\ \A i \in DOMAIN k : k[i].asal \in 0..(i - 1)
    BY <1>1, <1>2, <2>1, <2>2, AsalTambah
  <2>4. 0 \in 0..Len(k)
    BY <2>2
  <2>5. Len(ledger') = Len(k) + 1 /\ \A i \in DOMAIN ledger' : ledger'[i].asal \in 0..(i - 1)
    BY <1>2, <2>1, <2>2, <2>3, <2>4, AsalTambah
  <2>6. Len(ledger') <= MaksKartu
    BY <1>2, <1>7, <2>3, <2>5
  <2>7. QED BY <1>1, <2>5, <2>6 DEF LaporanSah
<1>8. ASSUME NEW i \in DOMAIN ledger, NEW kolom \in KolomLap, UbahTangan(i, kolom)
      PROVE  LaporanSah'
  <2>1. PICK x : x = UbahSatu(ledger[i], kolom)
    OBVIOUS
  <2>2. ledger' = [ledger EXCEPT ![i] = x]
    BY <1>8, <2>1 DEF UbahTangan, UbahSatu
  <2>3. x.asal = ledger[i].asal
    <3>1. ledger[i] \in BarisLap /\ kolom # "asal"
      BY <1>2 DEF KolomLap
    <3>2. QED BY <2>1, <3>1 DEF UbahSatu, BarisLap
  <2>4. DOMAIN ledger' = DOMAIN ledger /\ Len(ledger') = Len(ledger)
    <3>1. DOMAIN ledger' = DOMAIN ledger
      BY <2>2
    <3>2. QED BY <1>2, <3>1
  <2>5. \A j \in DOMAIN ledger : ledger'[j].asal = ledger[j].asal
    BY <2>2, <2>3
  <2>6. QED BY <1>1, <2>4, <2>5 DEF LaporanSah
<1>9. CASE UNCHANGED varsLaporan
  BY <1>1, <1>9 DEF LaporanSah, varsLaporan
<1>10. QED BY <1>2, <1>4, <1>5, <1>6, <1>7, <1>8, <1>9 DEF NextLaporan, KolomLap

\* TypeOKLaporan: no balance below zero, and a row reverses an older one.
LEMMA TipeLaporanSelalu == SpecLaporan => []TypeOKLaporan
<1>1. InitLaporan => LaporanSah
  <2> SUFFICES ASSUME InitLaporan PROVE LaporanSah
    OBVIOUS
  <2>1. Len(ledger) = 0 /\ DOMAIN ledger = {}
    BY DEF InitLaporan
  <2>2. QED BY <2>1, LedgerAwal, AsumsiLaporan DEF LaporanSah
<1>2. LaporanSah => TypeOKLaporan
  <2> SUFFICES ASSUME LaporanSah PROVE TypeOKLaporan
    OBVIOUS
  <2>1. ledger \in Seq(BarisLap) /\ rusak \subseteq DOMAIN ledger
    BY DEF LaporanSah, LedgerInv, LedgerBaik, RantaiBaik
  <2>2. ASSUME NEW i \in DOMAIN ledger
        PROVE  /\ ledger[i].b \in BarangLap /\ ledger[i].r \in RuangLap
               /\ \A kolom \in {"awal", "masuk", "keluar", "akhir", "nm", "nk", "nilai", "hpp"} :
                    ledger[i][kolom] \in Nat
    <3>1. ledger[i] \in BarisLap
      BY <2>1
    <3>2. QED BY <3>1 DEF BarisLap
  <2>3. QED BY <2>1, <2>2 DEF LaporanSah, TypeOKLaporan
<1>3. QED BY <1>1, <1>2, TipeLaporanLangkah, PTL DEF SpecLaporan

-----------------------------------------------------------------------------
(* The value of an invoice.  BarisBeli: a line, nothing but what was       *)
(* ordered having come.                                                    *)
BarisBeli ==
  {x \in [qty : Nat \ {0}, datang : Nat, subtotal : Nat, koli : Nat] : x.datang <= x.qty}

LEMMA TotalJml == ASSUME NEW f PROVE Total(f) = Jml(f, DOMAIN f)
BY DEF Total, Jml

\* Shares add up to what is shared.
LEMMA IndeksAda ==
  ASSUME NEW n \in Nat, n > 0, NEW basis \in [1..n -> Nat]
  PROVE  IndeksTerbesar(basis) \in 1..n
<1>1. PICK V : V = {basis[i] : i \in 1..n}
  OBVIOUS
<1>2. V \subseteq Int /\ V # {} /\ IsFiniteSet(V)
  <2>1. IsFiniteSet(1..n)
    BY BagianHingga
  <2>2. IsFiniteSet(V)
    BY <1>1, <2>1, Citra
  <2>3. 1 \in 1..n
    OBVIOUS
  <2>4. QED BY <1>1, <2>2, <2>3
<1>3. PICK m : m = Max(V)
  OBVIOUS
<1>4. m \in V /\ \A v \in V : v <= m
  BY <1>2, <1>3, AdaMaks
<1>5. PICK H : H = {i \in 1..n : basis[i] = m}
  OBVIOUS
<1>6. H # {} /\ H \subseteq Nat
  BY <1>1, <1>4, <1>5
<1>7. PICK t \in H : \A j \in H : t <= j
  BY <1>6, Terkecil
<1>8. t \in DOMAIN basis /\ \A j \in DOMAIN basis : basis[j] <= basis[t] /\ (j < t => basis[j] < basis[t])
  <2>1. t \in 1..n /\ basis[t] = m
    BY <1>5, <1>7
  <2>2. ASSUME NEW j \in 1..n PROVE basis[j] <= basis[t] /\ (j < t => basis[j] < basis[t])
    <3>1. basis[j] <= m
      BY <1>1, <1>4
    <3>2. CASE basis[j] = m
      <4>1. t <= j
        BY <1>5, <1>7, <3>2
      <4>2. QED BY <2>1, <3>2, <4>1
    <3>3. CASE basis[j] # m
      BY <2>1, <3>1, <3>3
    <3>4. QED BY <3>2, <3>3
  <2>3. QED BY <2>1, <2>2
<1>9. QED BY <1>8 DEF IndeksTerbesar

LEMMA BagiBenar ==
  ASSUME NEW n \in Nat, n > 0, NEW total \in Nat, NEW basis \in [1..n -> Nat]
  PROVE  /\ BagiProporsional(total, basis) \in [1..n -> Int]
         /\ Total(BagiProporsional(total, basis)) = IF Total(basis) = 0 THEN 0 ELSE total
<1>1. PICK b : b = Total(basis)
  OBVIOUS
<1>2. IsFiniteSet(1..n)
  BY BagianHingga
<1>3. b \in Nat
  <2>1. DOMAIN basis = 1..n /\ \A i \in 1..n : basis[i] \in Nat
    OBVIOUS
  <2>2. Jml(basis, 1..n) \in Nat
    BY <1>2, <2>1, JmlAlami
  <2>3. QED BY <1>1, <2>1, <2>2, TotalJml
<1>4. PICK s : s = BagiSendiri(total, basis)
  OBVIOUS
<1>5. s = [i \in 1..n |-> IF total = 0 \/ b = 0 THEN 0 ELSE BulatBagi(total * basis[i], b)]
  BY <1>1, <1>4 DEF BagiSendiri
<1>6. \A i \in 1..n : s[i] \in Int
  <2> SUFFICES ASSUME NEW i \in 1..n, b # 0 PROVE BulatBagi(total * basis[i], b) \in Int
    BY <1>5
  <2>1. total * basis[i] \in Nat
    BY KaliAlami
  <2>2. QED BY <1>3, <2>1, BulatBenar
<1>7. PICK c : c = IF b = 0 THEN 0 ELSE total - Total(s)
  OBVIOUS
<1>8. Total(s) \in Int /\ Total(s) = Jml(s, 1..n)
  <2>1. DOMAIN s = 1..n
    BY <1>5
  <2>2. Jml(s, 1..n) \in Int
    BY <1>2, <1>6, JmlBulat
  <2>3. QED BY <2>1, <2>2, TotalJml
<1>9. c \in Int
  BY <1>7, <1>8
<1>10. PICK t \in 1..n : t = IndeksTerbesar(basis)
  BY IndeksAda
<1>11. PICK h : h = BagiProporsional(total, basis)
  OBVIOUS
<1>12. h = [i \in 1..n |-> s[i] + (IF i = t THEN c ELSE 0)]
  BY <1>1, <1>4, <1>7, <1>10, <1>11 DEF BagiProporsional
<1>13. h \in [1..n -> Int]
  BY <1>6, <1>9, <1>12
<1>14. Jml(h, 1..n) = Jml(s, 1..n) + c
  <2>1. \A x \in 1..n : s[x] \in Int /\ h[x] = s[x] + (IF x = t THEN c ELSE 0)
    BY <1>6, <1>12
  <2>2. PICK S : S = 1..n
    OBVIOUS
  <2>3. IsFiniteSet(S) /\ t \in S /\ \A x \in S : s[x] \in Int /\ h[x] = s[x] + (IF x = t THEN c ELSE 0)
    BY <1>2, <2>1, <2>2
  <2>4. Jml(h, S) = Jml(s, S) + c
    BY <1>9, <2>3, JmlTitik
  <2>5. QED BY <2>2, <2>4
<1>15. Total(h) = Jml(h, 1..n)
  <2>1. DOMAIN h = 1..n
    BY <1>12
  <2>2. QED BY <2>1, TotalJml
<1>16. CASE b = 0
  <2>1. \A i \in 1..n : s[i] = 0
    BY <1>5, <1>16
  <2>2. Jml(s, 1..n) = 0
    BY <1>2, <2>1, JmlNol
  <2>3. QED BY <1>1, <1>7, <1>11, <1>13, <1>14, <1>15, <1>16, <2>2
<1>17. CASE b # 0
  <2>1. Total(h) = total
    BY <1>7, <1>8, <1>14, <1>15, <1>17
  <2>2. QED BY <1>1, <1>11, <1>13, <1>17, <2>1
<1>18. QED BY <1>16, <1>17

-----------------------------------------------------------------------------
(* One line: what it is worth, p, and what its rows brought in.            *)
LEMMA BulatTandaBenar ==
  ASSUME NEW a \in Int, NEW b \in Nat, b > 0
  PROVE  /\ BulatTanda(a, b) \in Int
         /\ 2 * (a - b * BulatTanda(a, b)) <= b
         /\ -(2 * (a - b * BulatTanda(a, b))) <= b
<1>1. CASE a >= 0
  <2>1. a \in Nat /\ BulatTanda(a, b) = BulatBagi(a, b)
    BY <1>1 DEF BulatTanda
  <2>2. QED BY <2>1, BulatBenar
<1>2. CASE a < 0
  <2>1. PICK c \in Nat : c = -a
    BY <1>2
  <2>2. PICK r : r = BulatBagi(c, b)
    OBVIOUS
  <2>3. r \in Nat /\ 2 * (c - b * r) <= b /\ -(2 * (c - b * r)) <= b
    BY <2>1, <2>2, BulatBenar
  <2>4. BulatTanda(a, b) = -r
    BY <1>2, <2>1, <2>2 DEF BulatTanda
  <2>5. PICK x \in Int : x = b * r
    BY <2>3
  <2>6. b * (-r) = -x
    BY <2>3, <2>5
  <2>7. QED BY <2>1, <2>3, <2>4, <2>5, <2>6
<1>3. QED BY <1>1, <1>2

LEMMA BulatTandaTepat ==
  ASSUME NEW p \in Int, NEW q \in Nat, q > 0
  PROVE  BulatTanda(p * q, q) = p
<1>1. PICK r : r = BulatTanda(p * q, q)
  OBVIOUS
<1>2. PICK a \in Int : a = p * q
  OBVIOUS
<1>3. r \in Int /\ 2 * (a - q * r) <= q /\ -(2 * (a - q * r)) <= q
  BY <1>1, <1>2, BulatTandaBenar
<1>4. PICK d \in Int : d = p - r
  BY <1>3
<1>5. a - q * r = q * d
  BY <1>2, <1>3, <1>4
<1>6. PICK x \in Int : x = q * d
  OBVIOUS
<1>7. d >= 1 => x >= q
  BY <1>6
<1>8. d <= -1 => x <= -q
  BY <1>6
<1>9. d = 0
  BY <1>3, <1>5, <1>6, <1>7, <1>8
<1>10. QED BY <1>1, <1>3, <1>4, <1>9

RekMasuk == [jenis : {"PEMBELIAN", "PENERIMAAN_SUSULAN"}, nilai : Int]

NilaiBaris(m) == Total(Kolom(m, "nilai"))

Lurus(b, h, m, p) ==
  /\ h = BulatTanda(100 * p, b.qty) /\ m \in Seq(RekMasuk)
  /\ Len(m) = 1 /\ m[1].jenis = "PEMBELIAN" => m[1].nilai = BulatTanda(p * b.datang, b.qty)
  /\ LET beda == 200 * (b.qty * NilaiBaris(m)) - 200 * (p * b.datang)
         batas == b.qty * (100 * Len(m) + b.datang)
     IN beda <= batas /\ -beda <= batas

LEMMA NilaiBarisTambah ==
  ASSUME NEW m \in Seq(RekMasuk), NEW x \in RekMasuk
  PROVE  NilaiBaris(m) \in Int /\ NilaiBaris(Append(m, x)) = NilaiBaris(m) + x.nilai
<1>1. PICK n \in Nat : n = Len(m)
  OBVIOUS
<1>2. PICK f : f = Kolom(m, "nilai")
  OBVIOUS
<1>3. PICK g : g = Kolom(Append(m, x), "nilai")
  OBVIOUS
<1>4. PICK S : S = 1..n
  OBVIOUS
<1>5. PICK T : T = 1..(n + 1)
  OBVIOUS
<1>6. /\ DOMAIN f = S /\ \A i \in S : f[i] = m[i].nilai
      /\ DOMAIN g = T /\ \A i \in T : g[i] = Append(m, x)[i].nilai
  BY <1>1, <1>2, <1>3, <1>4, <1>5 DEF Kolom
<1>7. T \ {n + 1} = S /\ S \subseteq T /\ n + 1 \in T /\ n + 1 \notin S /\ IsFiniteSet(S) /\ IsFiniteSet(T)
  <2>1. IsFiniteSet(S) /\ S \subseteq Nat
    BY <1>4, BagianHingga
  <2>2. n + 1 \in Nat /\ \A k \in Nat : (k \in T <=> k \in S \/ k = n + 1)
    BY <1>4, <1>5
  <2>3. T \subseteq Nat
    BY <1>5
  <2>4. n + 1 \notin S
    BY <1>4
  <2>5. T = S \cup {n + 1}
    BY <2>1, <2>2, <2>3
  <2>6. IsFiniteSet(T)
    BY <2>1, <2>5, FS_AddElement
  <2>7. QED BY <2>1, <2>4, <2>5, <2>6
<1>8. \A i \in S : g[i] = f[i] /\ f[i] \in Int
  <2>1. \A i \in S : Append(m, x)[i] = m[i] /\ m[i] \in RekMasuk
    BY <1>1, <1>4
  <2> SUFFICES ASSUME NEW i \in S PROVE g[i] = f[i] /\ f[i] \in Int
    OBVIOUS
  <2>2. f[i] = m[i].nilai /\ g[i] = m[i].nilai
    BY <1>6, <1>7, <2>1
  <2>3. m[i].nilai \in Int
    BY <2>1 DEF RekMasuk
  <2>4. QED BY <2>2, <2>3
<1>9. g[n + 1] = x.nilai /\ x.nilai \in Int
  <2>1. Append(m, x)[n + 1] = x
    BY <1>1
  <2>2. QED BY <1>6, <1>7, <2>1 DEF RekMasuk
<1>10. Jml(g, T) = g[n + 1] + Jml(g, S)
  <2>1. \A i \in T : g[i] \in Int
    BY <1>7, <1>8, <1>9
  <2>2. Jml(g, T) = g[n + 1] + Jml(g, T \ {n + 1})
    BY <1>7, <2>1, JmlAmbil
  <2>3. QED BY <1>7, <2>2
<1>11. Jml(g, S) = Jml(f, S) /\ Jml(f, S) \in Int
  BY <1>7, <1>8, JmlSama, JmlBulat
<1>12. NilaiBaris(m) = Jml(f, S) /\ NilaiBaris(Append(m, x)) = Jml(g, T)
  BY <1>2, <1>3, <1>6, TotalJml DEF NilaiBaris
<1>13. QED BY <1>9, <1>10, <1>11, <1>12

LEMMA NilaiBarisKosong == NilaiBaris(<<>>) = 0
<1>1. DOMAIN Kolom(<<>>, "nilai") = {}
  BY DEF Kolom
<1>2. QED BY <1>1, TotalJml, JmlKosong DEF NilaiBaris

LEMMA LurusAwal ==
  ASSUME NEW b \in BarisBeli, NEW p \in Int, NEW h, h = BulatTanda(100 * p, b.qty), NEW m,
         m = IF b.datang = 0 THEN <<>> ELSE <<Baris("PEMBELIAN", BulatTanda(p * b.datang, b.qty))>>
  PROVE  Lurus(b, h, m, p)
<1>1. PICK q \in Nat : q = b.qty
  BY DEF BarisBeli
<1>2. PICK d \in Nat : d = b.datang
  BY DEF BarisBeli
<1>3. q > 0
  BY <1>1 DEF BarisBeli
<1>4. CASE d = 0
  <2>1. m = <<>> /\ Len(m) = 0 /\ m \in Seq(RekMasuk)
    BY <1>2, <1>4
  <2>2. NilaiBaris(m) = 0
    BY <2>1, NilaiBarisKosong
  <2>3. p * b.datang = 0 /\ b.qty * NilaiBaris(m) = 0 /\ b.qty * (100 * Len(m) + b.datang) = 0
    <3>1. p * d = 0 /\ q * 0 = 0 /\ 100 * 0 + d = 0
      BY <1>4
    <3>2. b.qty = q /\ b.datang = d /\ NilaiBaris(m) = 0 /\ Len(m) = 0
      BY <1>1, <1>2, <2>1, <2>2
    <3>3. QED BY <3>1, <3>2
  <2>4. QED BY <2>1, <2>3 DEF Lurus
<1>5. CASE d > 0
  <2>1. PICK v : v = BulatTanda(p * d, q)
    OBVIOUS
  <2>2. PICK a \in Int : a = p * d
    OBVIOUS
  <2>3. v \in Int /\ 2 * (a - q * v) <= q /\ -(2 * (a - q * v)) <= q
    BY <1>3, <2>1, <2>2, BulatTandaBenar
  <2>4. PICK x : x = Baris("PEMBELIAN", v)
    OBVIOUS
  <2>5. x \in RekMasuk /\ x.jenis = "PEMBELIAN" /\ x.nilai = v
    BY <2>3, <2>4 DEF RekMasuk, Baris
  <2>6. m = <<x>> /\ m \in Seq(RekMasuk) /\ Len(m) = 1 /\ m[1] = x
    BY <1>1, <1>2, <1>5, <2>1, <2>4, <2>5
  <2>7. NilaiBaris(m) = v
    <3>1. m = Append(<<>>, x) /\ <<>> \in Seq(RekMasuk)
      BY <2>6
    <3>2. NilaiBaris(m) = NilaiBaris(<<>>) + x.nilai
      BY <2>5, <3>1, NilaiBarisTambah
    <3>3. QED BY <2>3, <2>5, <3>2, NilaiBarisKosong
  <2>8. PICK y \in Int : y = q * v
    BY <2>3
  <2>9. PICK z \in Int : z = q * (100 * 1 + d)
    OBVIOUS
  <2>10. 100 * q <= z
    <3>1. q * 100 <= q * (100 * 1 + d)
      BY KaliNaik
    <3>2. QED BY <2>9, <3>1
  <2>11. 200 * y - 200 * a <= z /\ -(200 * y - 200 * a) <= z
    BY <2>3, <2>8, <2>10
  <2>12. QED BY ZenonT(30), <1>1, <1>2, <2>1, <2>2, <2>5, <2>6, <2>7, <2>8, <2>9, <2>11 DEF Lurus
<1>6. QED BY <1>4, <1>5

LEMMA LurusSusul ==
  ASSUME NEW b \in BarisBeli, NEW p \in Int, NEW h, NEW m, Lurus(b, h, m, p),
         NEW k \in Nat, NEW c \in BarisBeli, c.qty = b.qty, c.datang = b.datang + k
  PROVE  Lurus(c, h, Append(m, Baris("PENERIMAAN_SUSULAN", BulatTanda(h * k, 100))), p)
<1>1. PICK q \in Nat : q = b.qty /\ q > 0
  BY DEF BarisBeli
<1>2. PICK d \in Nat : d = b.datang
  BY DEF BarisBeli
<1>3. h = BulatTanda(100 * p, q) /\ m \in Seq(RekMasuk)
  BY <1>1 DEF Lurus
<1>4. PICK v \in Int : v = NilaiBaris(m)
  <2>1. [jenis |-> "PEMBELIAN", nilai |-> 0] \in RekMasuk
    BY DEF RekMasuk
  <2>2. NilaiBaris(m) \in Int
    BY <1>3, <2>1, NilaiBarisTambah
  <2>3. QED BY <2>2
<1>5. PICK l \in Nat : l = Len(m)
  BY <1>3
<1>6. /\ 200 * (q * v) - 200 * (p * d) <= q * (100 * l + d)
      /\ -(200 * (q * v) - 200 * (p * d)) <= q * (100 * l + d)
  BY <1>1, <1>2, <1>4, <1>5 DEF Lurus
<1>7. h \in Int /\ 2 * (100 * p - q * h) <= q /\ -(2 * (100 * p - q * h)) <= q
  <2>1. PICK a \in Int : a = 100 * p
    OBVIOUS
  <2>2. h = BulatTanda(a, q)
    BY <1>3, <2>1
  <2>3. QED BY <1>1, <2>1, <2>2, BulatTandaBenar
<1>8. PICK f : f = BulatTanda(h * k, 100)
  OBVIOUS
<1>9. f \in Int /\ 2 * (h * k - 100 * f) <= 100 /\ -(2 * (h * k - 100 * f)) <= 100
  <2>1. PICK a \in Int : a = h * k
    BY <1>7
  <2>2. QED BY <1>8, <2>1, BulatTandaBenar
<1>10. PICK x : x = Baris("PENERIMAAN_SUSULAN", f)
  OBVIOUS
<1>11. x \in RekMasuk /\ x.jenis = "PENERIMAAN_SUSULAN" /\ x.nilai = f
  BY <1>9, <1>10 DEF RekMasuk, Baris
<1>12. PICK n : n = Append(m, x)
  OBVIOUS
<1>13. n \in Seq(RekMasuk) /\ Len(n) = l + 1 /\ n[l + 1] = x
  BY <1>3, <1>5, <1>11, <1>12
<1>14. NilaiBaris(n) = v + f
  BY <1>3, <1>4, <1>11, <1>12, NilaiBarisTambah
<1>15. ~(Len(n) = 1 /\ n[1].jenis = "PEMBELIAN")
  BY <1>5, <1>11, <1>13
<1>16. /\ 200 * (q * (v + f)) - 200 * (p * (d + k)) <= q * (100 * (l + 1) + (d + k))
       /\ -(200 * (q * (v + f)) - 200 * (p * (d + k))) <= q * (100 * (l + 1) + (d + k))
  <2>1. PICK X \in Int : X = h * k - 100 * f
    BY <1>7, <1>9
  <2>2. PICK Y \in Int : Y = 200 * p - 2 * (q * h)
    <3>1. h \in Int
      BY <1>7
    <3>2. PICK e \in Int : e = q * h
      BY <3>1
    <3>3. PICK a \in Int : a = 200 * p
      OBVIOUS
    <3>4. PICK z \in Int : z = 2 * e
      OBVIOUS
    <3>5. a - z \in Int
      OBVIOUS
    <3>6. QED BY <3>2, <3>3, <3>4, <3>5
  <2>3. X <= 50 /\ -50 <= X /\ Y <= q /\ -q <= Y
    <3>1. PICK a \in Int : a = q * h
      BY <1>7
    <3>2. PICK e \in Int : e = h * k
      BY <1>7
    <3>3. QED BY <1>7, <1>9, <2>1, <2>2, <3>1, <3>2
  <2>4. q * X <= q * 50 /\ q * (-50) <= q * X /\ k * Y <= k * q /\ k * (-q) <= k * Y
    BY <2>3, KaliNaik
  <2>5. PICK qv \in Int : qv = q * v
    OBVIOUS
  <2>6. PICK qf \in Int : qf = q * f
    BY <1>9
  <2>7. PICK pd \in Int : pd = p * d
    OBVIOUS
  <2>8. PICK pk \in Int : pk = p * k
    OBVIOUS
  <2>9. PICK hk \in Int : hk = h * k
    BY <1>7
  <2>10. PICK qhk \in Int : qhk = q * hk
    OBVIOUS
  <2>11. PICK kq \in Int : kq = k * q
    OBVIOUS
  <2>12. PICK qd \in Int : qd = q * d
    OBVIOUS
  <2>13. q * X = qhk - 100 * qf
    BY <1>9, <2>1, <2>6, <2>9, <2>10
  <2>14. k * Y = 200 * pk - 2 * qhk
    <3>1. k * (q * h) = q * (h * k)
      BY <1>7
    <3>2. PICK e \in Int : e = q * h
      BY <1>7
    <3>3. k * (200 * p - 2 * e) = 200 * (p * k) - 2 * (k * e)
      OBVIOUS
    <3>4. QED BY <2>2, <2>8, <2>9, <2>10, <3>1, <3>2, <3>3
  <2>15. k * (-q) = -kq /\ q * (-50) = -(50 * q)
    BY <2>11
  <2>16. q * (v + f) = qv + qf /\ p * (d + k) = pd + pk
    BY <1>9, <2>5, <2>6, <2>7, <2>8
  <2>17. q * (100 * (l + 1) + (d + k)) = 100 * (q * l) + 100 * q + qd + kq
    BY <2>11, <2>12
  <2>18. q * (100 * l + d) = 100 * (q * l) + qd
    BY <2>12
  <2>19. PICK ql \in Int : ql = q * l
    OBVIOUS
  <2>20. QED BY <1>6, <2>4, <2>5, <2>7, <2>11, <2>13, <2>14, <2>15, <2>16, <2>17, <2>18, <2>19
<1>17. QED BY ZenonT(30), <1>1, <1>2, <1>3, <1>8, <1>10, <1>12, <1>13, <1>14, <1>15, <1>16 DEF Lurus

\* What may be lost on a line all of which has come.
BatasBaris(b, m) == IF Len(m) = 1 /\ m[1].jenis = "PEMBELIAN" THEN 0 ELSE 100 * Len(m) + b.qty

LEMMA LurusAkhir ==
  ASSUME NEW b \in BarisBeli, NEW p \in Int, NEW h, NEW m, Lurus(b, h, m, p), b.datang = b.qty
  PROVE  /\ NilaiBaris(m) \in Int /\ BatasBaris(b, m) \in Int
         /\ 200 * (NilaiBaris(m) - p) <= BatasBaris(b, m)
         /\ -200 * (NilaiBaris(m) - p) <= BatasBaris(b, m)
<1>1. PICK q \in Nat : q = b.qty /\ q > 0 /\ q = b.datang
  BY DEF BarisBeli
<1>2. m \in Seq(RekMasuk)
  BY DEF Lurus
<1>3. PICK v \in Int : v = NilaiBaris(m)
  <2>1. [jenis |-> "PEMBELIAN", nilai |-> 0] \in RekMasuk
    BY DEF RekMasuk
  <2>2. NilaiBaris(m) \in Int
    BY <1>2, <2>1, NilaiBarisTambah
  <2>3. QED BY <2>2
<1>4. PICK l \in Nat : l = Len(m)
  BY <1>2
<1>5. CASE l = 1 /\ m[1].jenis = "PEMBELIAN"
  <2>1. m[1].nilai = p
    BY <1>1, <1>4, <1>5, BulatTandaTepat DEF Lurus
  <2>2. m[1] \in RekMasuk /\ m = Append(<<>>, m[1]) /\ <<>> \in Seq(RekMasuk)
    <3>1. Len(m) = 1 /\ m[1] \in RekMasuk
      <4>1. Len(m) = 1
        BY <1>4, <1>5
      <4>2. 1 \in DOMAIN m
        BY <1>2, <4>1
      <4>3. QED BY <1>2, <4>1, <4>2
    <3>2. PICK x \in RekMasuk : x = m[1]
      BY <3>1
    <3>3. PICK n : n = Append(<<>>, x)
      OBVIOUS
    <3>4. n \in Seq(RekMasuk) /\ Len(n) = 1 /\ n[1] = x
      BY <3>3
    <3>5. m = n
      BY <1>2, <3>1, <3>2, <3>4
    <3>6. QED BY <3>1, <3>2, <3>3, <3>5
  <2>3. NilaiBaris(m) = NilaiBaris(<<>>) + m[1].nilai
    BY <2>2, NilaiBarisTambah
  <2>4. v = p
    BY <1>3, <2>1, <2>3, NilaiBarisKosong
  <2>5. BatasBaris(b, m) = 0
    BY <1>4, <1>5 DEF BatasBaris
  <2>6. QED BY <1>3, <2>4, <2>5
<1>6. CASE ~(l = 1 /\ m[1].jenis = "PEMBELIAN")
  <2>1. BatasBaris(b, m) = 100 * l + q
    BY <1>1, <1>4, <1>6 DEF BatasBaris
  <2>2. /\ 200 * (q * v) - 200 * (p * q) <= q * (100 * l + q)
        /\ -(200 * (q * v) - 200 * (p * q)) <= q * (100 * l + q)
    BY <1>1, <1>3, <1>4 DEF Lurus
  <2>3. q * (200 * (v - p)) = 200 * (q * v) - 200 * (p * q) /\ q * (-200 * (v - p)) = -(200 * (q * v) - 200 * (p * q))
    OBVIOUS
  <2>4. 200 * (v - p) <= 100 * l + q /\ -200 * (v - p) <= 100 * l + q
    BY <1>1, <2>2, <2>3, KaliTurun
  <2>5. QED BY <1>3, <2>1, <2>4
<1>7. QED BY <1>4, <1>5, <1>6

-----------------------------------------------------------------------------
(* The invoice.                                                            *)
LEMMA KolomBenar ==
  ASSUME NEW n \in Nat, NEW r \in [1..n -> BarisBeli], NEW k \in {"qty", "datang", "subtotal", "koli"}
  PROVE  Kolom(r, k) \in [1..n -> Nat]
<1>1. \A i \in 1..n : r[i][k] \in Nat
  <2>1. \A x \in BarisBeli : x.qty \in Nat /\ x.datang \in Nat /\ x.subtotal \in Nat /\ x.koli \in Nat
    BY DEF BarisBeli
  <2>2. QED BY <2>1
<1>2. QED BY <1>1 DEF Kolom

LEMMA KolomSama ==
  ASSUME NEW n \in Nat, NEW r \in [1..n -> BarisBeli], NEW s \in [1..n -> BarisBeli],
         \A i \in 1..n : s[i].subtotal = r[i].subtotal
  PROVE  Kolom(s, "subtotal") = Kolom(r, "subtotal")
BY DEF Kolom

FakturSah ==
  /\ kepala \in KepalaFaktur
  /\ \E n \in Nat : n > 0 /\ baris \in [1..n -> BarisBeli]
  /\ kepala.diskon <= Total(Kolom(baris, "subtotal"))

LEMMA KepalaSah ==
  ASSUME kepala \in KepalaFaktur
  PROVE  /\ kepala.diskon \in Nat /\ kepala.ppn \in Nat /\ kepala.kredit \in BOOLEAN
         /\ kepala.totalKoli \in Nat /\ BiayaAngkut \in Nat
<1>1. /\ kepala.diskon \in Nat /\ kepala.ppn \in Nat /\ kepala.kredit \in BOOLEAN
      /\ kepala.totalKoli \in Nat /\ kepala.tarif \in Nat
  BY AsumsiAlokasi
<1>2. kepala.totalKoli * kepala.tarif \in Nat
  BY <1>1, KaliAlami
<1>3. BiayaAngkut \in Nat
  BY <1>2, BulatBenar DEF BiayaAngkut
<1>4. QED BY <1>1, <1>3

LEMMA AngkutBenar ==
  ASSUME FakturSah, NEW n \in Nat, n > 0, baris \in [1..n -> BarisBeli]
  PROVE  AlokasiAngkut \in [1..n -> Int] /\ Total(AlokasiAngkut) \in {0, BiayaAngkut}
<1>1. PICK s : s = BasisAlokasi
  OBVIOUS
<1>2. s \in [1..n -> Nat]
  BY <1>1, KolomBenar DEF BasisAlokasi
<1>3. BiayaAngkut \in Nat
  BY KepalaSah DEF FakturSah
<1>4. /\ BagiProporsional(BiayaAngkut, s) \in [1..n -> Int]
      /\ Total(BagiProporsional(BiayaAngkut, s)) = IF Total(s) = 0 THEN 0 ELSE BiayaAngkut
  BY <1>2, <1>3, BagiBenar
<1>5. QED BY <1>1, <1>4 DEF AlokasiAngkut

\* The lines together are worth the invoice and the freight they carry.
LEMMA PenuhBenar ==
  ASSUME FakturSah, NEW n \in Nat, n > 0, baris \in [1..n -> BarisBeli]
  PROVE  /\ NilaiPenuh \in [1..n -> Int]
         /\ Total(NilaiPenuh) = NilaiFaktur + Total(AlokasiAngkut)
<1>1. PICK S : S = 1..n
  OBVIOUS
<1>2. IsFiniteSet(S)
  BY <1>1, BagianHingga
<1>3. PICK s : s = Kolom(baris, "subtotal")
  OBVIOUS
<1>4. s \in [S -> Nat]
  BY <1>1, <1>3, KolomBenar
<1>5. PICK ppn \in Nat : ppn = IF kepala.kredit THEN 0 ELSE kepala.ppn
  BY KepalaSah DEF FakturSah
<1>6. PICK diskon \in Nat : diskon = kepala.diskon
  BY KepalaSah DEF FakturSah
<1>7. PICK f : f = BagiProporsional(diskon, s)
  OBVIOUS
<1>8. PICK g : g = BagiProporsional(ppn, s)
  OBVIOUS
<1>9. PICK h : h = AlokasiAngkut
  OBVIOUS
<1>10. f \in [S -> Int] /\ Total(f) = IF Total(s) = 0 THEN 0 ELSE diskon
  BY <1>1, <1>4, <1>7, BagiBenar
<1>11. g \in [S -> Int] /\ Total(g) = IF Total(s) = 0 THEN 0 ELSE ppn
  BY <1>1, <1>4, <1>8, BagiBenar
<1>12. h \in [S -> Int]
  BY <1>1, <1>9, AngkutBenar
<1>13. PICK u : u = [i \in S |-> s[i] - f[i] + g[i] + h[i]]
  OBVIOUS
<1>14. NilaiPenuh = u
  <2>1. DOMAIN baris = S
    BY <1>1
  <2>2. QED BY <1>3, <1>5, <1>6, <1>7, <1>8, <1>9, <1>13, <2>1 DEF NilaiPenuh
<1>15. PICK a : a = [i \in S |-> f[i] + u[i]]
  OBVIOUS
<1>16. PICK c : c = [i \in S |-> s[i] + g[i]]
  OBVIOUS
<1>17. \A i \in S : /\ s[i] \in Int /\ f[i] \in Int /\ g[i] \in Int /\ h[i] \in Int
                    /\ u[i] \in Int /\ a[i] \in Int /\ c[i] \in Int
                    /\ a[i] = f[i] + u[i] /\ c[i] = s[i] + g[i] /\ a[i] = c[i] + h[i]
  BY <1>4, <1>10, <1>11, <1>12, <1>13, <1>15, <1>16
<1>18. /\ Jml(a, S) = Jml(f, S) + Jml(u, S)
       /\ Jml(c, S) = Jml(s, S) + Jml(g, S)
       /\ Jml(a, S) = Jml(c, S) + Jml(h, S)
  BY <1>2, <1>17, JmlTambah
<1>19. /\ Jml(s, S) \in Int /\ Jml(f, S) \in Int /\ Jml(g, S) \in Int
       /\ Jml(h, S) \in Int /\ Jml(u, S) \in Int
  BY <1>2, <1>17, JmlBulat
<1>20. /\ Total(s) = Jml(s, S) /\ Total(f) = Jml(f, S) /\ Total(g) = Jml(g, S)
       /\ Total(h) = Jml(h, S) /\ Total(u) = Jml(u, S)
  <2>1. DOMAIN s = S /\ DOMAIN f = S /\ DOMAIN g = S /\ DOMAIN h = S /\ DOMAIN u = S
    BY <1>4, <1>10, <1>11, <1>12, <1>13
  <2>2. QED BY <2>1, TotalJml
<1>21. Total(s) - Total(f) + Total(g) = NilaiFaktur
  <2>1. Total(s) \in Int /\ diskon <= Total(s)
    BY <1>3, <1>6, <1>19, <1>20 DEF FakturSah
  <2>2. CASE Total(s) = 0
    <3>1. diskon = 0 /\ Total(f) = 0 /\ Total(g) = 0
      BY <1>10, <1>11, <2>1, <2>2
    <3>2. QED BY <1>3, <1>6, <2>2, <3>1 DEF NilaiFaktur
  <2>3. CASE Total(s) # 0
    <3>1. Total(f) = diskon /\ Total(g) = ppn
      BY <1>10, <1>11, <2>3
    <3>2. NilaiFaktur = Total(s) - diskon + ppn
      BY <1>3, <1>5, <1>6, <2>3 DEF NilaiFaktur
    <3>3. QED BY <3>1, <3>2
  <2>4. QED BY <2>2, <2>3
<1>22. Total(u) = NilaiFaktur + Total(h)
  BY SMTT(20), <1>18, <1>19, <1>20, <1>21
<1>23. QED BY <1>1, <1>9, <1>14, <1>17, <1>13, <1>22

\* p: what each line is worth.
Tersalur ==
  tahap = "POSTED" =>
    /\ DOMAIN hpp = DOMAIN baris /\ DOMAIN masukan = DOMAIN baris
    /\ Total(alokasi) \in {0, BiayaAngkut}
    /\ \E p \in [DOMAIN baris -> Int] :
         /\ Total(p) = NilaiFaktur + Total(alokasi)
         /\ \A i \in DOMAIN baris : Lurus(baris[i], hpp[i], masukan[i], p[i])

IAlokasi == FakturSah /\ Tersalur

LEMMA AlokasiAwal == InitAlokasi => IAlokasi
<1>1. SUFFICES ASSUME InitAlokasi PROVE IAlokasi
  OBVIOUS
<1>2. BarisFaktur \subseteq BarisBeli
  BY AsumsiAlokasi DEF BarisBeli
<1>3. PICK n \in 1..MaksBarisFaktur : baris \in [1..n -> BarisFaktur]
  BY <1>1 DEF InitAlokasi
<1>4. n \in Nat /\ n > 0
  BY AsumsiAlokasi
<1>5. baris \in [1..n -> BarisBeli]
  BY <1>2, <1>3
<1>6. QED BY <1>1, <1>4, <1>5 DEF InitAlokasi, IAlokasi, FakturSah, Tersalur

LEMMA KoliTerjaga == ASSUME IAlokasi, BagiRataKoli PROVE IAlokasi'
<1>1. PICK n \in Nat : n > 0 /\ baris \in [1..n -> BarisBeli]
  BY DEF IAlokasi, FakturSah
<1>2. PICK h : h = BagiProporsional(kepala.totalKoli, Kolom(baris, "qty"))
  OBVIOUS
<1>3. DOMAIN h = 1..n /\ \A i \in 1..n : h[i] \in Int
  <2>1. kepala.totalKoli \in Nat
    BY KepalaSah DEF IAlokasi, FakturSah
  <2>2. Kolom(baris, "qty") \in [1..n -> Nat]
    BY <1>1, KolomBenar
  <2>3. h \in [1..n -> Int]
    BY <1>1, <1>2, <2>1, <2>2, BagiBenar
  <2>4. QED BY <2>3
<1>4. \A i \in 1..n : h[i] \in Nat
  BY <1>2, <1>3 DEF BagiRataKoli
<1>5. PICK c : c = [i \in 1..n |-> [baris[i] EXCEPT !.koli = h[i]]]
  OBVIOUS
<1>6. baris' = c
  BY <1>1, <1>2, <1>5 DEF BagiRataKoli
<1>7. \A i \in 1..n : c[i] \in BarisBeli /\ c[i].subtotal = baris[i].subtotal
  <2> SUFFICES ASSUME NEW i \in 1..n PROVE c[i] \in BarisBeli /\ c[i].subtotal = baris[i].subtotal
    OBVIOUS
  <2>1. baris[i] \in BarisBeli /\ h[i] \in Nat
    BY <1>1, <1>4
  <2>2. c[i] = [baris[i] EXCEPT !.koli = h[i]]
    BY <1>5
  <2>3. QED BY <2>1, <2>2 DEF BarisBeli
<1>8. c \in [1..n -> BarisBeli]
  BY <1>5, <1>7
<1>9. Kolom(c, "subtotal") = Kolom(baris, "subtotal")
  BY <1>1, <1>7, <1>8, KolomSama
<1>10. FakturSah'
  BY <1>1, <1>6, <1>8, <1>9 DEF IAlokasi, FakturSah, BagiRataKoli
<1>11. tahap' # "POSTED"
  BY DEF BagiRataKoli
<1>12. QED BY <1>10, <1>11 DEF IAlokasi, Tersalur

LEMMA PostingTerjaga == ASSUME IAlokasi, PostingFaktur PROVE IAlokasi'
<1>1. PICK n \in Nat : n > 0 /\ baris \in [1..n -> BarisBeli]
  BY DEF IAlokasi, FakturSah
<1>2. PICK p : p = NilaiPenuh
  OBVIOUS
<1>3. p \in [1..n -> Int] /\ Total(p) = NilaiFaktur + Total(AlokasiAngkut)
  BY <1>1, <1>2, PenuhBenar DEF IAlokasi
<1>4. /\ kepala' = kepala /\ baris' = baris /\ tahap' = "POSTED" /\ alokasi' = AlokasiAngkut
      /\ DOMAIN hpp' = 1..n /\ DOMAIN masukan' = 1..n
      /\ \A i \in 1..n :
           /\ hpp'[i] = BulatTanda(100 * p[i], baris[i].qty)
           /\ masukan'[i] = IF baris[i].datang = 0 THEN <<>>
                            ELSE <<Baris("PEMBELIAN", BulatTanda(p[i] * baris[i].datang, baris[i].qty))>>
  BY <1>1, <1>2 DEF PostingFaktur
<1>5. \A i \in 1..n : Lurus(baris[i], hpp'[i], masukan'[i], p[i])
  <2> SUFFICES ASSUME NEW i \in 1..n PROVE Lurus(baris[i], hpp'[i], masukan'[i], p[i])
    OBVIOUS
  <2>1. baris[i] \in BarisBeli /\ p[i] \in Int
    BY <1>1, <1>3
  <2>2. QED BY <1>4, <2>1, LurusAwal
<1>6. Total(AlokasiAngkut) \in {0, BiayaAngkut}
  BY <1>1, AngkutBenar DEF IAlokasi
<1>7. BiayaAngkut' = BiayaAngkut /\ NilaiFaktur' = NilaiFaktur
  BY <1>4 DEF BiayaAngkut, NilaiFaktur
<1>8. FakturSah'
  BY <1>4 DEF IAlokasi, FakturSah
<1>9. DOMAIN baris' = 1..n
  BY <1>1, <1>4
<1>10. Tersalur'
  BY <1>3, <1>4, <1>5, <1>6, <1>7, <1>9 DEF Tersalur
<1>11. QED BY <1>8, <1>10 DEF IAlokasi

LEMMA SusulanTerjaga ==
  ASSUME IAlokasi, NEW i \in DOMAIN baris, NEW q \in 1..(baris[i].qty - baris[i].datang),
         SusulanBaris(i, q)
  PROVE  IAlokasi'
<1>1. PICK n \in Nat : n > 0 /\ baris \in [1..n -> BarisBeli]
  BY DEF IAlokasi, FakturSah
<1>2. /\ kepala' = kepala /\ tahap' = tahap /\ tahap = "POSTED" /\ hpp' = hpp /\ alokasi' = alokasi
      /\ baris[i].datang + q <= baris[i].qty
  BY DEF SusulanBaris
<1>3. DOMAIN hpp = 1..n /\ DOMAIN masukan = 1..n /\ i \in 1..n
  BY <1>1, <1>2 DEF IAlokasi, Tersalur
<1>4. PICK p \in [1..n -> Int] : /\ Total(p) = NilaiFaktur + Total(alokasi)
                                 /\ \A j \in 1..n : Lurus(baris[j], hpp[j], masukan[j], p[j])
  BY <1>1, <1>2 DEF IAlokasi, Tersalur
<1>5. PICK b : b = baris[i]
  OBVIOUS
<1>6. b \in BarisBeli /\ q \in Nat /\ b.datang \in Nat /\ b.qty \in Nat
  BY <1>1, <1>3, <1>5 DEF BarisBeli
<1>7. PICK c : c = [b EXCEPT !.datang = b.datang + q]
  OBVIOUS
<1>8. /\ c \in BarisBeli /\ c.qty = b.qty /\ c.datang = b.datang + q /\ c.subtotal = b.subtotal
  <2>1. b.datang + q <= b.qty /\ b.datang + q \in Nat
    BY <1>2, <1>5, <1>6
  <2>2. QED BY <1>6, <1>7, <2>1 DEF BarisBeli
<1>9. PICK m : m = Append(masukan[i], Baris("PENERIMAAN_SUSULAN", BulatTanda(hpp[i] * q, 100)))
  OBVIOUS
<1>10. /\ DOMAIN baris' = 1..n /\ baris'[i] = c /\ \A j \in 1..n : j # i => baris'[j] = baris[j]
       /\ DOMAIN masukan' = 1..n /\ masukan'[i] = m /\ \A j \in 1..n : j # i => masukan'[j] = masukan[j]
  BY <1>1, <1>3, <1>5, <1>7, <1>9 DEF SusulanBaris
<1>11. PICK r : r = baris'
  OBVIOUS
<1>12. r \in [1..n -> BarisBeli] /\ \A j \in 1..n : r[j].subtotal = baris[j].subtotal
  <2>1. r = [baris EXCEPT ![i] = c]
    BY <1>5, <1>7, <1>11 DEF SusulanBaris
  <2>2. QED BY <1>1, <1>3, <1>5, <1>8, <2>1
<1>13. Kolom(r, "subtotal") = Kolom(baris, "subtotal")
  BY <1>1, <1>12, KolomSama
<1>14. FakturSah'
  BY <1>1, <1>2, <1>11, <1>12, <1>13 DEF IAlokasi, FakturSah
<1>15. BiayaAngkut' = BiayaAngkut /\ NilaiFaktur' = NilaiFaktur
  BY <1>2, <1>11, <1>13 DEF BiayaAngkut, NilaiFaktur
<1>16. Lurus(c, hpp[i], m, p[i])
  <2>1. Lurus(b, hpp[i], masukan[i], p[i]) /\ p[i] \in Int
    BY <1>3, <1>4, <1>5
  <2>2. QED BY <1>6, <1>8, <1>9, <2>1, LurusSusul
<1>17. \A j \in 1..n : Lurus(baris'[j], hpp'[j], masukan'[j], p[j])
  <2> SUFFICES ASSUME NEW j \in 1..n PROVE Lurus(baris'[j], hpp'[j], masukan'[j], p[j])
    OBVIOUS
  <2>1. CASE j = i
    BY <1>2, <1>10, <1>16, <2>1
  <2>2. CASE j # i
    BY <1>2, <1>4, <1>10, <2>2
  <2>3. QED BY <2>1, <2>2
<1>18. Total(alokasi) \in {0, BiayaAngkut}
  BY <1>2 DEF IAlokasi, Tersalur
<1>19. Tersalur'
  BY <1>2, <1>3, <1>4, <1>10, <1>15, <1>17, <1>18 DEF Tersalur
<1>20. QED BY <1>14, <1>19 DEF IAlokasi

LEMMA AlokasiLangkah == ASSUME IAlokasi, [NextAlokasi]_varsAlokasi PROVE IAlokasi'
<1>1. CASE BagiRataKoli
  BY <1>1, KoliTerjaga
<1>2. CASE PostingFaktur
  BY <1>2, PostingTerjaga
<1>3. CASE \E i \in DOMAIN baris : \E q \in 1..(baris[i].qty - baris[i].datang) : SusulanBaris(i, q)
  BY <1>3, SusulanTerjaga
<1>4. CASE UNCHANGED varsAlokasi
  BY <1>4 DEF IAlokasi, FakturSah, Tersalur, varsAlokasi, BiayaAngkut, NilaiFaktur
<1>5. QED BY <1>1, <1>2, <1>3, <1>4 DEF NextAlokasi

LEMMA AlokasiCukup == ASSUME IAlokasi PROVE NilaiFakturTersalur
<1>1. SUFFICES ASSUME tahap = "POSTED", \A i \in DOMAIN baris : baris[i].datang = baris[i].qty
               PROVE  LET beda  == NilaiMasuk - NilaiFaktur - Total(alokasi)
                          batas == Total([i \in DOMAIN baris |-> BatasBulat(i)])
                      IN 200 * beda <= batas /\ -200 * beda <= batas
  BY DEF IAlokasi, Tersalur, NilaiFakturTersalur
<1>2. PICK n \in Nat : n > 0 /\ baris \in [1..n -> BarisBeli]
  BY DEF IAlokasi, FakturSah
<1>3. PICK S : S = 1..n
  OBVIOUS
<1>4. IsFiniteSet(S) /\ DOMAIN baris = S
  BY <1>2, <1>3, BagianHingga
<1>5. PICK p \in [S -> Int] : /\ Total(p) = NilaiFaktur + Total(alokasi)
                              /\ \A i \in S : Lurus(baris[i], hpp[i], masukan[i], p[i])
  BY <1>1, <1>4 DEF IAlokasi, Tersalur
<1>6. PICK v : v = [i \in S |-> NilaiBaris(masukan[i])]
  OBVIOUS
<1>7. PICK w : w = [i \in S |-> BatasBaris(baris[i], masukan[i])]
  OBVIOUS
<1>8. \A i \in S : /\ v[i] \in Int /\ w[i] \in Int /\ p[i] \in Int
                   /\ 200 * (v[i] - p[i]) <= w[i] /\ -200 * (v[i] - p[i]) <= w[i]
  <2> SUFFICES ASSUME NEW i \in S
               PROVE  /\ v[i] \in Int /\ w[i] \in Int /\ p[i] \in Int
                      /\ 200 * (v[i] - p[i]) <= w[i] /\ -200 * (v[i] - p[i]) <= w[i]
    OBVIOUS
  <2>1. baris[i] \in BarisBeli /\ p[i] \in Int /\ baris[i].datang = baris[i].qty
    BY <1>1, <1>2, <1>3, <1>4
  <2>2. Lurus(baris[i], hpp[i], masukan[i], p[i])
    BY <1>5
  <2>3. v[i] = NilaiBaris(masukan[i]) /\ w[i] = BatasBaris(baris[i], masukan[i])
    BY <1>6, <1>7
  <2>4. QED BY <2>1, <2>2, <2>3, LurusAkhir
<1>9. PICK d : d = [i \in S |-> v[i] - p[i]]
  OBVIOUS
<1>10. \A i \in S : d[i] \in Int /\ v[i] \in Int /\ p[i] \in Int /\ v[i] = d[i] + p[i]
  BY <1>8, <1>9
<1>11. Jml(v, S) = Jml(d, S) + Jml(p, S)
  BY <1>4, <1>10, JmlTambah
<1>12. PICK x : x = [i \in S |-> 200 * d[i]]
  OBVIOUS
<1>13. PICK y : y = [i \in S |-> -200 * d[i]]
  OBVIOUS
<1>14. \A i \in S : x[i] \in Int /\ y[i] \in Int /\ x[i] <= w[i] /\ y[i] <= w[i] /\ w[i] \in Int
  BY <1>8, <1>9, <1>10, <1>12, <1>13
<1>15. Jml(x, S) = 200 * Jml(d, S)
  <2>1. PICK c \in Int : c = 200
    OBVIOUS
  <2>2. \A i \in S : d[i] \in Int /\ x[i] = c * d[i]
    BY <1>10, <1>12, <2>1
  <2>3. Jml(x, S) = c * Jml(d, S)
    BY <1>4, <2>2, JmlKali
  <2>4. QED BY <2>1, <2>3
<1>16. Jml(y, S) = -200 * Jml(d, S)
  <2>1. PICK c \in Int : c = -200
    OBVIOUS
  <2>2. \A i \in S : d[i] \in Int /\ y[i] = c * d[i]
    BY <1>10, <1>13, <2>1
  <2>3. Jml(y, S) = c * Jml(d, S)
    BY <1>4, <2>2, JmlKali
  <2>4. PICK a \in Int : a = Jml(d, S)
    BY <1>4, <1>10, JmlBulat
  <2>5. c * a = -200 * a
    BY <2>1
  <2>6. QED BY <2>3, <2>4, <2>5
<1>17. Jml(x, S) <= Jml(w, S) /\ Jml(y, S) <= Jml(w, S)
  BY <1>4, <1>14, JmlNaik
<1>18. Jml(d, S) \in Int /\ Jml(p, S) \in Int /\ Jml(v, S) \in Int
  BY <1>4, <1>10, JmlBulat
<1>19. NilaiMasuk = Jml(v, S)
  <2>1. v = [i \in DOMAIN baris |-> Total(Kolom(masukan[i], "nilai"))] /\ DOMAIN v = S
    BY <1>4, <1>6 DEF NilaiBaris
  <2>2. QED BY <2>1, TotalJml DEF NilaiMasuk
<1>20. Total([i \in DOMAIN baris |-> BatasBulat(i)]) = Jml(w, S)
  <2>1. w = [i \in DOMAIN baris |-> BatasBulat(i)] /\ DOMAIN w = S
    BY <1>4, <1>7 DEF BatasBaris, BatasBulat
  <2>2. QED BY <2>1, TotalJml
<1>21. Total(p) = Jml(p, S)
  <2>1. DOMAIN p = S
    BY <1>5
  <2>2. QED BY <2>1, TotalJml
<1>22. NilaiFaktur \in Int /\ Total(alokasi) \in Int
  <2>1. kepala.diskon \in Nat /\ kepala.ppn \in Nat /\ BiayaAngkut \in Nat
    BY KepalaSah DEF IAlokasi, FakturSah
  <2>2. Total(alokasi) \in Int
    BY <1>1, <2>1 DEF IAlokasi, Tersalur
  <2>3. PICK s : s = Kolom(baris, "subtotal")
    OBVIOUS
  <2>4. s \in [S -> Nat] /\ DOMAIN s = S
    BY <1>2, <1>3, <2>3, KolomBenar
  <2>5. \A i \in S : s[i] \in Int
    BY <2>4
  <2>6. Total(s) \in Int
    BY <1>4, <2>4, <2>5, TotalJml, JmlBulat
  <2>7. QED BY <2>1, <2>2, <2>3, <2>6 DEF NilaiFaktur
<1>23. NilaiMasuk - NilaiFaktur - Total(alokasi) = Jml(d, S)
  BY <1>5, <1>11, <1>18, <1>19, <1>21, <1>22
<1>24. QED BY <1>15, <1>16, <1>17, <1>20, <1>23

\* The value of an invoice and the freight its lines carry is what they bring
\* into the stock, but for rounding.
THEOREM FakturSelaluTersalur == SpecAlokasi => []NilaiFakturTersalur
<1>1. InitAlokasi => IAlokasi
  BY AlokasiAwal
<1>2. IAlokasi /\ [NextAlokasi]_varsAlokasi => IAlokasi'
  BY AlokasiLangkah
<1>3. IAlokasi => NilaiFakturTersalur
  BY AlokasiCukup
<1>4. QED BY <1>1, <1>2, <1>3, PTL DEF SpecAlokasi

IAlokasiTipe == IAlokasi /\ tahap \in {"DRAFT", "POSTED"}

\* TypeOKAlokasi: no line receives more than was ordered.
LEMMA TipeAlokasiSelalu == SpecAlokasi => []TypeOKAlokasi
<1>1. InitAlokasi => IAlokasiTipe
  BY AlokasiAwal DEF InitAlokasi, IAlokasiTipe
<1>2. IAlokasiTipe /\ [NextAlokasi]_varsAlokasi => IAlokasiTipe'
  <2> SUFFICES ASSUME IAlokasiTipe, [NextAlokasi]_varsAlokasi PROVE IAlokasiTipe'
    OBVIOUS
  <2>1. IAlokasi'
    BY AlokasiLangkah DEF IAlokasiTipe
  <2>2. tahap' \in {"DRAFT", "POSTED"}
    BY DEF IAlokasiTipe, NextAlokasi, BagiRataKoli, PostingFaktur, SusulanBaris, varsAlokasi
  <2>3. QED BY <2>1, <2>2 DEF IAlokasiTipe
<1>3. IAlokasiTipe => TypeOKAlokasi
  <2> SUFFICES ASSUME IAlokasiTipe PROVE TypeOKAlokasi
    OBVIOUS
  <2>1. PICK n \in Nat : baris \in [1..n -> BarisBeli]
    BY DEF IAlokasiTipe, IAlokasi, FakturSah
  <2>2. \A i \in DOMAIN baris : baris[i].datang \in 0..baris[i].qty /\ baris[i].koli \in Nat
    BY <2>1 DEF BarisBeli
  <2>3. QED BY <2>2 DEF IAlokasiTipe, IAlokasi, Tersalur, TypeOKAlokasi
<1>4. QED BY <1>1, <1>2, <1>3, PTL DEF SpecAlokasi
=============================================================================
