--------------------------- MODULE Piutang_proof ---------------------------
(***************************************************************************)
(* Proofs about Piutang, for any notas and payments, any limits and any    *)
(* number of sessions: no nota ever takes in more than it is worth, none   *)
(* is cancelled or edited under a payment, headers and lines agree, and a  *)
(* limit check that no other commit has overtaken means what it says.      *)
(*                                                                         *)
(* The argument is about who holds which row.  A session that has checked  *)
(* an allocation keeps the nota's row to its COMMIT (Dijaga): what is left *)
(* of the nota can only grow meanwhile, because whoever lets a payment     *)
(* count against it holds that row too.  What a statement adds up over the *)
(* payments is a sum over all of them in which those that do not count     *)
(* contribute nothing (Guna).                                              *)
(***************************************************************************)
EXTENDS Piutang, Dasar_proof

\* What the payment e takes of the nota n.
Guna(B, e, n) == IF e \in Efektif(B) THEN JumlahKe(B[e], n) ELSE 0

\* What the nota n adds to the debt of p.
Utang(N, B, p, n) ==
  IF N[n].pelanggan = p /\ N[n].status = "POSTED" /\ N[n].jenis = "KREDIT"
  THEN N[n].total - AlokasiEfektif(B, n) ELSE 0

\* No nota twice.
Sekali(alokasi) == \A i, j \in DOMAIN alokasi : alokasi[i].nota = alokasi[j].nota => i = j

-----------------------------------------------------------------------------
(* What the operators compute.                                             *)
LEMMA TipeAlokasi ==
  ASSUME NEW b \in BarisBayar
  PROVE  /\ b.alokasi \in Seq(Alokasi) /\ IsFiniteSet(ToSet(b.alokasi))
         /\ ToSet(b.alokasi) \subseteq Alokasi
         /\ \A a \in ToSet(b.alokasi) : a.nota \in Nota /\ a.jumlah \in Nat
<1>1. b.alokasi \in Seq(Alokasi)
  BY DEF BarisBayar
<1>2. ToSet(b.alokasi) \subseteq Alokasi /\ IsFiniteSet(ToSet(b.alokasi))
  BY <1>1, ToSetTerhingga
<1>3. QED BY <1>1, <1>2 DEF Alokasi

\* What a payment has allocated to a nota: nothing, when it does not point at
\* it, and the amount of its line, when it has one.
LEMMA JumlahKeBenar ==
  ASSUME NEW b \in BarisBayar, NEW n
  PROVE  /\ JumlahKe(b, n) \in Nat
         /\ (\A a \in ToSet(b.alokasi) : a.nota # n) => JumlahKe(b, n) = 0
         /\ Sekali(b.alokasi) =>
              \A a \in ToSet(b.alokasi) : a.nota = n => JumlahKe(b, n) = a.jumlah
<1> DEFINE T == {x \in ToSet(b.alokasi) : x.nota = n}
<1> DEFINE S == {a.jumlah : a \in T}
<1>1. IsFiniteSet(T)
  BY TipeAlokasi, FS_Subset
<1>2. IsFiniteSet(S)
  <2> DEFINE f == [a \in T |-> a.jumlah]
  <2>1. IsFiniteSet({f[x] : x \in T})
    BY <1>1, Citra
  <2>2. {f[x] : x \in T} = S
    OBVIOUS
  <2>3. QED BY <2>1, <2>2
<1>3. S \subseteq Nat
  BY TipeAlokasi
<1>4. JumlahKe(b, n) = SumSet(S)
  BY DEF JumlahKe
<1>5. JumlahKe(b, n) \in Nat
  BY <1>2, <1>3, <1>4, SumSetAlami
<1>6. ASSUME \A a \in ToSet(b.alokasi) : a.nota # n PROVE JumlahKe(b, n) = 0
  <2>1. S = {}
    BY <1>6
  <2>2. QED BY <1>4, <2>1, SumSetKecil
<1>7. ASSUME Sekali(b.alokasi), NEW a \in ToSet(b.alokasi), a.nota = n
      PROVE  JumlahKe(b, n) = a.jumlah
  <2>1. \A x \in T : x = a
    BY <1>7 DEF Sekali, ToSet
  <2>2. S = {a.jumlah} /\ a.jumlah \in Int
    BY <1>7, <2>1, TipeAlokasi
  <2>3. QED BY <1>4, <2>2, SumSetKecil
<1>8. QED BY <1>5, <1>6, <1>7

LEMMA GunaAlami ==
  ASSUME NEW B \in [Bayar -> BarisBayar], NEW e \in Bayar, NEW n
  PROVE  Guna(B, e, n) \in Nat
BY JumlahKeBenar DEF Guna

\* A sum over some payments is a sum of Guna.
LEMMA FoldGuna ==
  ASSUME NEW B \in [Bayar -> BarisBayar], NEW n, NEW S \in SUBSET Efektif(B)
  PROVE  MapThenSumSet(LAMBDA e : JumlahKe(B[e], n), S) = Jml([e \in Bayar |-> Guna(B, e, n)], S)
<1> DEFINE f == [e \in Bayar |-> Guna(B, e, n)]
<1> DEFINE G == CHOOSE G : G = [s \in SUBSET S |-> IF s = {} THEN 0
                   ELSE JumlahKe(B[CHOOSE x \in s : TRUE], n) + G[s \ {CHOOSE x \in s : TRUE}]]
<1>0. IsFiniteSet(S) /\ S \subseteq Bayar
  BY AsumsiPiutang, FS_Subset DEF AsumsiPiutang, Efektif
<1>1. PICK F : Menjumlah(F, f, SUBSET S)
  BY <1>0, PenjumlahAda
<1>2. \A s \in SUBSET S : s # {} => f[Ambil(s)] = JumlahKe(B[CHOOSE x \in s : TRUE], n)
  <2>1. \A e \in S : f[e] = JumlahKe(B[e], n)
    BY <1>0 DEF Guna
  <2>2. QED BY <2>1, Ambilan DEF Ambil
<1>3. F = [s \in SUBSET S |-> IF s = {} THEN 0
             ELSE JumlahKe(B[CHOOSE x \in s : TRUE], n) + F[s \ {CHOOSE x \in s : TRUE}]]
  BY ZenonT(30), <1>1, <1>2 DEF Ambil, Menjumlah
<1>4. G = [s \in SUBSET S |-> IF s = {} THEN 0
             ELSE JumlahKe(B[CHOOSE x \in s : TRUE], n) + G[s \ {CHOOSE x \in s : TRUE}]]
  BY <1>3
<1>5. MapThenSumSet(LAMBDA e : JumlahKe(B[e], n), S) = G[S]
  BY DEF MapThenSumSet, MapThenFoldSet
<1> HIDE DEF G, f
<1>6. Menjumlah(G, f, SUBSET S)
  BY <1>4, <1>2 DEF Menjumlah, Ambil
<1>7. Jml(f, S) = G[S]
  BY <1>0, <1>6, JmlAdalah
<1>8. QED BY <1>5, <1>7 DEF f

\* What has been received for a nota, and what everybody but d has paid.
LEMMA EfektifBenar ==
  ASSUME NEW B \in [Bayar -> BarisBayar], NEW n
  PROVE  /\ AlokasiEfektif(B, n) = Jml([e \in Bayar |-> Guna(B, e, n)], Bayar)
         /\ AlokasiEfektif(B, n) \in Nat
         /\ \A d \in Bayar :
              /\ AlokasiKecuali(B, n, d) = Jml([e \in Bayar |-> Guna(B, e, n)], Bayar \ {d})
              /\ AlokasiKecuali(B, n, d) \in Nat
              /\ AlokasiEfektif(B, n) = Guna(B, d, n) + AlokasiKecuali(B, n, d)
<1> DEFINE f == [e \in Bayar |-> Guna(B, e, n)]
<1>1. /\ IsFiniteSet(Bayar) /\ \A e \in Bayar : f[e] \in Nat /\ f[e] \in Int
      /\ \A e \in Bayar : e \notin Efektif(B) => f[e] = 0
  BY AsumsiPiutang, GunaAlami DEF AsumsiPiutang, Guna
<1>2. /\ Efektif(B) \in SUBSET Bayar /\ Efektif(B) \in SUBSET Efektif(B)
      /\ \A d : Efektif(B) \ {d} \in SUBSET (Bayar \ {d}) /\ Efektif(B) \ {d} \in SUBSET Efektif(B)
  BY DEF Efektif
<1>3. AlokasiEfektif(B, n) = Jml(f, Efektif(B))
  BY <1>2, FoldGuna DEF AlokasiEfektif
<1>4. \A d : AlokasiKecuali(B, n, d) = Jml(f, Efektif(B) \ {d})
  BY <1>2, FoldGuna DEF AlokasiKecuali
<1>5. \A d : IsFiniteSet(Bayar \ {d})
  BY <1>1, FS_Subset
<1> HIDE DEF f
<1>6. Jml(f, Efektif(B)) = Jml(f, Bayar) /\ Jml(f, Bayar) \in Nat
  BY <1>1, <1>2, JmlSempit, JmlAlami
<1>7. ASSUME NEW d \in Bayar
      PROVE  /\ Jml(f, Efektif(B) \ {d}) = Jml(f, Bayar \ {d}) /\ Jml(f, Bayar \ {d}) \in Nat
             /\ Jml(f, Bayar) = f[d] + Jml(f, Bayar \ {d})
  <2>1. Jml(f, Efektif(B) \ {d}) = Jml(f, Bayar \ {d})
    BY <1>1, <1>2, <1>5, JmlSempit
  <2>2. Jml(f, Bayar \ {d}) \in Nat
    BY <1>1, <1>5, JmlAlami
  <2>3. Jml(f, Bayar) = f[d] + Jml(f, Bayar \ {d})
    BY <1>1, JmlAmbil
  <2>4. QED BY <2>1, <2>2, <2>3
<1>8. QED BY <1>3, <1>4, <1>6, <1>7 DEF f

\* When no payment takes more, no more is received.
LEMMA EfektifTurun ==
  ASSUME NEW B \in [Bayar -> BarisBayar], NEW C \in [Bayar -> BarisBayar], NEW n,
         NEW d \in Bayar, \A e \in Bayar \ {d} : Guna(C, e, n) <= Guna(B, e, n)
  PROVE  /\ AlokasiKecuali(C, n, d) <= AlokasiKecuali(B, n, d)
         /\ Guna(C, d, n) <= Guna(B, d, n) => AlokasiEfektif(C, n) <= AlokasiEfektif(B, n)
<1> DEFINE f == [e \in Bayar |-> Guna(C, e, n)]
<1> DEFINE g == [e \in Bayar |-> Guna(B, e, n)]
<1>1. IsFiniteSet(Bayar \ {d})
  BY AsumsiPiutang, FS_Subset DEF AsumsiPiutang
<1>2. \A e \in Bayar \ {d} : f[e] \in Int /\ g[e] \in Int /\ f[e] <= g[e]
  BY GunaAlami
<1>3. Jml(f, Bayar \ {d}) <= Jml(g, Bayar \ {d})
  BY <1>1, <1>2, JmlNaik
<1>4. AlokasiKecuali(C, n, d) = Jml(f, Bayar \ {d}) /\ AlokasiKecuali(B, n, d) = Jml(g, Bayar \ {d})
  BY EfektifBenar
<1>5. /\ Guna(C, d, n) \in Nat /\ Guna(B, d, n) \in Nat
      /\ AlokasiKecuali(C, n, d) \in Nat /\ AlokasiKecuali(B, n, d) \in Nat
      /\ AlokasiEfektif(C, n) = Guna(C, d, n) + AlokasiKecuali(C, n, d)
      /\ AlokasiEfektif(B, n) = Guna(B, d, n) + AlokasiKecuali(B, n, d)
  BY GunaAlami, EfektifBenar
<1>6. QED BY <1>3, <1>4, <1>5

LEMMA UtangBulat ==
  ASSUME NEW N \in [Nota -> BarisNota], NEW B \in [Bayar -> BarisBayar], NEW p, NEW n \in Nota
  PROVE  Utang(N, B, p, n) \in Int
<1>1. N[n].total \in Nat /\ AlokasiEfektif(B, n) \in Nat
  BY EfektifBenar DEF BarisNota
<1>2. QED BY <1>1 DEF Utang

\* What a customer owes is the sum of Utang.
LEMMA BerjalanBenar ==
  ASSUME NEW N \in [Nota -> BarisNota], NEW B \in [Bayar -> BarisBayar], NEW p
  PROVE  /\ PiutangBerjalan(N, B, p) = Jml([n \in Nota |-> Utang(N, B, p, n)], Nota)
         /\ PiutangBerjalan(N, B, p) \in Int
<1> DEFINE S == {n \in Nota : N[n].pelanggan = p /\ N[n].status = "POSTED" /\ N[n].jenis = "KREDIT"}
<1> DEFINE f == [n \in Nota |-> Utang(N, B, p, n)]
<1> DEFINE Nilai(n) == N[n].total - AlokasiEfektif(B, n)
<1> DEFINE G == CHOOSE G : G = [s \in SUBSET S |-> IF s = {} THEN 0
                   ELSE Nilai(CHOOSE x \in s : TRUE) + G[s \ {CHOOSE x \in s : TRUE}]]
<1>0. IsFiniteSet(S) /\ S \in SUBSET Nota /\ IsFiniteSet(Nota)
  BY AsumsiPiutang, FS_Subset DEF AsumsiPiutang
<1>1. PICK F : Menjumlah(F, f, SUBSET S)
  BY <1>0, PenjumlahAda
<1>2. \A s \in SUBSET S : s # {} => f[Ambil(s)] = Nilai(CHOOSE x \in s : TRUE)
  <2>1. \A n \in S : f[n] = Nilai(n)
    BY DEF Utang
  <2>2. QED BY <2>1, Ambilan DEF Ambil
<1>3. PiutangBerjalan(N, B, p) = G[S]
  BY DEF PiutangBerjalan, MapThenSumSet, MapThenFoldSet
<1>4. /\ \A n \in Nota : f[n] \in Int
      /\ \A n \in Nota \ S : f[n] = 0
  BY UtangBulat DEF Utang
<1> HIDE DEF f, S, Nilai
<1>5. F = [s \in SUBSET S |-> IF s = {} THEN 0
             ELSE Nilai(CHOOSE x \in s : TRUE) + F[s \ {CHOOSE x \in s : TRUE}]]
  BY <1>1, <1>2 DEF Ambil, Menjumlah
<1>6. G = [s \in SUBSET S |-> IF s = {} THEN 0
             ELSE Nilai(CHOOSE x \in s : TRUE) + G[s \ {CHOOSE x \in s : TRUE}]]
  BY <1>5
<1> HIDE DEF G
<1>7. Menjumlah(G, f, SUBSET S)
  BY <1>6, <1>2 DEF Menjumlah, Ambil
<1>8. Jml(f, S) = G[S]
  BY <1>0, <1>7, JmlAdalah
<1>9. Jml(f, S) = Jml(f, Nota) /\ Jml(f, Nota) \in Int
  BY <1>0, <1>4, JmlSempit, JmlBulat
<1>10. QED BY <1>3, <1>8, <1>9 DEF f

\* When no nota adds more, the customer owes no more.
LEMMA BerjalanTurun ==
  ASSUME NEW N \in [Nota -> BarisNota], NEW B \in [Bayar -> BarisBayar],
         NEW M \in [Nota -> BarisNota], NEW C \in [Bayar -> BarisBayar], NEW p,
         \A n \in Nota : Utang(M, C, p, n) <= Utang(N, B, p, n)
  PROVE  PiutangBerjalan(M, C, p) <= PiutangBerjalan(N, B, p)
<1> DEFINE f == [n \in Nota |-> Utang(M, C, p, n)]
<1> DEFINE g == [n \in Nota |-> Utang(N, B, p, n)]
<1>1. \A n \in Nota : f[n] \in Int /\ g[n] \in Int /\ f[n] <= g[n]
  BY UtangBulat
<1>2. IsFiniteSet(Nota)
  BY AsumsiPiutang DEF AsumsiPiutang
<1>3. Jml(f, Nota) <= Jml(g, Nota)
  BY <1>1, <1>2, JmlNaik
<1>4. QED BY <1>3, BerjalanBenar

\* Nobody has received anything on a nota no POSTED payment points at.
Menunjuk(B, e, n) == B[e].status = "POSTED" /\ \E a \in ToSet(B[e].alokasi) : a.nota = n

LEMMA TakDitunjuk ==
  ASSUME NEW B \in [Bayar -> BarisBayar], NEW n, \A e \in Bayar : ~Menunjuk(B, e, n)
  PROVE  AlokasiEfektif(B, n) = 0
<1> DEFINE f == [e \in Bayar |-> Guna(B, e, n)]
<1>1. \A e \in Bayar : f[e] = 0
  BY JumlahKeBenar DEF Guna, Efektif, Menunjuk
<1>2. Jml(f, Bayar) = 0
  BY <1>1, JmlNol, AsumsiPiutang DEF AsumsiPiutang
<1>3. QED BY <1>2, EfektifBenar

\* Nothing is received that was not, when nothing that counts has changed.
LEMMA EfektifTetap ==
  ASSUME NEW B \in [Bayar -> BarisBayar], NEW C \in [Bayar -> BarisBayar], NEW n,
         \A e \in Bayar : Guna(C, e, n) = Guna(B, e, n)
  PROVE  AlokasiEfektif(C, n) = AlokasiEfektif(B, n)
<1> DEFINE f == [e \in Bayar |-> Guna(C, e, n)]
<1> DEFINE g == [e \in Bayar |-> Guna(B, e, n)]
<1>1. f = g
  OBVIOUS
<1>2. AlokasiEfektif(C, n) = Jml(f, Bayar) /\ AlokasiEfektif(B, n) = Jml(g, Bayar)
  BY EfektifBenar
<1>3. QED BY <1>1, <1>2

\* The CHECK on the lines, and what the handler asks of them.
LEMMA SekaliBenar ==
  ASSUME NEW a \in Seq(Alokasi)
  PROVE  /\ (\A n \in Nota : Cardinality({i \in DOMAIN a : a[i].nota = n}) <= 1) => Sekali(a)
         /\ IsInjective([i \in DOMAIN a |-> a[i].nota]) =>
              /\ Sekali(a)
              /\ \A n \in Nota : Cardinality({i \in DOMAIN a : a[i].nota = n}) <= 1
<1> DEFINE P(n) == {i \in DOMAIN a : a[i].nota = n}
<1>0. /\ DOMAIN a = 1..Len(a) /\ Len(a) \in Nat /\ IsFiniteSet(DOMAIN a)
      /\ \A i \in DOMAIN a : a[i].nota \in Nota
  <2>1. DOMAIN a = 1..Len(a) /\ Len(a) \in Nat /\ \A i \in DOMAIN a : a[i] \in Alokasi
    OBVIOUS
  <2>2. QED BY <2>1, FS_Interval DEF Alokasi
<1>1. ASSUME \A n \in Nota : Cardinality(P(n)) <= 1 PROVE Sekali(a)
  <2> SUFFICES ASSUME NEW i \in DOMAIN a, NEW j \in DOMAIN a, a[i].nota = a[j].nota, i # j
               PROVE  FALSE
    BY DEF Sekali
  <2>1. PICK n \in Nota : n = a[i].nota
    BY <1>0
  <2>2. i \in P(n) /\ j \in P(n) /\ IsFiniteSet(P(n))
    BY <1>0, <2>1, FS_Subset
  <2> HIDE DEF P
  <2>3. IsFiniteSet(P(n) \ {i}) /\ Cardinality(P(n) \ {i}) = Cardinality(P(n)) - 1
    BY <2>2, FS_RemoveElement
  <2> DEFINE Q == P(n) \ {i}
  <2>4. j \in Q
    BY <2>2
  <2> HIDE DEF Q
  <2>5. IsFiniteSet(Q \ {j}) /\ Cardinality(Q \ {j}) = Cardinality(Q) - 1
    BY <2>3, <2>4, FS_RemoveElement DEF Q
  <2>6. Cardinality(Q \ {j}) \in Nat /\ Cardinality(P(n)) \in Nat
    BY <2>2, <2>5, FS_CardinalityType
  <2>7. Cardinality(P(n)) <= 1 /\ Cardinality(Q) = Cardinality(P(n)) - 1
    BY <1>1, <2>3 DEF Q
  <2>8. QED BY <2>5, <2>6, <2>7
<1>2. ASSUME IsInjective([i \in DOMAIN a |-> a[i].nota])
      PROVE  Sekali(a) /\ \A n \in Nota : Cardinality(P(n)) <= 1
  <2>1. Sekali(a)
    BY <1>2 DEF IsInjective, Sekali
  <2>2. ASSUME NEW n \in Nota PROVE Cardinality(P(n)) <= 1
    <3>0. \A i \in P(n) : P(n) = {i}
      BY <2>1 DEF Sekali
    <3> HIDE DEF P
    <3>1. CASE P(n) = {}
      BY <3>1, FS_EmptySet
    <3>2. CASE P(n) # {}
      <4>1. PICK i : i \in P(n)
        BY <3>2
      <4>2. P(n) = {i}
        BY <3>0, <4>1
      <4>3. Cardinality({i}) = 1
        BY FS_Singleton
      <4>4. QED BY <4>2, <4>3
    <3>3. QED BY <3>1, <3>2
  <2>3. QED BY <2>1, <2>2
<1>3. QED BY <1>1, <1>2

\* What was allocated adds up to a number.
LEMMA JumlahAlokasiAlami ==
  ASSUME NEW a \in Seq(Alokasi)
  PROVE  JumlahAlokasi(a) \in Nat
<1> DEFINE S == DOMAIN a
<1> DEFINE f == [i \in S |-> a[i].jumlah]
<1> DEFINE G == CHOOSE G : G = [s \in SUBSET S |-> IF s = {} THEN 0
                   ELSE a[CHOOSE x \in s : TRUE].jumlah + G[s \ {CHOOSE x \in s : TRUE}]]
<1>0. /\ IsFiniteSet(S) /\ \A i \in S : f[i] \in Nat
  <2>1. S = 1..Len(a) /\ Len(a) \in Nat /\ \A i \in S : a[i] \in Alokasi
    OBVIOUS
  <2>2. QED BY <2>1, FS_Interval DEF Alokasi
<1>1. PICK F : Menjumlah(F, f, SUBSET S)
  BY <1>0, PenjumlahAda
<1>2. \A s \in SUBSET S : s # {} => f[Ambil(s)] = a[CHOOSE x \in s : TRUE].jumlah
  BY DEF Ambil
<1>3. F = [s \in SUBSET S |-> IF s = {} THEN 0
             ELSE a[CHOOSE x \in s : TRUE].jumlah + F[s \ {CHOOSE x \in s : TRUE}]]
  BY <1>1, <1>2 DEF Ambil, Menjumlah
<1>4. G = [s \in SUBSET S |-> IF s = {} THEN 0
             ELSE a[CHOOSE x \in s : TRUE].jumlah + G[s \ {CHOOSE x \in s : TRUE}]]
  BY <1>3
<1>5. JumlahAlokasi(a) = G[S]
  BY DEF JumlahAlokasi, FoldSeq, FoldFunction, FoldFunctionOnSet, MapThenFoldSet
<1> HIDE DEF G, f
<1>6. Menjumlah(G, f, SUBSET S)
  BY ZenonT(30), <1>4, <1>2 DEF Menjumlah, Ambil
<1>7. Jml(f, S) = G[S]
  BY <1>0, <1>6, JmlAdalah
<1>8. QED BY <1>0, <1>5, <1>7, JmlAlami

\* An Update keeps the shape of the row.
Diperbarui(p, b, total) == [Terapkan(p, b) EXCEPT !.subtotal = b.subtotal, !.total = total]

LEMMA PatchBenar ==
  ASSUME NEW p \in PatchNota, NEW b \in BarisNota
  PROVE  /\ Terapkan(p, b).diskon \in Nat
         /\ \A u \in Nat :
              /\ Diperbarui(p, b, u) \in BarisNota
              /\ Diperbarui(p, b, u).subtotal = b.subtotal /\ Diperbarui(p, b, u).total = u
              /\ Diperbarui(p, b, u).diskon = Terapkan(p, b).diskon
              /\ Diperbarui(p, b, u).status = b.status
<1> DEFINE e == Terapkan(p, b)
<1>1. /\ DOMAIN p \subseteq {"jenis", "pelanggan", "diskon"}
      /\ "jenis" \in DOMAIN p => p.jenis \in JenisNota
      /\ "pelanggan" \in DOMAIN p => p.pelanggan \in Pelanggan \cup {Umum}
      /\ "diskon" \in DOMAIN p => p.diskon \in Nat
  BY AsumsiPiutang DEF AsumsiPiutang
<1>2. DOMAIN b = {"status", "jenis", "pelanggan", "subtotal", "diskon", "total", "lunas"}
  BY DEF BarisNota
<1>3. e = [status |-> b.status, jenis |-> e.jenis, pelanggan |-> e.pelanggan,
           subtotal |-> b.subtotal, diskon |-> e.diskon, total |-> b.total, lunas |-> b.lunas]
  BY <1>1, <1>2 DEF Terapkan
<1>4. e.jenis \in JenisNota /\ e.pelanggan \in Pelanggan \cup {Umum} /\ e.diskon \in Nat
  BY <1>1, <1>2 DEF Terapkan, BarisNota
<1>5. e \in BarisNota
  BY <1>3, <1>4 DEF BarisNota
<1>6. e.status = b.status
  BY <1>3
<1> HIDE DEF e
<1>7. QED BY <1>4, <1>5, <1>6 DEF e, Diperbarui, BarisNota

-----------------------------------------------------------------------------
(* What a session knows, by where it is.                                   *)
\* t has checked the allocation a of its payment and still holds the nota.
Dijaga(t, a) ==
  /\ MemegangX(t, KNota(a.nota))
  /\ nota[a.nota].status = "POSTED" /\ nota[a.nota].jenis = "KREDIT"
  /\ nota[a.nota].pelanggan = bayar[tugas[t].bayar].pelanggan
  /\ a.jumlah <= nota[a.nota].total - AlokasiKecuali(bayar, a.nota, tugas[t].bayar)

\* Its payment is about to count.
Menerima(t) == tugas[t].aksi \in {"posting", "cair"}

TahuNota(t) ==
  LET g == tugas[t] IN
  /\ TentangNota(g) /\ MemegangX(t, KNota(g.nota)) /\ salinan[t] = nota[g.nota]
  /\ g.aksi # "batal" => nota[g.nota].status = "DRAFT"
  /\ g.aksi = "batal" => /\ nota[g.nota].status = "POSTED"
                         /\ \A e \in Bayar : ~Menunjuk(bayar, e, g.nota)

TahuBayar(t) ==
  LET g == tugas[t] IN
  /\ ~TentangNota(g) /\ MemegangX(t, KBayar(g.bayar))
  /\ g.aksi = "buat" => bayar[g.bayar].status = "TIADA" /\ salinan[t] = BarisBaru(g.isi)
  /\ g.aksi # "buat" => salinan[t] = bayar[g.bayar] /\ BolehBayar(g, bayar[g.bayar])

TahuAlokasi(t) ==
  LET semua == ToSet(bayar[tugas[t].bayar].alokasi) IN
  /\ pc[t] \in {"kunci", "sisa"} /\ Menerima(t) =>
       daftar[t] \in Seq(Alokasi) /\ \A a \in semua : a \in ToSet(daftar[t]) \/ Dijaga(t, a)
  /\ pc[t] \in {"ulang", "tulis"} =>
       /\ tugas[t].aksi \in {"posting", "batal", "cair", "tolak"}
       /\ Menerima(t) => \A a \in semua : Dijaga(t, a)

InvSesi(t) ==
  LET g == tugas[t] IN
  /\ pc[t] # "idle" => g \in Tugas
  /\ pc[t] \in {"idle", "ulang"} => Jalan(t)
  /\ pc[t] = "baca" => /\ TentangNota(g) => Dipenuhi(t, Kunci(KNota(g.nota)))
                       /\ ~TentangNota(g) => g.aksi # "buat" /\ Dipenuhi(t, Kunci(KBayar(g.bayar)))
  /\ pc[t] \in {"plafon", "simpan"} => TahuNota(t)
  /\ pc[t] = "plafon" => g.aksi = "posting"
  /\ pc[t] \in {"kunci", "sisa", "ulang", "tulis"} => TahuBayar(t) /\ TahuAlokasi(t)
  /\ pc[t] = "sisa" => daftar[t] # <<>> /\ Dipenuhi(t, Kunci(KNota(Head(daftar[t]).nota)))
  /\ pc[t] = "tulis" => foto[t] \in StatusLunas /\ Dipenuhi(t, Kunci(KNota(Head(daftar[t]))))
  /\ \A w \in tulis[t] : MemegangX(t, KNota(w[1])) /\ w[2] \in StatusLunas

\* The limit check of t still holds.
CukupUntuk(t) ==
  LET p == salinan[t].pelanggan IN
  salinan[t].jenis = "KREDIT" /\ p \in DOMAIN Plafon =>
    PiutangBerjalan(nota, bayar, p) + salinan[t].total <= Plafon[p]

MulusBenar ==
  \A t \in mulus : t \in Sesi /\ pc[t] = "simpan" /\ tugas[t].aksi = "posting" /\ CukupUntuk(t)

\* Every lock is exclusive, and nobody queues for a payment there is not yet.
Antre ==
  /\ \A u \in Sesi : \A q \in pegang[u] \cup tunggu[u] : q = Kunci(q.kunci)
  /\ \A u \in Sesi, d \in Bayar : \A q \in tunggu[u] : q.kunci = KBayar(d) => bayar[d].status # "TIADA"

TipeData == nota \in [Nota -> BarisNota] /\ bayar \in [Bayar -> BarisBayar]

Bentuk ==
  /\ DOMAIN pc = Sesi /\ DOMAIN tugas = Sesi /\ DOMAIN salinan = Sesi
  /\ DOMAIN daftar = Sesi /\ DOMAIN foto = Sesi /\ DOMAIN tulis = Sesi

IInv == TipeData /\ Bentuk /\ KunciSah /\ Antre /\ PiutangTerjaga /\ MulusBenar /\ \A t \in Sesi : InvSesi(t)

-----------------------------------------------------------------------------
(* What the others leave alone.                                            *)
Utuh(u) ==
  /\ \A n \in Nota : MemegangX(u, KNota(n)) =>
       /\ nota[n].status # "TIADA" => nota'[n] = nota[n]
       /\ \A e \in Bayar : /\ Guna(bayar', e, n) <= Guna(bayar, e, n)
                           /\ Menunjuk(bayar', e, n) => Menunjuk(bayar, e, n)
  /\ \A d \in Bayar : MemegangX(u, KBayar(d)) => bayar'[d] = bayar[d]

\* u is where it was.
SesiDiam(u) ==
  /\ pc'[u] = pc[u] /\ tugas'[u] = tugas[u] /\ salinan'[u] = salinan[u]
  /\ daftar'[u] = daftar[u] /\ foto'[u] = foto[u] /\ tulis'[u] = tulis[u]

\* What a request about a document says.
LEMMA TipeTugas ==
  ASSUME NEW g \in Tugas
  PROVE  /\ TentangNota(g) => g.nota \in Nota /\ g.aksi \in {"posting", "batal", "ubah", "detail"}
         /\ TentangNota(g) /\ g.aksi = "ubah" => g.patch \in PatchNota
         /\ g.aksi = "detail" => TentangNota(g) /\ g.subtotal \in Subtotal
         /\ ~TentangNota(g) => /\ g.bayar \in Bayar
                               /\ g.aksi \in {"posting", "batal", "cair", "tolak", "buat", "ubah", "alokasi"}
         /\ ~TentangNota(g) /\ g.aksi = "ubah" => g.jumlah \in Nat \ {0}
         /\ g.aksi = "buat" => ~TentangNota(g) /\ g.isi \in IsianBayar
         /\ g.aksi \in {"buat", "alokasi"} => g.alokasi \in Seq(Alokasi)
<1>1. IsianBayar \subseteq [metode : Metode, pelanggan : Pelanggan, jumlah : Nat \ {0}]
      /\ PilihanAlokasi \subseteq Seq(Alokasi)
  BY AsumsiPiutang DEF AsumsiPiutang
<1>2. CASE g \in [aksi : {"posting", "batal", "cair", "tolak"}, bayar : Bayar]
  BY <1>2 DEF TentangNota
<1>3. CASE g \in [aksi : {"buat"}, bayar : Bayar, isi : IsianBayar, alokasi : PilihanAlokasi]
  BY <1>1, <1>3 DEF TentangNota
<1>4. CASE g \in [aksi : {"ubah"}, bayar : Bayar, jumlah : {isi.jumlah : isi \in IsianBayar}]
  BY <1>1, <1>4 DEF TentangNota
<1>5. CASE g \in [aksi : {"alokasi"}, bayar : Bayar, alokasi : PilihanAlokasi]
  BY <1>1, <1>5 DEF TentangNota
<1>6. CASE g \in [aksi : {"posting", "batal"}, nota : Nota]
  BY <1>6 DEF TentangNota
<1>7. CASE g \in [aksi : {"ubah"}, nota : Nota, patch : PatchNota]
  BY <1>7 DEF TentangNota
<1>8. CASE g \in [aksi : {"detail"}, nota : Nota, subtotal : Subtotal]
  BY <1>8 DEF TentangNota
<1>9. QED BY <1>2, <1>3, <1>4, <1>5, <1>6, <1>7, <1>8 DEF Tugas

\* What t has checked stays good.
LEMMA DijagaTetap ==
  ASSUME TipeData, TipeData', NEW u \in Sesi, Utuh(u), Lain(u), tugas'[u] = tugas[u],
         tugas[u].bayar \in Bayar, MemegangX(u, KBayar(tugas[u].bayar)),
         NEW a, a.nota \in Nota, a.jumlah \in Nat, Dijaga(u, a)
  PROVE  Dijaga(u, a)'
<1> DEFINE d == tugas[u].bayar
<1>1. MemegangX(u, KNota(a.nota)) /\ MemegangX(u, KNota(a.nota))'
  BY LainTetap DEF Dijaga
<1>2. nota'[a.nota] = nota[a.nota] /\ bayar'[d] = bayar[d]
  BY <1>1 DEF Dijaga, Utuh
<1>3. \A e \in Bayar \ {d} : Guna(bayar', e, a.nota) <= Guna(bayar, e, a.nota)
  BY <1>1 DEF Utuh
<1>4. AlokasiKecuali(bayar', a.nota, d) <= AlokasiKecuali(bayar, a.nota, d)
  BY <1>3, EfektifTurun DEF TipeData
<1>5. /\ AlokasiKecuali(bayar', a.nota, d) \in Nat /\ AlokasiKecuali(bayar, a.nota, d) \in Nat
      /\ nota[a.nota].total \in Nat
  BY EfektifBenar DEF TipeData, BarisNota
<1>6. a.jumlah <= nota[a.nota].total - AlokasiKecuali(bayar', a.nota, d)
  BY <1>4, <1>5 DEF Dijaga
<1>7. QED BY <1>1, <1>2, <1>6 DEF Dijaga

\* So what u knows stays true.
LEMMA SesiLain ==
  ASSUME TipeData, TipeData', NEW u \in Sesi, InvSesi(u), Lain(u), Utuh(u), SesiDiam(u)
  PROVE  InvSesi(u)'
<1> DEFINE g == tugas[u]
<1>1. /\ Jalan(u) => Jalan(u)'
      /\ \A k : MemegangX(u, k) => MemegangX(u, k)'
      /\ \A p : Dipenuhi(u, p) => Dipenuhi(u, p)'
  BY LainTetap
<1>2. TentangNota(g) => g.nota \in Nota \/ pc[u] = "idle"
  BY TipeTugas DEF InvSesi
<1>3. ~TentangNota(g) => g.bayar \in Bayar \/ pc[u] = "idle"
  BY TipeTugas DEF InvSesi
<1>4. ASSUME pc[u] \in {"plafon", "simpan"} PROVE TahuNota(u)'
  <2>1. TahuNota(u) /\ g.nota \in Nota
    BY <1>2, <1>4 DEF InvSesi, TahuNota
  <2>2. nota'[g.nota] = nota[g.nota]
        /\ \A e \in Bayar : Menunjuk(bayar', e, g.nota) => Menunjuk(bayar, e, g.nota)
    BY <2>1 DEF TahuNota, Utuh
  <2>3. QED BY <1>1, <2>1, <2>2 DEF TahuNota, SesiDiam
<1>5. ASSUME pc[u] \in {"kunci", "sisa", "ulang", "tulis"} PROVE TahuBayar(u)' /\ TahuAlokasi(u)'
  <2>1. TahuBayar(u) /\ TahuAlokasi(u) /\ g.bayar \in Bayar
    BY <1>3, <1>5 DEF InvSesi, TahuBayar
  <2>2. MemegangX(u, KBayar(g.bayar)) /\ bayar'[g.bayar] = bayar[g.bayar] /\ tugas'[u] = g
    BY <2>1 DEF TahuBayar, Utuh, SesiDiam
  <2>3. TahuBayar(u)'
    BY <1>1, <2>1, <2>2 DEF TahuBayar, SesiDiam
  <2>4. \A a \in ToSet(bayar[g.bayar].alokasi) : Dijaga(u, a) => Dijaga(u, a)'
    <3>1. \A a \in ToSet(bayar[g.bayar].alokasi) : a.nota \in Nota /\ a.jumlah \in Nat
      BY <2>1, TipeAlokasi DEF TipeData
    <3>2. QED BY <2>1, <2>2, <3>1, DijagaTetap
  <2>5. TahuAlokasi(u)'
    BY <2>1, <2>2, <2>4 DEF TahuAlokasi, Menerima, SesiDiam
  <2>6. QED BY <2>3, <2>5
<1>6. QED BY <1>1, <1>4, <1>5 DEF InvSesi, SesiDiam

-----------------------------------------------------------------------------
(* What a step may do to the rows.                                         *)
\* No customer owes more.
Turun ==
  \A p \in Pelanggan : PiutangBerjalan(nota', bayar', p) <= PiutangBerjalan(nota, bayar, p)

SemuaTahu == \A t \in Sesi : InvSesi(t)

LEMMA DataDiam ==
  ASSUME IInv, UNCHANGED notaVars
  PROVE  TipeData' /\ PiutangTerjaga' /\ Turun /\ \A u \in Sesi : Utuh(u)
<1>1. nota' = nota /\ bayar' = bayar
  BY DEF notaVars
<1>2. TipeData' /\ PiutangTerjaga'
  BY <1>1 DEF IInv, TipeData, PiutangTerjaga
<1>3. Turun
  <2>1. ASSUME NEW p \in Pelanggan
        PROVE  PiutangBerjalan(nota', bayar', p) <= PiutangBerjalan(nota, bayar, p)
    <3>1. PiutangBerjalan(nota, bayar, p) \in Int
      BY BerjalanBenar DEF IInv, TipeData
    <3>2. PiutangBerjalan(nota', bayar', p) = PiutangBerjalan(nota, bayar, p)
      BY <1>1
    <3>3. QED BY <3>1, <3>2
  <2>2. QED BY <2>1 DEF Turun
<1>4. \A u \in Sesi : Utuh(u)
  BY <1>1, GunaAlami DEF Utuh, IInv, TipeData
<1>5. QED BY <1>2, <1>3, <1>4

\* Nobody points at a nota that is not POSTED.
LEMMA DrafBebas ==
  ASSUME IInv, NEW n \in Nota, nota[n].status # "POSTED"
  PROVE  \A e \in Bayar : ~Menunjuk(bayar, e, n)
BY DEF IInv, PiutangTerjaga, PiutangSah, NotaTerjaga, Menunjuk

\* The row of a nota no POSTED payment points at is rewritten.
LEMMA NotaBerganti ==
  ASSUME IInv, NEW n \in Nota, NEW r \in BarisNota, nota' = [nota EXCEPT ![n] = r],
         UNCHANGED bayar, r.total = r.subtotal - r.diskon,
         \A e \in Bayar : ~Menunjuk(bayar, e, n)
  PROVE  /\ TipeData' /\ PiutangTerjaga'
         /\ \A u \in Sesi : (MemegangX(u, KNota(n)) => nota[n].status = "TIADA") => Utuh(u)
         /\ r.status # "POSTED" => Turun
<1>1. /\ TipeData /\ TipeData' /\ nota'[n] = r /\ bayar' = bayar
      /\ \A m \in Nota : m # n => nota'[m] = nota[m]
  BY DEF IInv, TipeData
<1>2. AlokasiEfektif(bayar, n) = 0 /\ r.total \in Nat /\ nota[n].total \in Nat
  BY <1>1, TakDitunjuk DEF TipeData, BarisNota
<1>3. TidakLebihTerima(nota', bayar')
  BY <1>1, <1>2 DEF IInv, PiutangTerjaga, PiutangSah, TidakLebihTerima
<1>4. NotaTerjaga(nota', bayar')
  <2> SUFFICES ASSUME NEW d \in Bayar, bayar[d].status = "POSTED", NEW a \in ToSet(bayar[d].alokasi)
               PROVE  /\ nota'[a.nota].status = "POSTED" /\ nota'[a.nota].jenis = "KREDIT"
                      /\ nota'[a.nota].pelanggan = bayar[d].pelanggan
    BY <1>1 DEF NotaTerjaga
  <2>1. a.nota \in Nota /\ a.nota # n
    BY <1>1, TipeAlokasi DEF TipeData, Menunjuk
  <2>2. QED BY <1>1, <2>1 DEF IInv, PiutangTerjaga, PiutangSah, NotaTerjaga
<1>5. KepalaSetuju(nota', bayar')
  BY <1>1 DEF IInv, PiutangTerjaga, PiutangSah, KepalaSetuju
<1>6. ASSUME NEW u \in Sesi, MemegangX(u, KNota(n)) => nota[n].status = "TIADA"
      PROVE  Utuh(u)
  BY <1>1, <1>6, GunaAlami DEF Utuh, TipeData
<1>7. ASSUME r.status # "POSTED" PROVE Turun
  <2>1. ASSUME NEW p \in Pelanggan, NEW m \in Nota
        PROVE  Utang(nota', bayar', p, m) <= Utang(nota, bayar, p, m)
    <3>1. CASE m = n
      BY <1>1, <1>2, <1>7, <3>1 DEF Utang
    <3>2. CASE m # n
      <4>1. Utang(nota', bayar', p, m) = Utang(nota, bayar, p, m)
        BY <1>1, <3>2 DEF Utang
      <4>2. Utang(nota, bayar, p, m) \in Int
        BY <1>1, UtangBulat DEF TipeData
      <4>3. QED BY <4>1, <4>2
    <3>3. QED BY <3>1, <3>2
  <2>2. QED BY <1>1, <2>1, BerjalanTurun DEF Turun, TipeData
<1>8. PiutangTerjaga'
  BY <1>3, <1>4, <1>5 DEF PiutangTerjaga, PiutangSah
<1>9. QED BY <1>1, <1>6, <1>7, <1>8

\* The row of a payment that is, and stays, a draft is rewritten.
LEMMA BayarDraf ==
  ASSUME IInv, NEW d \in Bayar, NEW r \in BarisBayar, bayar' = [bayar EXCEPT ![d] = r],
         UNCHANGED nota, bayar[d].status \in {"TIADA", "DRAFT"}, r.status = "DRAFT",
         r.dialokasikan = JumlahAlokasi(r.alokasi), r.dialokasikan <= r.jumlah,
         \A n \in Nota : Cardinality({i \in DOMAIN r.alokasi : r.alokasi[i].nota = n}) <= 1
  PROVE  /\ TipeData' /\ PiutangTerjaga' /\ Turun
         /\ \A u \in Sesi : ~MemegangX(u, KBayar(d)) => Utuh(u)
         /\ \A e \in Bayar : bayar[e].status # "TIADA" => bayar'[e].status # "TIADA"
<1>1. /\ TipeData /\ TipeData' /\ bayar'[d] = r /\ nota' = nota
      /\ \A e \in Bayar : e # d => bayar'[e] = bayar[e]
  BY DEF IInv, TipeData
<1>2. \A n : \A e \in Bayar : Guna(bayar', e, n) = Guna(bayar, e, n)
  BY <1>1 DEF Guna, Efektif
<1>3. ASSUME NEW n PROVE AlokasiEfektif(bayar', n) = AlokasiEfektif(bayar, n)
  <2>1. \A e \in Bayar : Guna(bayar', e, n) = Guna(bayar, e, n)
    BY <1>2
  <2>2. QED BY <1>1, <2>1, EfektifTetap DEF TipeData
<1>4. TidakLebihTerima(nota', bayar')
  BY <1>1, <1>3 DEF IInv, PiutangTerjaga, PiutangSah, TidakLebihTerima
<1>5. NotaTerjaga(nota', bayar')
  BY <1>1 DEF IInv, PiutangTerjaga, PiutangSah, NotaTerjaga
<1>6. KepalaSetuju(nota', bayar')
  BY <1>1 DEF IInv, PiutangTerjaga, PiutangSah, KepalaSetuju
<1>7. PiutangTerjaga'
  BY <1>4, <1>5, <1>6 DEF PiutangTerjaga, PiutangSah
<1>8. Turun
  <2>1. \A p, n : Utang(nota', bayar', p, n) = Utang(nota, bayar, p, n)
    BY <1>1, <1>3 DEF Utang
  <2>2. ASSUME NEW p \in Pelanggan, NEW n \in Nota
        PROVE  Utang(nota', bayar', p, n) <= Utang(nota, bayar, p, n)
    <3>1. Utang(nota, bayar, p, n) \in Int
      BY <1>1, UtangBulat DEF TipeData
    <3>2. Utang(nota', bayar', p, n) = Utang(nota, bayar, p, n)
      BY <2>1
    <3>3. QED BY <3>1, <3>2
  <2>3. QED BY <1>1, <2>2, BerjalanTurun DEF Turun, TipeData
<1>9. ASSUME NEW u \in Sesi, ~MemegangX(u, KBayar(d)) PROVE Utuh(u)
  <2>1. ASSUME NEW e \in Bayar, NEW n \in Nota PROVE Guna(bayar', e, n) <= Guna(bayar, e, n)
    <3>1. Guna(bayar, e, n) \in Nat
      BY <1>1, GunaAlami DEF TipeData
    <3>2. Guna(bayar', e, n) = Guna(bayar, e, n)
      BY <1>2
    <3>3. QED BY <3>1, <3>2
  <2>2. \A e \in Bayar, n \in Nota : Menunjuk(bayar', e, n) => Menunjuk(bayar, e, n)
    BY <1>1 DEF Menunjuk
  <2>3. QED BY <1>1, <1>9, <2>1, <2>2 DEF Utuh
<1>10. QED BY <1>1, <1>7, <1>8, <1>9

-----------------------------------------------------------------------------
(* The steps.                                                              *)
Hasil == TipeData' /\ KunciSah' /\ Antre' /\ PiutangTerjaga' /\ MulusBenar' /\ SemuaTahu'

\* A limit check still holds as long as nobody owes more.
LEMMA CukupTetap ==
  ASSUME IInv, TipeData', Turun, NEW u \in Sesi, pc[u] = "simpan", CukupUntuk(u),
         salinan'[u] = salinan[u]
  PROVE  CukupUntuk(u)'
<1> DEFINE p == salinan[u].pelanggan
<1>1. SUFFICES ASSUME salinan[u].jenis = "KREDIT", p \in DOMAIN Plafon
               PROVE  PiutangBerjalan(nota', bayar', p) + salinan[u].total <= Plafon[p]
  BY DEF CukupUntuk
<1>2. salinan[u].total \in Nat
  <2>1. TahuNota(u) /\ tugas[u] \in Tugas
    BY DEF IInv, InvSesi
  <2>2. QED BY <2>1, TipeTugas DEF TahuNota, IInv, TipeData, BarisNota
<1>3. p \in Pelanggan /\ Plafon[p] \in Nat
  BY <1>1, AsumsiPiutang DEF AsumsiPiutang
<1>4. PiutangBerjalan(nota, bayar, p) + salinan[u].total <= Plafon[p]
  BY <1>1 DEF CukupUntuk
<1>5. PiutangBerjalan(nota, bayar, p) \in Int /\ PiutangBerjalan(nota', bayar', p) \in Int
  BY BerjalanBenar DEF IInv, TipeData
<1>6. PiutangBerjalan(nota', bayar', p) <= PiutangBerjalan(nota, bayar, p)
  BY <1>3 DEF Turun
<1> HIDE DEF p
<1>7. QED BY <1>2, <1>3, <1>4, <1>5, <1>6

\* The limit checks of the others hold as long as nobody owes more.
LEMMA MulusTetap ==
  ASSUME IInv, TipeData', NEW t \in Sesi, mulus' \subseteq mulus \ {t},
         \A u \in Sesi : u # t => SesiDiam(u), Turun
  PROVE  MulusBenar'
<1> SUFFICES ASSUME NEW u \in mulus'
             PROVE  u \in Sesi /\ pc'[u] = "simpan" /\ tugas'[u].aksi = "posting" /\ CukupUntuk(u)'
  BY DEF MulusBenar
<1>1. u \in Sesi /\ u # t /\ pc[u] = "simpan" /\ tugas[u].aksi = "posting" /\ CukupUntuk(u) /\ SesiDiam(u)
  BY DEF IInv, MulusBenar
<1>2. CukupUntuk(u)'
  BY <1>1, CukupTetap DEF SesiDiam
<1>3. QED BY <1>1, <1>2 DEF SesiDiam

\* A session that ends knows nothing and disturbs nobody, provided what it
\* wrote is not held by another.
LEMMA UsaiPiutang ==
  ASSUME IInv, TipeData', PiutangTerjaga', NEW t \in Sesi, NEW tambah \in BOOLEAN, Bersih(t, tambah),
         \A u \in Sesi : u # t => Utuh(u), tambah \/ Turun,
         \A d \in Bayar : bayar[d].status # "TIADA" => bayar'[d].status # "TIADA"
  PROVE  Hasil
<1>1. /\ KunciSah' /\ Jalan(t)'
      /\ \A u \in Sesi : u # t => Lain(u)
  BY LepasSah DEF Bersih, IInv
<1>2. /\ pc'[t] = "idle" /\ tulis'[t] = {}
      /\ \A u \in Sesi : u # t => SesiDiam(u)
  BY DEF Bersih, IInv, Bentuk, SesiDiam
<1>3. InvSesi(t)'
  BY <1>1, <1>2 DEF InvSesi
<1>4. \A u \in Sesi : u # t => InvSesi(u)'
  BY <1>1, <1>2, SesiLain DEF IInv
<1>5. Antre'
  <2>1. \A u \in Sesi : pegang'[u] \subseteq pegang[u] \cup tunggu[u] /\ tunggu'[u] \subseteq tunggu[u]
    BY LepasHanya DEF Bersih, IInv
  <2>2. QED BY <2>1 DEF IInv, Antre
<1>6. MulusBenar'
  <2>1. CASE tambah
    BY <2>1 DEF Bersih, MulusBenar
  <2>2. CASE ~tambah
    <3>1. mulus' \subseteq mulus \ {t} /\ Turun
      BY <2>2 DEF Bersih
    <3>2. QED BY <1>2, <3>1, MulusTetap
  <2>3. QED BY <2>1, <2>2
<1>7. QED BY <1>1, <1>3, <1>4, <1>5, <1>6 DEF Hasil, SemuaTahu

LEMMA UsaiGagal ==
  ASSUME IInv, NEW t \in Sesi, Gagal(t)
  PROVE  Hasil
<1>1. TipeData' /\ PiutangTerjaga' /\ Turun /\ \A u \in Sesi : Utuh(u)
  BY DataDiam DEF Gagal
<1>2. \A d \in Bayar : bayar[d].status # "TIADA" => bayar'[d].status # "TIADA"
  BY DEF Gagal, notaVars
<1>3. Bersih(t, FALSE)
  BY DEF Gagal
<1>4. QED BY <1>1, <1>2, <1>3, UsaiPiutang

\* A step of t that writes no row, and asks for a lock at most.
LEMMA LangkahSaja ==
  ASSUME IInv, NEW t \in Sesi, UNCHANGED <<notaVars, mulus>>, pc[t] # "simpan",
         KunciSah', Antre', \A u \in Sesi : u # t => Lain(u) /\ SesiDiam(u), InvSesi(t)'
  PROVE  Hasil
<1>1. TipeData' /\ PiutangTerjaga' /\ Turun /\ \A u \in Sesi : Utuh(u)
  BY DataDiam
<1>2. \A u \in Sesi : u # t => InvSesi(u)'
  BY <1>1, SesiLain DEF IInv
<1>3. mulus' \subseteq mulus \ {t}
  BY DEF IInv, MulusBenar
<1>4. MulusBenar'
  BY <1>1, <1>3, MulusTetap
<1>5. QED BY <1>1, <1>2, <1>4 DEF Hasil, SemuaTahu

LEMMA LangkahMulai ==
  ASSUME IInv, NEW t \in Sesi, Mulai(t)
  PROVE  Hasil
<1>1. PICK g \in Tugas :
        /\ g.aksi # "buat"
        /\ \/ TentangNota(g) /\ nota[g.nota].status # "TIADA" /\ KunciBaris(t, KNota(g.nota))
           \/ ~TentangNota(g) /\ bayar[g.bayar].status # "TIADA" /\ KunciBaris(t, KBayar(g.bayar))
        /\ tugas' = [tugas EXCEPT ![t] = g]
  BY DEF Mulai
<1>2. /\ UNCHANGED <<notaVars, mulus>> /\ bayar' = bayar /\ pc[t] = "idle" /\ Jalan(t) /\ pc'[t] = "baca"
      /\ tugas'[t] = g /\ tulis'[t] = tulis[t]
      /\ \A u \in Sesi : u # t => SesiDiam(u)
  BY <1>1 DEF Mulai, notaVars, IInv, Bentuk, InvSesi, SesiDiam
<1>3. PICK k : /\ \/ TentangNota(g) /\ k = KNota(g.nota)
                  \/ ~TentangNota(g) /\ bayar[g.bayar].status # "TIADA" /\ k = KBayar(g.bayar)
               /\ Minta(t, Kunci(k))
  BY <1>1 DEF KunciBaris
<1>4. PICK p : p = Kunci(k)
  OBVIOUS
<1>5. /\ KunciSah' /\ \A u \in Sesi : u # t => Lain(u)
      /\ pegang[t] \subseteq pegang'[t] /\ Dipenuhi(t, p)'
  BY <1>2, <1>3, <1>4, MintaSah DEF IInv
<1>6. /\ \A u \in Sesi : u # t => pegang'[u] = pegang[u] /\ tunggu'[u] = tunggu[u]
      /\ pegang'[t] \subseteq pegang[t] \cup {p} /\ tunggu'[t] \subseteq {p}
  BY <1>2, <1>3, <1>4, MintaHanya DEF IInv
<1>7. Antre'
  <2>1. p = Kunci(p.kunci) /\ p.kunci = k
    BY <1>4 DEF Kunci
  <2>2. \A d \in Bayar : k = KBayar(d) => bayar[d].status # "TIADA"
    BY <1>3 DEF KBayar, KNota
  <2>3. QED BY <1>2, <1>6, <2>1, <2>2 DEF IInv, Antre
<1>8. InvSesi(t)'
  <2>1. \A w \in tulis[t] : MemegangX(t, KNota(w[1]))' /\ w[2] \in StatusLunas
    BY <1>5 DEF IInv, InvSesi, MemegangX
  <2>2. /\ TentangNota(g) => Dipenuhi(t, Kunci(KNota(g.nota)))'
        /\ ~TentangNota(g) => Dipenuhi(t, Kunci(KBayar(g.bayar)))'
    BY <1>2, <1>3, <1>4, <1>5 DEF Dipenuhi, Kunci, KNota, KBayar
  <2>3. QED BY <1>1, <1>2, <2>1, <2>2 DEF InvSesi
<1>9. QED BY <1>2, <1>5, <1>7, <1>8, LangkahSaja

\* Nobody holds, or waits for, a payment that is not there.
LEMMA LangkahBuatBayar ==
  ASSUME IInv, NEW t \in Sesi, BuatBayar(t)
  PROVE  Hasil
<1>1. PICK g \in Tugas :
        /\ g.aksi = "buat" /\ bayar[g.bayar].status = "TIADA"
        /\ \A u \in Sesi : Kunci(KBayar(g.bayar)) \notin pegang[u]
        /\ Minta(t, Kunci(KBayar(g.bayar)))
        /\ tugas' = [tugas EXCEPT ![t] = g]
        /\ salinan' = [salinan EXCEPT ![t] = BarisBaru(g.isi)]
        /\ daftar' = [daftar EXCEPT ![t] = g.alokasi]
  BY DEF BuatBayar
<1>2. /\ UNCHANGED <<notaVars, mulus>> /\ bayar' = bayar /\ pc[t] = "idle" /\ Jalan(t) /\ pc'[t] = "kunci"
      /\ tugas'[t] = g /\ tulis'[t] = tulis[t] /\ salinan'[t] = BarisBaru(g.isi)
      /\ \A u \in Sesi : u # t => SesiDiam(u)
  BY <1>1 DEF BuatBayar, Ke, notaVars, IInv, Bentuk, InvSesi, SesiDiam
<1>3. ~TentangNota(g) /\ g.bayar \in Bayar
  BY <1>1, TipeTugas
<1>4. PICK p : p = Kunci(KBayar(g.bayar))
  OBVIOUS
<1>5. /\ KunciSah' /\ \A u \in Sesi : u # t => Lain(u)
      /\ pegang[t] \subseteq pegang'[t]
  BY <1>1, <1>2, <1>4, MintaSah DEF IInv
<1>6. \A u \in Sesi : \A q \in pegang[u] \cup tunggu[u] : q.kunci # p.kunci
  BY <1>1, <1>3, <1>4 DEF IInv, Antre, Kunci
<1>7. p \in pegang'[t]
  BY <1>1, <1>2, <1>4, <1>6, MintaLangsung DEF IInv
<1>8. MemegangX(t, KBayar(g.bayar))'
  BY <1>4, <1>7 DEF MemegangX, Kunci, KBayar
<1>9. /\ \A u \in Sesi : u # t => pegang'[u] = pegang[u] /\ tunggu'[u] = tunggu[u]
      /\ pegang'[t] \subseteq pegang[t] \cup {p}
  BY <1>1, <1>2, <1>4, MintaHanya DEF IInv
<1>10. tunggu'[t] = {}
  <2>1. ~SudahPunya(t, p) /\ BebasDariPemegang(t, p)
        /\ \A u \in Sesi \ {t} : \A q \in tunggu[u] : ~Bentrok(p, q)
    BY <1>6 DEF SudahPunya, BebasDariPemegang, Bentrok
  <2>2. UNCHANGED tunggu
    BY <1>1, <1>4, <2>1 DEF Minta
  <2>3. QED BY <1>2, <2>2 DEF Jalan
<1>11. Antre'
  <2>1. p = Kunci(p.kunci)
    BY <1>4 DEF Kunci
  <2>2. QED BY <1>2, <1>9, <1>10, <2>1 DEF IInv, Antre
<1>12. InvSesi(t)'
  <2>1. \A w \in tulis[t] : MemegangX(t, KNota(w[1]))' /\ w[2] \in StatusLunas
    BY <1>5 DEF IInv, InvSesi, MemegangX
  <2>2. TahuBayar(t)' /\ TahuAlokasi(t)'
    BY <1>1, <1>2, <1>3, <1>8 DEF TahuBayar, TahuAlokasi, Menerima
  <2>3. QED BY <1>1, <1>2, <2>1, <2>2 DEF InvSesi
<1>13. QED BY <1>2, <1>5, <1>11, <1>12, LangkahSaja

\* What no step of the lock manager touches.
LEMMA TanpaKunci ==
  ASSUME IInv, UNCHANGED kunciVars, UNCHANGED bayar
  PROVE  /\ KunciSah' /\ Antre' /\ \A u \in Sesi : Lain(u)
         /\ \A u, k : MemegangX(u, k)' <=> MemegangX(u, k)
         /\ \A u, p : Dipenuhi(u, p)' <=> Dipenuhi(u, p)
         /\ \A u : Jalan(u)' <=> Jalan(u)
BY KunciDiam DEF IInv, Antre, kunciVars, Jalan

LEMMA LangkahBacaNota ==
  ASSUME IInv, NEW t \in Sesi, BacaNota(t)
  PROVE  Hasil
<1> DEFINE g == tugas[t]
<1> DEFINE n == g.nota
<1>1. CASE /\ nota[n].status = IF g.aksi = "batal" THEN "POSTED" ELSE "DRAFT"
           /\ g.aksi = "batal" => ~HasPostedAlokasi(n)
           /\ salinan' = [salinan EXCEPT ![t] = nota[n]]
           /\ Ke(t, IF g.aksi = "posting" THEN "plafon" ELSE "simpan")
           /\ UNCHANGED <<kunciVars, notaVars, mulai, tugas, daftar, foto, tulis, mulus>>
  <2>1. /\ UNCHANGED <<kunciVars, notaVars, mulus, nota, bayar>> /\ pc[t] = "baca" /\ Jalan(t)
        /\ pc'[t] = IF g.aksi = "posting" THEN "plafon" ELSE "simpan"
        /\ salinan'[t] = nota[n] /\ tugas'[t] = g /\ tulis'[t] = tulis[t] /\ TentangNota(g)
        /\ \A u \in Sesi : u # t => SesiDiam(u)
    BY <1>1 DEF BacaNota, Ke, notaVars, IInv, Bentuk, SesiDiam
  <2>2. g \in Tugas /\ MemegangX(t, KNota(n))
    BY <2>1, Dapat DEF Kunci, IInv, InvSesi
  <2>3. KunciSah' /\ Antre' /\ (\A u \in Sesi : Lain(u)) /\ MemegangX(t, KNota(n))'
        /\ \A k : MemegangX(t, k)' <=> MemegangX(t, k)
    BY <2>1, <2>2, TanpaKunci
  <2>4. TahuNota(t)'
    BY <1>1, <2>1, <2>3 DEF TahuNota, HasPostedAlokasi, Menunjuk
  <2>5. InvSesi(t)'
    BY <2>1, <2>2, <2>3, <2>4 DEF InvSesi, IInv
  <2>6. QED BY <2>1, <2>3, <2>5, LangkahSaja
<1>2. QED BY <1>1, UsaiGagal DEF BacaNota

LEMMA LangkahPlafon ==
  ASSUME IInv, NEW t \in Sesi, PeriksaPlafon(t)
  PROVE  Hasil
<1>1. CASE /\ CukupPlafon(salinan[t]) /\ mulus' = mulus \cup {t} /\ Ke(t, "simpan")
           /\ UNCHANGED <<kunciVars, notaVars, mulai, tugas, salinan, daftar, foto, tulis>>
  <2>1. /\ UNCHANGED <<kunciVars, notaVars, nota, bayar>> /\ pc[t] = "plafon" /\ pc'[t] = "simpan"
        /\ salinan'[t] = salinan[t] /\ tugas'[t] = tugas[t] /\ tulis'[t] = tulis[t]
        /\ \A u \in Sesi : u # t => SesiDiam(u)
    BY <1>1 DEF PeriksaPlafon, Ke, notaVars, IInv, Bentuk, SesiDiam
  <2>2. /\ KunciSah' /\ Antre' /\ \A u \in Sesi : Lain(u)
        /\ \A k : MemegangX(t, k)' <=> MemegangX(t, k)
    BY <2>1, TanpaKunci
  <2>3. tugas[t] \in Tugas /\ TahuNota(t) /\ tugas[t].aksi = "posting"
    BY <2>1 DEF IInv, InvSesi
  <2>4. TahuNota(t)'
    BY <2>1, <2>2, <2>3 DEF TahuNota
  <2>5. InvSesi(t)'
    BY <2>1, <2>2, <2>3, <2>4 DEF InvSesi, IInv
  <2>6. TipeData' /\ PiutangTerjaga' /\ \A u \in Sesi : Utuh(u)
    BY <2>1, DataDiam
  <2>7. \A u \in Sesi : u # t => InvSesi(u)'
    BY <2>1, <2>2, <2>6, SesiLain DEF IInv
  <2>8. MulusBenar'
    <3>1. CukupUntuk(t)'
      BY <1>1, <2>1 DEF CukupPlafon, CukupUntuk
    <3>2. \A u \in mulus : u \in Sesi /\ u # t /\ pc'[u] = "simpan" /\ tugas'[u].aksi = "posting"
      BY <2>1 DEF IInv, MulusBenar, SesiDiam
    <3>3. \A u \in mulus : CukupUntuk(u)'
      BY <2>1, <3>2 DEF IInv, MulusBenar, SesiDiam, CukupUntuk
    <3>4. QED BY <1>1, <2>1, <2>3, <3>1, <3>2, <3>3 DEF MulusBenar
  <2>9. QED BY <2>2, <2>5, <2>6, <2>7, <2>8 DEF Hasil, SemuaTahu
<1>2. QED BY <1>1, UsaiGagal DEF PeriksaPlafon

\* What a handler of a nota knows before it writes.
LEMMA SiapNota ==
  ASSUME IInv, NEW t \in Sesi, pc[t] = "simpan"
  PROVE  LET n == tugas[t].nota IN
         /\ tugas[t] \in Tugas /\ n \in Nota /\ salinan[t] = nota[n] /\ nota[n] \in BarisNota
         /\ nota[n].total = nota[n].subtotal - nota[n].diskon
         /\ \A e \in Bayar : ~Menunjuk(bayar, e, n)
         /\ \A u \in Sesi : u # t => ~MemegangX(u, KNota(n))
         /\ tugas[t].aksi # "batal" => nota[n].status = "DRAFT"
<1> DEFINE n == tugas[t].nota
<1>1. tugas[t] \in Tugas /\ TahuNota(t)
  BY DEF IInv, InvSesi
<1>2. n \in Nota /\ salinan[t] = nota[n] /\ MemegangX(t, KNota(n)) /\ nota[n] \in BarisNota
  BY <1>1, TipeTugas DEF TahuNota, IInv, TipeData
<1>3. nota[n].total = nota[n].subtotal - nota[n].diskon
  BY <1>2 DEF IInv, PiutangTerjaga, PiutangSah, KepalaSetuju
<1>4. \A e \in Bayar : ~Menunjuk(bayar, e, n)
  <2>1. CASE tugas[t].aksi = "batal"
    BY <1>1, <2>1 DEF TahuNota
  <2>2. CASE tugas[t].aksi # "batal"
    BY <1>1, <1>2, <2>2, DrafBebas DEF TahuNota
  <2>3. QED BY <2>1, <2>2
<1>5. \A u \in Sesi : u # t => ~MemegangX(u, KNota(n))
  BY <1>2, PemegangTunggal DEF IInv
<1>6. QED BY <1>1, <1>2, <1>3, <1>4, <1>5 DEF TahuNota

\* A handler that rewrites its nota and commits.
LEMMA NotaSelesai ==
  ASSUME IInv, NEW t \in Sesi, pc[t] = "simpan", NEW tambah \in BOOLEAN, Bersih(t, tambah),
         NEW r \in BarisNota, nota' = [nota EXCEPT ![tugas[t].nota] = r], UNCHANGED bayar,
         r.total = r.subtotal - r.diskon, r.status # "POSTED" \/ tambah \/ Turun
  PROVE  Hasil
<1> DEFINE n == tugas[t].nota
<1>1. /\ n \in Nota /\ \A e \in Bayar : ~Menunjuk(bayar, e, n)
      /\ \A u \in Sesi : u # t => ~MemegangX(u, KNota(n))
  BY SiapNota
<1> HIDE DEF n
<1>2. nota' = [nota EXCEPT ![n] = r]
  BY DEF n
<1>3. /\ TipeData' /\ PiutangTerjaga'
      /\ \A u \in Sesi : (MemegangX(u, KNota(n)) => nota[n].status = "TIADA") => Utuh(u)
      /\ r.status # "POSTED" => Turun
  BY <1>1, <1>2, NotaBerganti
<1>4. \A u \in Sesi : u # t => Utuh(u)
  BY <1>1, <1>3
<1>5. (tambah \/ Turun) /\ \A d \in Bayar : bayar[d].status # "TIADA" => bayar'[d].status # "TIADA"
  BY <1>3
<1>6. QED BY <1>3, <1>4, <1>5, UsaiPiutang

LEMMA LangkahUbahNota ==
  ASSUME IInv, NEW t \in Sesi, UbahNota(t)
  PROVE  Hasil
<1> DEFINE g == tugas[t]
<1> DEFINE b == nota[g.nota]
<1> DEFINE e == Terapkan(g.patch, b)
<1> DEFINE r == [e EXCEPT !.subtotal = b.subtotal, !.total = HitungTotal(b.subtotal, e.diskon)]
<1>1. /\ pc[t] = "simpan" /\ g.aksi = "ubah" /\ TentangNota(g)
      /\ g.nota \in Nota /\ salinan[t] = b /\ b \in BarisNota /\ g.patch \in PatchNota
      /\ b.status = "DRAFT"
  BY SiapNota, TipeTugas DEF UbahNota
<1>2. CASE /\ SahTotal(b.subtotal, e.diskon) /\ nota' = [nota EXCEPT ![g.nota] = r]
           /\ UNCHANGED bayar /\ Bersih(t, FALSE)
  <2>1. b.subtotal \in Nat /\ e.diskon \in Nat
    BY <1>1, PatchBenar DEF BarisNota
  <2>2. HitungTotal(b.subtotal, e.diskon) \in Nat
    BY <1>2, <2>1 DEF SahTotal, HitungTotal
  <2>3. PICK total \in Nat : total = HitungTotal(b.subtotal, e.diskon)
    BY <2>2
  <2> DEFINE q == Diperbarui(g.patch, b, total)
  <2>4. /\ q \in BarisNota /\ q.subtotal = b.subtotal /\ q.total = total
        /\ q.diskon = e.diskon /\ q.status = b.status
    BY <1>1, <2>1, PatchBenar
  <2>5. r = q
    BY <2>3 DEF Diperbarui
  <2> HIDE DEF r, e, q
  <2>6. r \in BarisNota /\ r.total = r.subtotal - r.diskon /\ r.status # "POSTED"
    BY <1>1, <2>3, <2>4, <2>5 DEF HitungTotal
  <2>7. QED BY <1>1, <1>2, <2>6, NotaSelesai
<1>3. \/ /\ SahTotal(b.subtotal, e.diskon) /\ nota' = [nota EXCEPT ![g.nota] = r]
         /\ UNCHANGED bayar /\ Bersih(t, FALSE)
      \/ Gagal(t)
  BY <1>1 DEF UbahNota
<1>4. QED BY <1>2, <1>3, UsaiGagal

LEMMA LangkahGantiDetail ==
  ASSUME IInv, NEW t \in Sesi, GantiDetail(t)
  PROVE  Hasil
<1> DEFINE g == tugas[t]
<1> DEFINE b == nota[g.nota]
<1> DEFINE r == [b EXCEPT !.subtotal = g.subtotal, !.total = HitungTotal(g.subtotal, b.diskon)]
<1>1. /\ pc[t] = "simpan" /\ g.aksi = "detail"
      /\ g.nota \in Nota /\ salinan[t] = b /\ b \in BarisNota /\ g.subtotal \in Nat
      /\ b.status = "DRAFT"
  BY SiapNota, TipeTugas, AsumsiPiutang DEF GantiDetail, AsumsiPiutang
<1>2. CASE /\ SahTotal(g.subtotal, b.diskon) /\ nota' = [nota EXCEPT ![g.nota] = r]
           /\ UNCHANGED bayar /\ Bersih(t, FALSE)
  <2>1. HitungTotal(g.subtotal, b.diskon) \in Nat
    BY <1>1, <1>2 DEF SahTotal, HitungTotal, BarisNota
  <2>2. r \in BarisNota /\ r.total = r.subtotal - r.diskon /\ r.status # "POSTED"
    BY <1>1, <2>1 DEF HitungTotal, BarisNota
  <2> HIDE DEF r
  <2>3. QED BY <1>1, <1>2, <2>2, NotaSelesai
<1>3. \/ /\ SahTotal(g.subtotal, b.diskon) /\ nota' = [nota EXCEPT ![g.nota] = r]
         /\ UNCHANGED bayar /\ Bersih(t, FALSE)
      \/ Gagal(t)
  BY <1>1 DEF GantiDetail, IInv, TipeData
<1>4. QED BY <1>2, <1>3, UsaiGagal

\* A step that is not Menambah lets nobody owe more.
LEMMA TidakMenambah ==
  ASSUME TipeData, TipeData'
  PROVE  Menambah \in BOOLEAN /\ (Menambah \/ Turun)
<1>1. Menambah \in BOOLEAN
  BY DEF Menambah
<1>2. ASSUME ~Menambah PROVE Turun
  <2>1. ASSUME NEW p \in Pelanggan
        PROVE  PiutangBerjalan(nota', bayar', p) <= PiutangBerjalan(nota, bayar, p)
    <3>1. PiutangBerjalan(nota, bayar, p) \in Int /\ PiutangBerjalan(nota', bayar', p) \in Int
      BY BerjalanBenar DEF TipeData
    <3>2. ~(PiutangBerjalan(nota', bayar', p) > PiutangBerjalan(nota, bayar, p))
      BY <1>2 DEF Menambah
    <3>3. QED BY <3>1, <3>2
  <2>2. QED BY <2>1 DEF Turun
<1>3. QED BY <1>1, <1>2

\* The row a posting writes.
NotaTerposting(t) ==
  [nota[tugas[t].nota] EXCEPT !.status = "POSTED",
     !.lunas = StatusPembayaran(bayar, tugas[t].nota, nota[tugas[t].nota])]

LEMMA PostingMenulis ==
  ASSUME IInv, NEW t \in Sesi, PostingNota(t)
  PROVE  LET b == nota[tugas[t].nota]
             r == NotaTerposting(t)
         IN  /\ nota' = [nota EXCEPT ![tugas[t].nota] = r] /\ r \in BarisNota
             /\ r.total = r.subtotal - r.diskon
             /\ r.jenis = b.jenis /\ r.pelanggan = b.pelanggan /\ r.total = b.total
<1> DEFINE b == nota[tugas[t].nota]
<1>1. b \in BarisNota /\ tugas[t].nota \in Nota /\ b.total = b.subtotal - b.diskon
  BY SiapNota DEF PostingNota
<1>2. StatusPembayaran(bayar, tugas[t].nota, b) \in StatusLunas
  BY DEF StatusPembayaran, StatusLunas
<1>3. NotaTerposting(t) \in BarisNota
  BY <1>1, <1>2 DEF NotaTerposting, BarisNota, StatusDok
<1>4. nota' = [nota EXCEPT ![tugas[t].nota] = NotaTerposting(t)]
  BY <1>1 DEF PostingNota, NotaTerposting, IInv, TipeData
<1>5. QED BY <1>1, <1>3, <1>4 DEF NotaTerposting, BarisNota

LEMMA LangkahPostingNota ==
  ASSUME IInv, NEW t \in Sesi, PostingNota(t)
  PROVE  Hasil
<1> DEFINE r == NotaTerposting(t)
<1>1. nota' = [nota EXCEPT ![tugas[t].nota] = r] /\ r \in BarisNota
      /\ r.total = r.subtotal - r.diskon
  BY PostingMenulis
<1>2. pc[t] = "simpan" /\ UNCHANGED bayar /\ Bersih(t, Menambah)
  BY DEF PostingNota
<1>3. TipeData /\ TipeData'
  BY <1>1, <1>2, SiapNota DEF IInv, TipeData
<1>4. PICK x : x = Menambah
  OBVIOUS
<1>5. x \in BOOLEAN /\ (x \/ Turun)
  BY <1>3, <1>4, TidakMenambah
<1>6. Bersih(t, x)
  BY <1>2, <1>4
<1> HIDE DEF r
<1>7. QED BY <1>1, <1>2, <1>5, <1>6, NotaSelesai

LEMMA LangkahBatalNota ==
  ASSUME IInv, NEW t \in Sesi, BatalNota(t)
  PROVE  Hasil
<1> DEFINE b == nota[tugas[t].nota]
<1> DEFINE r == [b EXCEPT !.status = "BATAL"]
<1>1. b \in BarisNota /\ tugas[t].nota \in Nota /\ b.total = b.subtotal - b.diskon
      /\ pc[t] = "simpan" /\ UNCHANGED bayar /\ Bersih(t, FALSE)
  BY SiapNota DEF BatalNota
<1>2. nota' = [nota EXCEPT ![tugas[t].nota] = r]
  BY <1>1 DEF BatalNota, IInv, TipeData
<1>3. r \in BarisNota /\ r.total = r.subtotal - r.diskon /\ r.status # "POSTED"
  BY <1>1 DEF BarisNota, StatusDok
<1> HIDE DEF r
<1>4. QED BY <1>1, <1>2, <1>3, NotaSelesai

LEMMA LangkahBuatNota ==
  ASSUME IInv, NEW n \in Nota, BuatNota(n)
  PROVE  Hasil
<1>1. PICK isi \in IsianNota, s \in Subtotal :
        /\ SahTotal(s, isi.diskon)
        /\ nota' = [nota EXCEPT ![n] =
             [status |-> "DRAFT", jenis |-> isi.jenis, pelanggan |-> isi.pelanggan,
              subtotal |-> s, diskon |-> isi.diskon, total |-> HitungTotal(s, isi.diskon),
              lunas |-> "BELUM"]]
  BY DEF BuatNota
<1> DEFINE r == [status |-> "DRAFT", jenis |-> isi.jenis, pelanggan |-> isi.pelanggan,
                 subtotal |-> s, diskon |-> isi.diskon, total |-> HitungTotal(s, isi.diskon),
                 lunas |-> "BELUM"]
<1>2. /\ UNCHANGED <<kunciVars, bayar, pc, tugas, salinan, daftar, foto, tulis, mulus>>
      /\ nota[n].status = "TIADA" /\ nota' = [nota EXCEPT ![n] = r]
  BY <1>1 DEF BuatNota
<1>3. r \in BarisNota /\ r.total = r.subtotal - r.diskon /\ r.status # "POSTED"
  <2>1. /\ isi \in [jenis : JenisNota, pelanggan : Pelanggan \cup {Umum}, diskon : Nat]
        /\ s \in Nat
    BY AsumsiPiutang DEF AsumsiPiutang
  <2>2. HitungTotal(s, isi.diskon) \in Nat
    BY <1>1, <2>1 DEF HitungTotal, SahTotal
  <2>3. QED BY <2>1, <2>2 DEF BarisNota, StatusDok, StatusLunas, HitungTotal
<1> HIDE DEF r
<1>4. /\ TipeData' /\ PiutangTerjaga' /\ Turun
      /\ \A u \in Sesi : Utuh(u)
  BY <1>2, <1>3, NotaBerganti, DrafBebas
<1>5. /\ KunciSah' /\ Antre' /\ \A u \in Sesi : Lain(u)
      /\ \A u \in Sesi : SesiDiam(u)
  BY <1>2, TanpaKunci DEF SesiDiam
<1>6. SemuaTahu'
  BY <1>4, <1>5, SesiLain DEF IInv, SemuaTahu
<1>7. MulusBenar'
  <2>1. \A u \in mulus : u \in Sesi /\ pc[u] = "simpan" /\ tugas[u].aksi = "posting" /\ CukupUntuk(u)
    BY DEF IInv, MulusBenar
  <2>2. \A u \in mulus : CukupUntuk(u)'
    BY <1>2, <1>4, <2>1, CukupTetap
  <2>3. QED BY <1>2, <2>1, <2>2 DEF MulusBenar
<1>8. QED BY <1>4, <1>5, <1>6, <1>7 DEF Hasil

LEMMA LangkahBacaBayar ==
  ASSUME IInv, NEW t \in Sesi, BacaBayar(t)
  PROVE  Hasil
<1> DEFINE g == tugas[t]
<1> DEFINE d == g.bayar
<1>1. CASE /\ BolehBayar(g, bayar[d])
           /\ salinan' = [salinan EXCEPT ![t] = bayar[d]]
           /\ daftar' = [daftar EXCEPT ![t] = CASE g.aksi \in {"posting", "cair"} -> bayar[d].alokasi
                                                [] g.aksi = "alokasi" -> g.alokasi
                                                [] OTHER -> <<>>]
           /\ Ke(t, "kunci")
           /\ UNCHANGED <<kunciVars, notaVars, mulai, tugas, foto, tulis, mulus>>
  <2>1. /\ UNCHANGED <<kunciVars, notaVars, mulus, nota, bayar>> /\ pc[t] = "baca" /\ Jalan(t)
        /\ pc'[t] = "kunci" /\ ~TentangNota(g)
        /\ salinan'[t] = bayar[d] /\ tugas'[t] = g /\ tulis'[t] = tulis[t]
        /\ Menerima(t) => daftar'[t] = bayar[d].alokasi
        /\ \A u \in Sesi : u # t => SesiDiam(u)
    BY <1>1 DEF BacaBayar, Ke, notaVars, IInv, Bentuk, SesiDiam, Menerima
  <2>2. g \in Tugas /\ MemegangX(t, KBayar(d)) /\ g.aksi # "buat"
    BY <2>1, Dapat DEF Kunci, IInv, InvSesi
  <2>3. d \in Bayar /\ bayar[d].alokasi \in Seq(Alokasi)
    BY <2>1, <2>2, TipeTugas, TipeAlokasi DEF IInv, TipeData
  <2>4. KunciSah' /\ Antre' /\ (\A u \in Sesi : Lain(u)) /\ MemegangX(t, KBayar(d))'
        /\ \A k : MemegangX(t, k)' <=> MemegangX(t, k)
    BY <2>1, <2>2, TanpaKunci
  <2>5. TahuBayar(t)'
    BY <1>1, <2>1, <2>2, <2>4 DEF TahuBayar
  <2>6. TahuAlokasi(t)'
    BY <2>1, <2>3 DEF TahuAlokasi, Menerima
  <2>7. InvSesi(t)'
    BY <2>1, <2>2, <2>4, <2>5, <2>6 DEF InvSesi, IInv
  <2>8. QED BY <2>1, <2>4, <2>7, LangkahSaja
<1>2. QED BY <1>1, UsaiGagal DEF BacaBayar

\* What a handler of a payment knows.
LEMMA SiapBayar ==
  ASSUME IInv, NEW t \in Sesi, pc[t] \in {"kunci", "sisa", "ulang", "tulis"}
  PROVE  LET d == tugas[t].bayar IN
         /\ tugas[t] \in Tugas /\ ~TentangNota(tugas[t]) /\ d \in Bayar /\ bayar[d] \in BarisBayar
         /\ MemegangX(t, KBayar(d)) /\ TahuBayar(t) /\ TahuAlokasi(t)
         /\ \A u \in Sesi : u # t => ~MemegangX(u, KBayar(d))
         /\ \A a \in ToSet(bayar[d].alokasi) : a.nota \in Nota /\ a.jumlah \in Nat
         /\ bayar[d].dialokasikan = JumlahAlokasi(bayar[d].alokasi)
         /\ \A n \in Nota :
              Cardinality({i \in DOMAIN bayar[d].alokasi : bayar[d].alokasi[i].nota = n}) <= 1
<1> DEFINE d == tugas[t].bayar
<1>1. tugas[t] \in Tugas /\ TahuBayar(t) /\ TahuAlokasi(t)
  BY DEF IInv, InvSesi
<1>2. d \in Bayar /\ bayar[d] \in BarisBayar /\ MemegangX(t, KBayar(d))
  BY <1>1, TipeTugas DEF TahuBayar, IInv, TipeData
<1>3. \A u \in Sesi : u # t => ~MemegangX(u, KBayar(d))
  BY <1>2, PemegangTunggal DEF IInv
<1>4. \A a \in ToSet(bayar[d].alokasi) : a.nota \in Nota /\ a.jumlah \in Nat
  BY <1>2, TipeAlokasi
<1>5. /\ bayar[d].dialokasikan = JumlahAlokasi(bayar[d].alokasi)
      /\ \A n \in Nota :
           Cardinality({i \in DOMAIN bayar[d].alokasi : bayar[d].alokasi[i].nota = n}) <= 1
  BY <1>2 DEF IInv, PiutangTerjaga, PiutangSah, KepalaSetuju
<1>6. QED BY <1>1, <1>2, <1>3, <1>4, <1>5 DEF TahuBayar

LEMMA LangkahUbahBayar ==
  ASSUME IInv, NEW t \in Sesi, UbahBayar(t)
  PROVE  Hasil
<1> DEFINE g == tugas[t]
<1> DEFINE d == g.bayar
<1> DEFINE r == [bayar[d] EXCEPT !.jumlah = g.jumlah]
<1>1. /\ g \in Tugas /\ d \in Bayar /\ bayar[d] \in BarisBayar /\ TahuBayar(t) /\ ~TentangNota(g)
      /\ \A u \in Sesi : u # t => ~MemegangX(u, KBayar(d))
      /\ bayar[d].dialokasikan = JumlahAlokasi(bayar[d].alokasi)
      /\ \A n \in Nota :
           Cardinality({i \in DOMAIN bayar[d].alokasi : bayar[d].alokasi[i].nota = n}) <= 1
  BY SiapBayar DEF UbahBayar
<1>2. g.aksi = "ubah" /\ UNCHANGED nota /\ Bersih(t, FALSE)
  BY DEF UbahBayar
<1>3. g.jumlah \in Nat \ {0}
  BY <1>1, <1>2, TipeTugas
<1>4. bayar[d].status = "DRAFT" /\ g.jumlah >= bayar[d].dialokasikan
  BY <1>1, <1>2 DEF TahuBayar, BolehBayar
<1>5. bayar' = [bayar EXCEPT ![d] = r]
  BY <1>1 DEF UbahBayar, IInv, TipeData
<1>6. /\ r \in BarisBayar /\ r.status = "DRAFT" /\ r.alokasi = bayar[d].alokasi
      /\ r.dialokasikan = bayar[d].dialokasikan /\ r.dialokasikan <= r.jumlah
  BY <1>1, <1>3, <1>4 DEF BarisBayar
<1> HIDE DEF r
<1>7. /\ r.dialokasikan = JumlahAlokasi(r.alokasi)
      /\ \A n \in Nota : Cardinality({i \in DOMAIN r.alokasi : r.alokasi[i].nota = n}) <= 1
  BY <1>1, <1>6
<1>8. /\ TipeData' /\ PiutangTerjaga' /\ Turun
      /\ \A u \in Sesi : u # t => Utuh(u)
      /\ \A e \in Bayar : bayar[e].status # "TIADA" => bayar'[e].status # "TIADA"
  BY <1>1, <1>2, <1>4, <1>5, <1>6, <1>7, BayarDraf
<1>9. QED BY <1>2, <1>8, UsaiPiutang

LEMMA LangkahTulisAlokasi ==
  ASSUME IInv, NEW t \in Sesi, TulisAlokasi(t)
  PROVE  Hasil
<1> DEFINE g == tugas[t]
<1> DEFINE d == g.bayar
<1> DEFINE dasar == IF g.aksi = "buat" THEN salinan[t] ELSE bayar[d]
<1> DEFINE r == [dasar EXCEPT !.alokasi = g.alokasi, !.dialokasikan = JumlahAlokasi(g.alokasi)]
<1>1. /\ g \in Tugas /\ d \in Bayar /\ bayar[d] \in BarisBayar /\ TahuBayar(t) /\ ~TentangNota(g)
      /\ \A u \in Sesi : u # t => ~MemegangX(u, KBayar(d))
  BY SiapBayar DEF TulisAlokasi
<1>2. CASE /\ SahAlokasi(salinan[t].jumlah, g.alokasi) /\ bayar' = [bayar EXCEPT ![d] = r]
           /\ UNCHANGED nota /\ Bersih(t, FALSE)
  <2>1. g.aksi \in {"buat", "alokasi"} /\ g.alokasi \in Seq(Alokasi)
        /\ JumlahAlokasi(g.alokasi) \in Nat
    BY <1>1, TipeTugas, JumlahAlokasiAlami DEF TulisAlokasi
  <2>2. /\ dasar \in BarisBayar /\ dasar.status = "DRAFT" /\ bayar[d].status \in {"TIADA", "DRAFT"}
        /\ dasar.jumlah = salinan[t].jumlah
    <3>1. CASE g.aksi = "buat"
      <4>1. salinan[t] = BarisBaru(g.isi) /\ bayar[d].status = "TIADA"
        BY <1>1, <3>1 DEF TahuBayar
      <4>2. g.isi \in [metode : Metode, pelanggan : Pelanggan, jumlah : Nat \ {0}]
        BY <1>1, <3>1, TipeTugas, AsumsiPiutang DEF AsumsiPiutang
      <4>3. BarisBaru(g.isi) \in BarisBayar
        BY <4>2 DEF BarisBaru, BarisBayar, StatusDok, StatusGiro
      <4>4. QED BY <3>1, <4>1, <4>3 DEF BarisBaru
    <3>2. CASE g.aksi = "alokasi"
      BY <1>1, <3>2 DEF TahuBayar, BolehBayar
    <3>3. QED BY <2>1, <3>1, <3>2
  <2> HIDE DEF dasar
  <2>3. /\ r \in BarisBayar /\ r.status = "DRAFT" /\ r.alokasi = g.alokasi
        /\ r.dialokasikan = JumlahAlokasi(g.alokasi) /\ r.jumlah = salinan[t].jumlah
    BY <2>1, <2>2 DEF BarisBayar
  <2> HIDE DEF r
  <2>4. /\ r.dialokasikan <= r.jumlah
        /\ \A n \in Nota : Cardinality({i \in DOMAIN r.alokasi : r.alokasi[i].nota = n}) <= 1
    BY <1>2, <2>1, <2>3, SekaliBenar DEF SahAlokasi
  <2>5. /\ TipeData' /\ PiutangTerjaga' /\ Turun
        /\ \A u \in Sesi : u # t => Utuh(u)
        /\ \A e \in Bayar : bayar[e].status # "TIADA" => bayar'[e].status # "TIADA"
    BY <1>1, <1>2, <2>2, <2>3, <2>4, BayarDraf
  <2>6. QED BY <1>2, <2>5, UsaiPiutang
<1>3. QED BY <1>2, UsaiGagal DEF TulisAlokasi

\* A request for the nota n: what t has checked stays good.
LEMMA KunciNotaLagi ==
  ASSUME IInv, NEW t \in Sesi, pc[t] \in {"kunci", "ulang"}, Jalan(t), NEW n,
         UNCHANGED <<notaVars, mulus, tugas, salinan, daftar>>, tulis'[t] = tulis[t],
         \A u \in Sesi : u # t => SesiDiam(u), Minta(t, Kunci(KNota(n)))
  PROVE  /\ KunciSah' /\ Antre' /\ \A u \in Sesi : u # t => Lain(u)
         /\ Dipenuhi(t, Kunci(KNota(n)))'
         /\ TahuBayar(t)' /\ \A a : Dijaga(t, a) => Dijaga(t, a)'
         /\ \A w \in tulis[t] : MemegangX(t, KNota(w[1]))' /\ w[2] \in StatusLunas
<1>1. PICK p : p = Kunci(KNota(n))
  OBVIOUS
<1>2. /\ KunciSah' /\ \A u \in Sesi : u # t => Lain(u)
      /\ pegang[t] \subseteq pegang'[t] /\ Dipenuhi(t, p)'
  BY <1>1, MintaSah DEF IInv
<1>3. \A k : MemegangX(t, k) => MemegangX(t, k)'
  BY <1>2 DEF MemegangX
<1>4. Antre'
  <2>1. /\ \A u \in Sesi : u # t => pegang'[u] = pegang[u] /\ tunggu'[u] = tunggu[u]
        /\ pegang'[t] \subseteq pegang[t] \cup {p} /\ tunggu'[t] \subseteq {p}
    BY <1>1, MintaHanya DEF IInv
  <2>2. p = Kunci(p.kunci) /\ \A d \in Bayar : p.kunci # KBayar(d)
    BY <1>1 DEF Kunci, KNota, KBayar
  <2>3. bayar' = bayar
    BY DEF notaVars
  <2>4. QED BY <2>1, <2>2, <2>3 DEF IInv, Antre
<1>5. TahuBayar(t)'
  BY <1>3, SiapBayar DEF TahuBayar, notaVars
<1>6. \A a : Dijaga(t, a) => Dijaga(t, a)'
  BY <1>3 DEF Dijaga, notaVars
<1>7. \A w \in tulis[t] : MemegangX(t, KNota(w[1]))' /\ w[2] \in StatusLunas
  BY <1>3 DEF IInv, InvSesi
<1>8. Dipenuhi(t, Kunci(KNota(n)))'
  BY <1>1, <1>2 DEF Dipenuhi, Kunci, KNota
<1>9. QED BY <1>2, <1>4, <1>5, <1>6, <1>7, <1>8

LEMMA LangkahKunciNota ==
  ASSUME IInv, NEW t \in Sesi, KunciNota(t)
  PROVE  Hasil
<1>1. /\ UNCHANGED <<notaVars, mulus, tugas, salinan, daftar>> /\ tulis'[t] = tulis[t]
      /\ bayar' = bayar /\ pc[t] = "kunci" /\ Jalan(t) /\ pc'[t] = "sisa" /\ daftar[t] # <<>>
      /\ \A u \in Sesi : u # t => SesiDiam(u)
  BY DEF KunciNota, Ke, notaVars, IInv, Bentuk, SesiDiam
<1>2. PICK n : n = Head(daftar[t]).nota
  OBVIOUS
<1>3. /\ KunciSah' /\ Antre' /\ \A u \in Sesi : u # t => Lain(u)
      /\ Dipenuhi(t, Kunci(KNota(n)))'
      /\ TahuBayar(t)' /\ \A a : Dijaga(t, a) => Dijaga(t, a)'
      /\ \A w \in tulis[t] : MemegangX(t, KNota(w[1]))' /\ w[2] \in StatusLunas
  BY <1>1, <1>2, KunciNotaLagi DEF KunciNota
<1>4. Dipenuhi(t, Kunci(KNota(Head(daftar[t]).nota)))'
  BY <1>1, <1>2, <1>3 DEF Dipenuhi, Kunci, KNota
<1>5. TahuAlokasi(t)'
  <2>1. TahuAlokasi(t)
    BY <1>1, SiapBayar
  <2>2. QED BY <1>1, <1>3, <2>1 DEF TahuAlokasi, Menerima
<1>6. InvSesi(t)'
  BY <1>1, <1>3, <1>4, <1>5 DEF InvSesi, IInv
<1>7. QED BY <1>1, <1>3, <1>6, LangkahSaja

LEMMA LangkahPeriksaSisa ==
  ASSUME IInv, NEW t \in Sesi, PeriksaSisa(t)
  PROVE  Hasil
<1> DEFINE h == Head(daftar[t])
<1> DEFINE d == tugas[t].bayar
<1>1. CASE /\ CukupSisa(t, h)
           /\ daftar' = [daftar EXCEPT ![t] = Tail(@)]
           /\ Ke(t, "kunci")
           /\ UNCHANGED <<kunciVars, notaVars, mulai, tugas, salinan, foto, tulis, mulus>>
  <2>1. /\ UNCHANGED <<kunciVars, notaVars, mulus, nota, bayar>> /\ pc[t] = "sisa" /\ Jalan(t)
        /\ pc'[t] = "kunci" /\ daftar'[t] = Tail(daftar[t])
        /\ salinan'[t] = salinan[t] /\ tugas'[t] = tugas[t] /\ tulis'[t] = tulis[t]
        /\ \A u \in Sesi : u # t => SesiDiam(u)
    BY <1>1 DEF PeriksaSisa, Ke, notaVars, IInv, Bentuk, SesiDiam
  <2>2. TahuBayar(t) /\ TahuAlokasi(t) /\ tugas[t] \in Tugas
    BY <2>1, SiapBayar
  <2>3. /\ KunciSah' /\ Antre' /\ \A u \in Sesi : Lain(u)
        /\ \A k : MemegangX(t, k)' <=> MemegangX(t, k)
    BY <2>1, TanpaKunci
  <2>4. TahuBayar(t)' /\ \A a : Dijaga(t, a) => Dijaga(t, a)'
    BY <2>1, <2>2, <2>3 DEF TahuBayar, Dijaga
  <2>5. ASSUME Menerima(t) PROVE Dijaga(t, h)
    <3>1. MemegangX(t, KNota(h.nota))
      BY <2>1, Dapat DEF Kunci, IInv, InvSesi
    <3>2. salinan[t] = bayar[d]
      BY <2>2, <2>5 DEF TahuBayar, Menerima
    <3>3. QED BY <1>1, <3>1, <3>2 DEF CukupSisa, Dijaga
  <2>6. ASSUME Menerima(t)
        PROVE  /\ daftar'[t] \in Seq(Alokasi)
               /\ \A a \in ToSet(bayar[d].alokasi) : a \in ToSet(daftar'[t]) \/ Dijaga(t, a)
    <3>1. /\ daftar[t] \in Seq(Alokasi) /\ daftar[t] # <<>>
          /\ \A a \in ToSet(bayar[d].alokasi) : a \in ToSet(daftar[t]) \/ Dijaga(t, a)
      BY <2>1, <2>2, <2>6 DEF TahuAlokasi, IInv, InvSesi
    <3>2. /\ Tail(daftar[t]) \in Seq(Alokasi)
          /\ \A a \in ToSet(daftar[t]) : a = h \/ a \in ToSet(Tail(daftar[t]))
      BY <3>1, KepalaEkor
    <3>3. QED BY <2>1, <2>5, <2>6, <3>1, <3>2
  <2>7. TahuAlokasi(t)'
    BY <2>1, <2>4, <2>6 DEF TahuAlokasi, Menerima
  <2>8. InvSesi(t)'
    BY <2>1, <2>2, <2>3, <2>4, <2>7 DEF InvSesi, IInv
  <2>9. QED BY <2>1, <2>3, <2>8, LangkahSaja
<1>2. QED BY <1>1, UsaiGagal DEF PeriksaSisa

\* Every allocation has been checked when the payment is rewritten.
LEMMA LangkahUbah ==
  ASSUME IInv, NEW t \in Sesi, NEW aksi \in {"posting", "batal", "cair", "tolak"}, Ubah(t, aksi)
  PROVE  Hasil
<1> DEFINE d == tugas[t].bayar
<1>1. /\ UNCHANGED <<kunciVars, notaVars, mulus, nota, bayar>> /\ pc[t] = "kunci" /\ Jalan(t)
      /\ pc'[t] = "ulang" /\ daftar[t] = <<>> /\ tugas[t].aksi = aksi
      /\ salinan'[t] = salinan[t] /\ tugas'[t] = tugas[t] /\ tulis'[t] = tulis[t]
      /\ \A u \in Sesi : u # t => SesiDiam(u)
  BY DEF Ubah, Ke, notaVars, IInv, Bentuk, SesiDiam
<1>2. TahuBayar(t) /\ TahuAlokasi(t) /\ tugas[t] \in Tugas
  BY <1>1, SiapBayar
<1>3. /\ KunciSah' /\ Antre' /\ \A u \in Sesi : Lain(u)
      /\ \A k : MemegangX(t, k)' <=> MemegangX(t, k)
      /\ Jalan(t)'
  BY <1>1, TanpaKunci
<1>4. TahuBayar(t)' /\ \A a : Dijaga(t, a) => Dijaga(t, a)'
  BY <1>1, <1>2, <1>3 DEF TahuBayar, Dijaga
<1>5. ToSet(daftar[t]) = {}
  BY <1>1 DEF ToSet
<1>6. Menerima(t) => \A a \in ToSet(bayar[d].alokasi) : Dijaga(t, a)
  BY <1>1, <1>2, <1>5 DEF TahuAlokasi
<1>7. TahuAlokasi(t)'
  BY <1>1, <1>4, <1>6 DEF TahuAlokasi, Menerima
<1>8. InvSesi(t)'
  BY <1>1, <1>2, <1>3, <1>4, <1>7 DEF InvSesi, IInv
<1>9. QED BY <1>1, <1>3, <1>8, LangkahSaja

LEMMA LangkahHitungUlang ==
  ASSUME IInv, NEW t \in Sesi, HitungUlang(t)
  PROVE  Hasil
<1>1. /\ UNCHANGED <<notaVars, mulus, tugas, salinan, daftar>> /\ tulis'[t] = tulis[t]
      /\ bayar' = bayar /\ pc[t] = "ulang" /\ Jalan(t) /\ pc'[t] = "tulis"
      /\ foto'[t] \in StatusLunas
      /\ \A u \in Sesi : u # t => SesiDiam(u)
  BY DEF HitungUlang, Ke, notaVars, IInv, Bentuk, SesiDiam, InvSesi, StatusPembayaran, StatusLunas
<1>2. PICK n : n = Head(daftar[t])
  OBVIOUS
<1>3. /\ KunciSah' /\ Antre' /\ \A u \in Sesi : u # t => Lain(u)
      /\ Dipenuhi(t, Kunci(KNota(n)))'
      /\ TahuBayar(t)' /\ \A a : Dijaga(t, a) => Dijaga(t, a)'
      /\ \A w \in tulis[t] : MemegangX(t, KNota(w[1]))' /\ w[2] \in StatusLunas
  BY <1>1, <1>2, KunciNotaLagi DEF HitungUlang
<1>4. Dipenuhi(t, Kunci(KNota(Head(daftar[t]))))'
  BY <1>1, <1>2, <1>3 DEF Dipenuhi, Kunci, KNota
<1>5. TahuAlokasi(t)'
  <2>1. TahuAlokasi(t)
    BY <1>1, SiapBayar
  <2>2. QED BY <1>1, <1>3, <2>1 DEF TahuAlokasi, Menerima
<1>6. InvSesi(t)'
  BY <1>1, <1>3, <1>4, <1>5 DEF InvSesi, IInv
<1>7. QED BY <1>1, <1>3, <1>6, LangkahSaja

LEMMA LangkahTulisUlang ==
  ASSUME IInv, NEW t \in Sesi, TulisUlang(t)
  PROVE  Hasil
<1>1. /\ UNCHANGED <<kunciVars, notaVars, mulus, nota, bayar>> /\ pc[t] = "tulis" /\ Jalan(t)
      /\ pc'[t] = "ulang"
      /\ salinan'[t] = salinan[t] /\ tugas'[t] = tugas[t]
      /\ tulis'[t] = tulis[t] \cup {<<Head(daftar[t]), foto[t]>>}
      /\ \A u \in Sesi : u # t => SesiDiam(u)
  BY DEF TulisUlang, Ke, notaVars, IInv, Bentuk, SesiDiam
<1>2. TahuBayar(t) /\ TahuAlokasi(t) /\ tugas[t] \in Tugas
  BY <1>1, SiapBayar
<1>3. /\ KunciSah' /\ Antre' /\ \A u \in Sesi : Lain(u)
      /\ \A k : MemegangX(t, k)' <=> MemegangX(t, k)
      /\ Jalan(t)'
  BY <1>1, TanpaKunci
<1>4. TahuBayar(t)' /\ \A a : Dijaga(t, a) => Dijaga(t, a)'
  BY <1>1, <1>2, <1>3 DEF TahuBayar, Dijaga
<1>5. TahuAlokasi(t)'
  BY <1>1, <1>2, <1>4 DEF TahuAlokasi, Menerima
<1>6. \A w \in tulis'[t] : MemegangX(t, KNota(w[1]))' /\ w[2] \in StatusLunas
  <2>1. MemegangX(t, KNota(Head(daftar[t]))) /\ foto[t] \in StatusLunas
    BY <1>1, Dapat DEF Kunci, IInv, InvSesi
  <2>2. \A w \in tulis[t] : MemegangX(t, KNota(w[1])) /\ w[2] \in StatusLunas
    BY DEF IInv, InvSesi
  <2>3. QED BY <1>1, <1>3, <2>1, <2>2
<1>7. InvSesi(t)'
  BY <1>1, <1>2, <1>3, <1>4, <1>5, <1>6 DEF InvSesi
<1>8. QED BY <1>1, <1>3, <1>7, LangkahSaja

\* COMMIT of a transition: the payment's row, and the caches of notas it holds.
LEMMA SelesaiMenulis ==
  ASSUME IInv, NEW t \in Sesi, Selesai(t)
  PROVE  LET d == tugas[t].bayar
             b == bayar[d]
         IN  /\ bayar' \in [Bayar -> BarisBayar] /\ nota' \in [Nota -> BarisNota]
             /\ \A e \in Bayar : e # d => bayar'[e] = bayar[e]
             /\ bayar'[d].alokasi = b.alokasi /\ bayar'[d].pelanggan = b.pelanggan
             /\ bayar'[d].jumlah = b.jumlah /\ bayar'[d].dialokasikan = b.dialokasikan
             /\ bayar'[d].status # "TIADA"
             /\ Menerima(t) => \A a \in ToSet(b.alokasi) : Dijaga(t, a)
             /\ ~Menerima(t) => d \notin Efektif(bayar')
             /\ bayar'[d].status = "POSTED" => Menerima(t) \/ b.status = "POSTED"
             /\ \A n \in Nota : /\ ~MemegangX(t, KNota(n)) => nota'[n] = nota[n]
                                /\ nota'[n].status = nota[n].status /\ nota'[n].jenis = nota[n].jenis
                                /\ nota'[n].pelanggan = nota[n].pelanggan
                                /\ nota'[n].subtotal = nota[n].subtotal
                                /\ nota'[n].diskon = nota[n].diskon /\ nota'[n].total = nota[n].total
<1> DEFINE g == tugas[t]
<1> DEFINE d == g.bayar
<1> DEFINE b == bayar[d]
<1> DEFINE r == RekamBaru(g, b)
<1> DEFINE hasil(n) == {w[2] : w \in {x \in tulis[t] : x[1] = n}}
<1>1. /\ pc[t] = "ulang" /\ d \in Bayar /\ b \in BarisBayar /\ TahuBayar(t) /\ TahuAlokasi(t)
  BY SiapBayar DEF Selesai
<1>2. /\ g.aksi \in {"posting", "batal", "cair", "tolak"} /\ BolehBayar(g, b)
      /\ Menerima(t) => \A a \in ToSet(b.alokasi) : Dijaga(t, a)
  BY <1>1 DEF TahuAlokasi, TahuBayar
<1>3. /\ bayar' = [bayar EXCEPT ![d] = r]
      /\ nota' = [n \in Nota |-> IF hasil(n) = {} THEN nota[n]
                                 ELSE [nota[n] EXCEPT !.lunas = CHOOSE s \in hasil(n) : TRUE]]
  BY <1>1 DEF Selesai, IInv, TipeData
<1>4. /\ r \in BarisBayar /\ r.alokasi = b.alokasi /\ r.pelanggan = b.pelanggan
      /\ r.jumlah = b.jumlah /\ r.dialokasikan = b.dialokasikan /\ r.status # "TIADA"
      /\ r.status = "POSTED" => Menerima(t) \/ b.status = "POSTED"
      /\ ~Menerima(t) => r.status = "BATAL" \/ r.giro = "TOLAK"
  <2>1. CASE g.aksi = "posting"
    BY <1>1, <2>1 DEF RekamBaru, BarisBayar, StatusDok, Menerima
  <2>2. CASE g.aksi = "batal"
    BY <1>1, <2>2 DEF RekamBaru, BarisBayar, StatusDok, Menerima
  <2>3. CASE g.aksi = "cair"
    BY <1>1, <1>2, <2>3 DEF RekamBaru, BarisBayar, StatusGiro, Menerima, BolehBayar
  <2>4. CASE g.aksi = "tolak"
    BY <1>1, <1>2, <2>4 DEF RekamBaru, BarisBayar, StatusGiro, Menerima, BolehBayar
  <2>5. QED BY <1>2, <2>1, <2>2, <2>3, <2>4
<1> HIDE DEF r
<1>5. /\ bayar' \in [Bayar -> BarisBayar] /\ bayar'[d] = r
      /\ \A e \in Bayar : e # d => bayar'[e] = bayar[e]
      /\ ~Menerima(t) => d \notin Efektif(bayar')
  BY <1>1, <1>3, <1>4 DEF IInv, TipeData, Efektif
<1>6. \A w \in tulis[t] : MemegangX(t, KNota(w[1])) /\ w[2] \in StatusLunas
  BY DEF IInv, InvSesi
<1>7. ASSUME NEW n \in Nota
      PROVE  /\ nota'[n] \in BarisNota
             /\ ~MemegangX(t, KNota(n)) => nota'[n] = nota[n]
             /\ nota'[n].status = nota[n].status /\ nota'[n].jenis = nota[n].jenis
             /\ nota'[n].pelanggan = nota[n].pelanggan /\ nota'[n].subtotal = nota[n].subtotal
             /\ nota'[n].diskon = nota[n].diskon /\ nota'[n].total = nota[n].total
  <2>0. nota[n] \in BarisNota
    BY DEF IInv, TipeData
  <2>1. CASE hasil(n) = {}
    <3>1. nota'[n] = nota[n]
      BY <1>3, <2>1
    <3>2. QED BY <2>0, <3>1
  <2>2. CASE hasil(n) # {}
    <3>1. MemegangX(t, KNota(n))
      BY <1>6, <2>2
    <3>2. PICK s : s = CHOOSE x \in hasil(n) : TRUE
      OBVIOUS
    <3>3. s \in StatusLunas
      BY <1>6, <2>2, <3>2
    <3>4. nota'[n] = [nota[n] EXCEPT !.lunas = s]
      BY <1>3, <2>2, <3>2
    <3>5. QED BY <2>0, <3>1, <3>3, <3>4 DEF BarisNota
  <2>3. QED BY <2>1, <2>2
<1>8. nota' \in [Nota -> BarisNota]
  <2> HIDE DEF hasil
  <2>1. ASSUME NEW n \in Nota PROVE nota'[n] \in BarisNota
    BY <1>7
  <2>2. nota' = [n \in Nota |-> nota'[n]]
    BY <1>3
  <2>3. QED BY <2>1, <2>2
<1>9. QED BY <1>2, <1>4, <1>5, <1>7, <1>8

LEMMA LangkahSelesai ==
  ASSUME IInv, NEW t \in Sesi, Selesai(t)
  PROVE  Hasil
<1> DEFINE d == tugas[t].bayar
<1> DEFINE b == bayar[d]
<1>1. /\ d \in Bayar /\ b \in BarisBayar /\ Sekali(b.alokasi)
      /\ \A u \in Sesi : u # t => ~MemegangX(u, KBayar(d))
      /\ \A a \in ToSet(b.alokasi) : a.nota \in Nota /\ a.jumlah \in Nat
  BY SiapBayar, SekaliBenar DEF Selesai, BarisBayar
<1>2. /\ bayar' \in [Bayar -> BarisBayar] /\ nota' \in [Nota -> BarisNota]
      /\ \A e \in Bayar : e # d => bayar'[e] = bayar[e]
      /\ bayar'[d].alokasi = b.alokasi /\ bayar'[d].pelanggan = b.pelanggan
      /\ bayar'[d].jumlah = b.jumlah /\ bayar'[d].dialokasikan = b.dialokasikan
      /\ bayar'[d].status # "TIADA"
      /\ Menerima(t) => \A a \in ToSet(b.alokasi) : Dijaga(t, a)
      /\ ~Menerima(t) => d \notin Efektif(bayar')
      /\ bayar'[d].status = "POSTED" => Menerima(t) \/ b.status = "POSTED"
      /\ \A n \in Nota : /\ ~MemegangX(t, KNota(n)) => nota'[n] = nota[n]
                         /\ nota'[n].status = nota[n].status /\ nota'[n].jenis = nota[n].jenis
                         /\ nota'[n].pelanggan = nota[n].pelanggan
                         /\ nota'[n].subtotal = nota[n].subtotal
                         /\ nota'[n].diskon = nota[n].diskon /\ nota'[n].total = nota[n].total
  BY SelesaiMenulis
<1>3. TipeData /\ TipeData'
  BY <1>2 DEF IInv, TipeData
<1>4. ASSUME NEW n
      PROVE  /\ \A e \in Bayar \ {d} : Guna(bayar', e, n) = Guna(bayar, e, n)
             /\ Menerima(t) => Guna(bayar', d, n) <= JumlahKe(b, n)
             /\ ~Menerima(t) => Guna(bayar', d, n) <= Guna(bayar, d, n)
  <2>1. \A e \in Bayar \ {d} : Guna(bayar', e, n) = Guna(bayar, e, n)
    BY <1>2 DEF Guna, Efektif
  <2>2. JumlahKe(bayar'[d], n) = JumlahKe(b, n)
    BY <1>2 DEF JumlahKe
  <2>3. JumlahKe(b, n) \in Nat /\ Guna(bayar, d, n) \in Nat
    BY <1>1, <1>3, JumlahKeBenar, GunaAlami DEF TipeData
  <2>4. Guna(bayar', d, n) \in {0, JumlahKe(b, n)}
    BY <2>2 DEF Guna
  <2>5. ~Menerima(t) => Guna(bayar', d, n) = 0
    BY <1>2 DEF Guna
  <2>6. QED BY <2>1, <2>3, <2>4, <2>5
<1>5. ASSUME NEW n PROVE AlokasiKecuali(bayar', n, d) <= AlokasiKecuali(bayar, n, d)
  <2>1. \A e \in Bayar \ {d} : Guna(bayar', e, n) <= Guna(bayar, e, n)
    BY <1>3, <1>4, GunaAlami DEF TipeData
  <2>2. QED BY <1>1, <1>3, <2>1, EfektifTurun DEF TipeData
<1>6. TidakLebihTerima(nota', bayar')
  <2> SUFFICES ASSUME NEW n \in Nota PROVE AlokasiEfektif(bayar', n) <= nota'[n].total
    BY DEF TidakLebihTerima
  <2>1. /\ AlokasiEfektif(bayar', n) = Guna(bayar', d, n) + AlokasiKecuali(bayar', n, d)
        /\ AlokasiEfektif(bayar, n) = Guna(bayar, d, n) + AlokasiKecuali(bayar, n, d)
        /\ AlokasiKecuali(bayar', n, d) \in Nat /\ AlokasiKecuali(bayar, n, d) \in Nat
        /\ Guna(bayar', d, n) \in Nat /\ Guna(bayar, d, n) \in Nat
    BY <1>1, <1>3, EfektifBenar, GunaAlami DEF TipeData
  <2>2. /\ AlokasiEfektif(bayar, n) <= nota[n].total /\ nota'[n].total = nota[n].total
        /\ nota[n].total \in Nat
    BY <1>2, <1>3 DEF IInv, PiutangTerjaga, PiutangSah, TidakLebihTerima, TipeData, BarisNota
  <2>3. CASE ~Menerima(t)
    BY <1>4, <1>5, <2>1, <2>2, <2>3
  <2>4. CASE Menerima(t) /\ \E a \in ToSet(b.alokasi) : a.nota = n
    <3>1. PICK a \in ToSet(b.alokasi) : a.nota = n
      BY <2>4
    <3>2. a.jumlah <= nota[n].total - AlokasiKecuali(bayar, n, d) /\ a.jumlah \in Nat
      BY <1>1, <1>2, <2>4, <3>1 DEF Dijaga
    <3>3. JumlahKe(b, n) = a.jumlah
      BY <1>1, <3>1, JumlahKeBenar
    <3>4. Guna(bayar', d, n) <= a.jumlah
      BY <1>4, <2>4, <3>3
    <3>5. QED BY <1>5, <2>1, <2>2, <3>2, <3>4
  <2>5. CASE Menerima(t) /\ \A a \in ToSet(b.alokasi) : a.nota # n
    <3>1. JumlahKe(b, n) = 0
      BY <1>1, <2>5, JumlahKeBenar
    <3>2. Guna(bayar', d, n) <= 0
      BY <1>4, <2>5, <3>1
    <3>3. QED BY <1>5, <2>1, <2>2, <3>2
  <2>6. QED BY <2>3, <2>4, <2>5
<1>7. NotaTerjaga(nota', bayar')
  <2> SUFFICES ASSUME NEW e \in Bayar, bayar'[e].status = "POSTED", NEW a \in ToSet(bayar'[e].alokasi)
               PROVE  /\ nota'[a.nota].status = "POSTED" /\ nota'[a.nota].jenis = "KREDIT"
                      /\ nota'[a.nota].pelanggan = bayar'[e].pelanggan
    BY DEF NotaTerjaga
  <2>1. a.nota \in Nota
    BY <1>2, TipeAlokasi
  <2>2. CASE e = d /\ Menerima(t)
    BY <1>2, <2>1, <2>2 DEF Dijaga
  <2>3. CASE e # d \/ ~Menerima(t)
    <3>1. bayar[e].status = "POSTED" /\ a \in ToSet(bayar[e].alokasi)
          /\ bayar'[e].pelanggan = bayar[e].pelanggan
      BY <1>2, <2>3
    <3>2. QED BY <1>2, <2>1, <3>1 DEF IInv, PiutangTerjaga, PiutangSah, NotaTerjaga
  <2>4. QED BY <2>2, <2>3
<1>8. KepalaSetuju(nota', bayar')
  <2>1. \A e \in Bayar : /\ bayar'[e].alokasi = bayar[e].alokasi /\ bayar'[e].jumlah = bayar[e].jumlah
                         /\ bayar'[e].dialokasikan = bayar[e].dialokasikan
    BY <1>2
  <2>2. QED BY <1>2, <2>1 DEF IInv, PiutangTerjaga, PiutangSah, KepalaSetuju
<1>9. ASSUME NEW u \in Sesi, u # t PROVE Utuh(u)
  <2>1. ASSUME NEW n \in Nota, MemegangX(u, KNota(n))
        PROVE  /\ nota'[n] = nota[n]
               /\ \A e \in Bayar : /\ Guna(bayar', e, n) <= Guna(bayar, e, n)
                                   /\ Menunjuk(bayar', e, n) => Menunjuk(bayar, e, n)
    <3>1. ~MemegangX(t, KNota(n))
      BY <1>9, <2>1, PemegangTunggal DEF IInv
    <3>2. Menerima(t) => \A a \in ToSet(b.alokasi) : a.nota # n
      BY <1>2, <3>1 DEF Dijaga
    <3>3. \A e \in Bayar : Guna(bayar, e, n) \in Nat
      BY <1>3, GunaAlami DEF TipeData
    <3>4. Guna(bayar', d, n) <= Guna(bayar, d, n)
      <4>1. CASE Menerima(t)
        <5>1. JumlahKe(b, n) = 0 /\ Guna(bayar', d, n) <= JumlahKe(b, n)
          BY <1>1, <1>4, <3>2, <4>1, JumlahKeBenar
        <5>2. Guna(bayar', d, n) \in Nat
          BY <1>1, <1>3, GunaAlami DEF TipeData
        <5>3. QED BY <1>1, <3>3, <5>1, <5>2
      <4>2. QED BY <1>4, <4>1
    <3>5. \A e \in Bayar : Guna(bayar', e, n) <= Guna(bayar, e, n)
      BY <1>4, <3>3, <3>4
    <3>6. \A e \in Bayar : Menunjuk(bayar', e, n) => Menunjuk(bayar, e, n)
      BY <1>2, <3>2 DEF Menunjuk
    <3>7. QED BY <1>2, <3>1, <3>5, <3>6
  <2>2. \A e \in Bayar : MemegangX(u, KBayar(e)) => bayar'[e] = bayar[e]
    BY <1>1, <1>2, <1>9
  <2>3. QED BY <2>1, <2>2 DEF Utuh
<1>10. PICK x : x = Menambah
  OBVIOUS
<1>11. x \in BOOLEAN /\ (x \/ Turun)
  BY <1>3, <1>10, TidakMenambah
<1>12. Bersih(t, x)
  BY <1>10 DEF Selesai
<1>13. PiutangTerjaga'
  BY <1>6, <1>7, <1>8 DEF PiutangTerjaga, PiutangSah
<1>14. \A e \in Bayar : bayar[e].status # "TIADA" => bayar'[e].status # "TIADA"
  BY <1>2
<1>15. QED BY <1>3, <1>9, <1>11, <1>12, <1>13, <1>14, UsaiPiutang

-----------------------------------------------------------------------------
(* The theorems.                                                           *)
LEMMA BentukTetap ==
  ASSUME Bentuk, [NextPiutang]_varsPiutang
  PROVE  Bentuk'
<1>1. ASSUME NEW t \in Sesi, NEW x, Bersih(t, x) PROVE Bentuk'
  BY <1>1 DEF Bersih, Bentuk
<1>2. ASSUME NEW t \in Sesi, Gagal(t) PROVE Bentuk'
  BY <1>1, <1>2 DEF Gagal
<1>3. ASSUME NEW t \in Sesi, Mulai(t) \/ BuatBayar(t) PROVE Bentuk'
  BY <1>3 DEF Mulai, BuatBayar, Ke, Bentuk
<1>4. ASSUME NEW t \in Sesi, BacaNota(t) PROVE Bentuk'
  BY <1>2, <1>4 DEF BacaNota, Ke, Bentuk
<1>5. ASSUME NEW t \in Sesi, PeriksaPlafon(t) PROVE Bentuk'
  BY <1>2, <1>5 DEF PeriksaPlafon, Ke, Bentuk
<1>6. ASSUME NEW t \in Sesi, UbahNota(t) PROVE Bentuk'
  BY <1>1, <1>2, <1>6 DEF UbahNota
<1>7. ASSUME NEW t \in Sesi, GantiDetail(t) PROVE Bentuk'
  BY <1>1, <1>2, <1>7 DEF GantiDetail
<1>8. ASSUME NEW t \in Sesi, PostingNota(t) PROVE Bentuk'
  BY <1>1, <1>8 DEF PostingNota
<1>9. ASSUME NEW t \in Sesi, BatalNota(t) PROVE Bentuk'
  BY <1>1, <1>9 DEF BatalNota
<1>10. ASSUME NEW t \in Sesi, BacaBayar(t) PROVE Bentuk'
  BY <1>2, <1>10 DEF BacaBayar, Ke, Bentuk
<1>11. ASSUME NEW t \in Sesi, UbahBayar(t) PROVE Bentuk'
  BY <1>1, <1>11 DEF UbahBayar
<1>12. ASSUME NEW t \in Sesi, KunciNota(t) PROVE Bentuk'
  BY <1>12 DEF KunciNota, Ke, Bentuk
<1>13. ASSUME NEW t \in Sesi, PeriksaSisa(t) PROVE Bentuk'
  BY <1>2, <1>13 DEF PeriksaSisa, Ke, Bentuk
<1>14. ASSUME NEW t \in Sesi, TulisAlokasi(t) PROVE Bentuk'
  BY <1>1, <1>2, <1>14 DEF TulisAlokasi
<1>15. ASSUME NEW t \in Sesi, NEW aksi, Ubah(t, aksi) PROVE Bentuk'
  BY <1>15 DEF Ubah, Ke, Bentuk
<1>16. ASSUME NEW t \in Sesi, HitungUlang(t) PROVE Bentuk'
  BY <1>16 DEF HitungUlang, Ke, Bentuk
<1>17. ASSUME NEW t \in Sesi, TulisUlang(t) PROVE Bentuk'
  BY <1>17 DEF TulisUlang, Ke, Bentuk
<1>18. ASSUME NEW t \in Sesi, Selesai(t) PROVE Bentuk'
  BY <1>1, <1>18 DEF Selesai
<1>19. ASSUME NEW n \in Nota, BuatNota(n) PROVE Bentuk'
  BY <1>19 DEF BuatNota, Bentuk
<1>20. ASSUME UNCHANGED varsPiutang PROVE Bentuk'
  BY <1>20 DEF varsPiutang, Bentuk
<1>21. QED
  BY <1>2, <1>3, <1>4, <1>5, <1>6, <1>7, <1>8, <1>9, <1>10, <1>11, <1>12, <1>13, <1>14, <1>15,
     <1>16, <1>17, <1>18, <1>19, <1>20
    DEF NextPiutang, LangkahNota, LangkahBayar, PostingBayar, BatalBayar, CairkanGiro, TolakGiro,
        Putus, DiamPiutang

LEMMA AwalBenar == InitPiutang => IInv
<1> SUFFICES ASSUME InitPiutang PROVE IInv
  OBVIOUS
<1>1. TipeData
  BY AsumsiPiutang DEF AsumsiPiutang, InitPiutang, TipeData
<1>2. Bentuk
  BY DEF InitPiutang, Bentuk
<1>3. KunciSah
  BY KunciAwal DEF InitPiutang
<1>4. Antre
  BY DEF InitPiutang, InitKunci, Antre
<1>5. PiutangTerjaga
  BY RiwayatPiutang DEF InitPiutang, PiutangTerjaga
<1>6. MulusBenar
  BY DEF InitPiutang, MulusBenar
<1>7. \A t \in Sesi : InvSesi(t)
  BY DEF InitPiutang, InitKunci, InvSesi, Jalan
<1>8. QED BY <1>1, <1>2, <1>3, <1>4, <1>5, <1>6, <1>7 DEF IInv

LEMMA LangkahDiam ==
  ASSUME IInv, UNCHANGED varsPiutang
  PROVE  Hasil
<1>1. /\ UNCHANGED notaVars /\ UNCHANGED kunciVars /\ UNCHANGED bayar /\ mulus' = mulus
      /\ \A u \in Sesi : SesiDiam(u)
  BY DEF varsPiutang, notaVars, SesiDiam
<1>2. TipeData' /\ PiutangTerjaga' /\ Turun /\ \A u \in Sesi : Utuh(u)
  BY <1>1, DataDiam
<1>3. KunciSah' /\ Antre' /\ \A u \in Sesi : Lain(u)
  BY <1>1, TanpaKunci
<1>4. SemuaTahu'
  BY <1>1, <1>2, <1>3, SesiLain DEF SemuaTahu, IInv
<1>5. MulusBenar'
  <2> SUFFICES ASSUME NEW u \in mulus
               PROVE  u \in Sesi /\ pc'[u] = "simpan" /\ tugas'[u].aksi = "posting" /\ CukupUntuk(u)'
    BY <1>1 DEF MulusBenar
  <2>1. u \in Sesi /\ pc[u] = "simpan" /\ tugas[u].aksi = "posting" /\ CukupUntuk(u) /\ SesiDiam(u)
    BY <1>1 DEF IInv, MulusBenar
  <2>2. CukupUntuk(u)'
    BY <1>2, <2>1, CukupTetap DEF SesiDiam
  <2>3. QED BY <2>1, <2>2 DEF SesiDiam
<1>6. QED BY <1>2, <1>3, <1>4, <1>5 DEF Hasil

LEMMA Induktif == IInv /\ [NextPiutang]_varsPiutang => IInv'
<1> SUFFICES ASSUME IInv, [NextPiutang]_varsPiutang PROVE IInv'
  OBVIOUS
<1>1. ASSUME NEW t \in Sesi, LangkahNota(t) PROVE Hasil
  BY <1>1, LangkahBacaNota, LangkahPlafon, LangkahUbahNota, LangkahGantiDetail,
     LangkahPostingNota, LangkahBatalNota DEF LangkahNota
<1>2. ASSUME NEW t \in Sesi, LangkahBayar(t) PROVE Hasil
  BY <1>2, LangkahBuatBayar, LangkahBacaBayar, LangkahUbahBayar, LangkahKunciNota,
     LangkahPeriksaSisa, LangkahTulisAlokasi, LangkahUbah, LangkahHitungUlang,
     LangkahTulisUlang, LangkahSelesai
    DEF LangkahBayar, PostingBayar, BatalBayar, CairkanGiro, TolakGiro
<1>3. ASSUME NEW t \in Sesi, Mulai(t) PROVE Hasil
  BY <1>3, LangkahMulai
<1>4. ASSUME NEW t \in Sesi, Putus(t) PROVE Hasil
  BY <1>4, UsaiGagal DEF Putus
<1>5. ASSUME NEW n \in Nota, BuatNota(n) PROVE Hasil
  BY <1>5, LangkahBuatNota
<1>6. ASSUME UNCHANGED varsPiutang PROVE Hasil
  BY <1>6, LangkahDiam
<1>7. Hasil
  BY <1>1, <1>2, <1>3, <1>4, <1>5, <1>6 DEF NextPiutang, DiamPiutang
<1>8. Bentuk'
  BY BentukTetap DEF IInv
<1>9. QED BY <1>7, <1>8 DEF Hasil, SemuaTahu, IInv

\* Whatever the notas, payments and limits are and however many sessions run:
\* no nota is over-received, none is cancelled or edited under a payment, and
\* headers and lines agree.
THEOREM PiutangSelaluTerjaga == SpecPiutang => []PiutangTerjaga
<1>1. IInv => PiutangTerjaga
  BY DEF IInv
<1>2. QED BY <1>1, AwalBenar, Induktif, PTL DEF SpecPiutang

\* A posting whose limit check still holds keeps the customer within it: the
\* nota, a draft until now, adds no more than its total.
LEMMA PostingDalamPlafon ==
  ASSUME IInv, NEW t \in Sesi, t \in mulus, PostingNota(t),
         salinan[t].jenis = "KREDIT", salinan[t].pelanggan \in DOMAIN Plafon
  PROVE  PiutangBerjalan(nota', bayar', salinan[t].pelanggan) <= Plafon[salinan[t].pelanggan]
<1> DEFINE n == tugas[t].nota
<1> DEFINE p == salinan[t].pelanggan
<1> DEFINE f == [m \in Nota |-> Utang(nota, bayar, p, m)]
<1> DEFINE g == [m \in Nota |-> Utang(nota', bayar', p, m)]
<1>1. /\ tugas[t].aksi = "posting" /\ PiutangBerjalan(nota, bayar, p) + salinan[t].total <= Plafon[p]
  BY DEF IInv, MulusBenar, CukupUntuk
<1>2. /\ n \in Nota /\ salinan[t] = nota[n] /\ nota[n] \in BarisNota /\ nota[n].status = "DRAFT"
  BY <1>1, SiapNota DEF PostingNota
<1>3. /\ nota' = [nota EXCEPT ![n] = NotaTerposting(t)] /\ bayar' = bayar
      /\ NotaTerposting(t) \in BarisNota /\ NotaTerposting(t).total = nota[n].total
  BY PostingMenulis DEF PostingNota
<1>4. /\ nota' \in [Nota -> BarisNota] /\ nota'[n].total = nota[n].total
      /\ \A m \in Nota : m # n => nota'[m] = nota[m]
      /\ nota \in [Nota -> BarisNota] /\ bayar \in [Bayar -> BarisBayar]
  BY <1>2, <1>3 DEF IInv, TipeData
<1>5. f[n] = 0 /\ g[n] <= nota[n].total /\ nota[n].total \in Nat
  <2>1. f[n] = 0
    BY <1>2 DEF Utang
  <2>2. nota[n].total \in Nat /\ AlokasiEfektif(bayar, n) \in Nat
    BY <1>2, <1>4, EfektifBenar DEF BarisNota
  <2>3. g[n] \in {nota[n].total - AlokasiEfektif(bayar, n), 0}
    BY <1>2, <1>3, <1>4 DEF Utang
  <2> HIDE DEF f, g
  <2>4. QED BY <2>1, <2>2, <2>3
<1>6. /\ \A m \in Nota : f[m] \in Int /\ g[m] \in Int
      /\ \A m \in Nota \ {n} : g[m] = f[m]
  <2>1. \A m \in Nota : f[m] \in Int
    BY <1>4, UtangBulat
  <2>2. \A m \in Nota : g[m] \in Int
    BY <1>3, <1>4, UtangBulat
  <2>3. \A m \in Nota \ {n} : g[m] = f[m]
    BY <1>3, <1>4 DEF Utang
  <2> HIDE DEF f, g
  <2>4. QED BY <2>1, <2>2, <2>3
<1>7. PiutangBerjalan(nota, bayar, p) = Jml(f, Nota) /\ PiutangBerjalan(nota', bayar', p) = Jml(g, Nota)
  <2>1. PiutangBerjalan(nota, bayar, p) = Jml(f, Nota)
    BY <1>4, BerjalanBenar
  <2>2. bayar' \in [Bayar -> BarisBayar]
    BY <1>3, <1>4
  <2> HIDE DEF p
  <2>3. PiutangBerjalan(nota', bayar', p) = Jml(g, Nota)
    BY <1>4, <2>2, BerjalanBenar
  <2>4. QED BY <2>1, <2>3
<1>8. IsFiniteSet(Nota) /\ IsFiniteSet(Nota \ {n})
  BY AsumsiPiutang, FS_Subset DEF AsumsiPiutang
<1>9. Plafon[p] \in Nat
  BY AsumsiPiutang DEF AsumsiPiutang
<1> HIDE DEF f, g, n
<1>10. Jml(f, Nota) = f[n] + Jml(f, Nota \ {n}) /\ Jml(g, Nota) = g[n] + Jml(g, Nota \ {n})
  BY <1>2, <1>6, <1>8, JmlAmbil
<1>11. Jml(g, Nota \ {n}) <= Jml(f, Nota \ {n})
  BY <1>6, <1>8, JmlNaik
<1>12. /\ Jml(g, Nota \ {n}) \in Int /\ Jml(f, Nota \ {n}) \in Int
  BY <1>6, <1>8, JmlBulat
<1>13. QED BY <1>1, <1>2, <1>5, <1>6, <1>7, <1>9, <1>10, <1>11, <1>12

\* A session only moves itself, and the session of a posting that has been
\* checked only leaves by it or without having written.
LEMMA KeluarPosting ==
  ASSUME IInv, NextPiutang, NEW t \in Sesi, t \in mulus, pc'[t] = "idle", nota' # nota
  PROVE  PostingNota(t)
<1>0. pc[t] = "simpan" /\ tugas[t].aksi = "posting" /\ TentangNota(tugas[t])
  <2>1. pc[t] = "simpan" /\ tugas[t].aksi = "posting"
    BY DEF IInv, MulusBenar
  <2>2. QED BY <2>1 DEF IInv, InvSesi, TahuNota
<1>1. ASSUME NEW u \in Sesi, NEW x, Bersih(u, x), u # t PROVE FALSE
  BY <1>0, <1>1 DEF Bersih, IInv, Bentuk
<1>2. ASSUME NEW u \in Sesi, NEW l, Ke(u, l), l # "idle" PROVE FALSE
  BY <1>0, <1>2 DEF Ke, IInv, Bentuk
<1>3. ASSUME NEW u \in Sesi, Gagal(u) PROVE FALSE
  BY <1>3 DEF Gagal, notaVars
<1>4. ASSUME NEW u \in Sesi, LangkahBayar(u) PROVE FALSE
  <2>1. ~(BuatBayar(u) \/ KunciNota(u) \/ HitungUlang(u) \/ TulisUlang(u))
    BY <1>2 DEF BuatBayar, KunciNota, HitungUlang, TulisUlang
  <2>2. ~(BacaBayar(u) \/ PeriksaSisa(u))
    BY <1>2, <1>3 DEF BacaBayar, PeriksaSisa
  <2>3. \A aksi : ~Ubah(u, aksi)
    BY <1>2 DEF Ubah
  <2>4. ~UbahBayar(u) /\ ~TulisAlokasi(u)
    BY <1>3 DEF UbahBayar, TulisAlokasi
  <2>5. ~Selesai(u)
    BY <1>0, <1>1 DEF Selesai
  <2>6. QED BY <1>4, <2>1, <2>2, <2>3, <2>4, <2>5
              DEF LangkahBayar, PostingBayar, BatalBayar, CairkanGiro, TolakGiro
<1>5. ASSUME NEW u \in Sesi, LangkahNota(u) PROVE u = t /\ PostingNota(t)
  <2>1. ~BacaNota(u) /\ ~PeriksaPlafon(u)
    BY <1>2, <1>3 DEF BacaNota, PeriksaPlafon
  <2>2. UbahNota(u) \/ GantiDetail(u) \/ PostingNota(u) \/ BatalNota(u)
    BY <1>5, <2>1 DEF LangkahNota
  <2>3. u = t
    BY <1>1, <1>3, <2>2 DEF UbahNota, GantiDetail, PostingNota, BatalNota
  <2>4. QED BY <1>0, <2>2, <2>3 DEF UbahNota, GantiDetail, BatalNota
<1>6. ASSUME NEW u \in Sesi, Mulai(u) PROVE FALSE
  BY <1>6 DEF Mulai, notaVars
<1>7. ASSUME NEW n \in Nota, BuatNota(n) PROVE FALSE
  BY <1>0, <1>7 DEF BuatNota
<1>8. ~DiamPiutang
  BY DEF DiamPiutang, varsPiutang, notaVars
<1>9. QED BY <1>3, <1>4, <1>5, <1>6, <1>7, <1>8 DEF NextPiutang, Putus

\* For every customer and limit: a nota on credit whose limit check no other
\* commit overtook is posted within the limit.
THEOREM PlafonSelaluSendiri == SpecPiutang => PlafonSendiri
<1>1. ASSUME IInv, [NextPiutang]_varsPiutang
      PROVE  [nota' # nota => \A t \in Sesi : t \in mulus /\ pc[t] = "simpan" /\ pc'[t] = "idle" =>
                LET p == salinan[t].pelanggan IN
                salinan[t].jenis = "KREDIT" /\ p \in DOMAIN Plafon =>
                  PiutangBerjalan(nota', bayar', p) <= Plafon[p]]_varsPiutang
  <2> SUFFICES ASSUME NextPiutang, nota' # nota, NEW t \in Sesi, t \in mulus, pc'[t] = "idle",
                      salinan[t].jenis = "KREDIT", salinan[t].pelanggan \in DOMAIN Plafon
               PROVE  PiutangBerjalan(nota', bayar', salinan[t].pelanggan) <= Plafon[salinan[t].pelanggan]
    BY <1>1
  <2>1. PostingNota(t)
    BY <1>1, KeluarPosting
  <2>2. QED BY <1>1, <2>1, PostingDalamPlafon
<1>2. QED BY <1>1, AwalBenar, Induktif, PTL DEF SpecPiutang, PlafonSendiri
-----------------------------------------------------------------------------
(* What a posting or clearing writes into the caches.                      *)
\* The notas a payment points at.
NotaIsi(d) == {a.nota : a \in ToSet(bayar[d].alokasi)}

\* The notas t has gone through once more.
Tertulis(t) == {w[1] : w \in tulis[t]}

\* A session that goes through its notas once more has each of them either
\* before it or behind it, and what it read of them is still what its own
\* transition makes of them.
Segar(t) ==
  LET d == tugas[t].bayar IN
  /\ pc[t] \notin {"ulang", "tulis"} => tulis[t] = {}
  /\ pc[t] \in {"ulang", "tulis"} =>
       /\ daftar[t] \in Seq(Nota)
       /\ ToSet(daftar[t]) \cup Tertulis(t) = NotaIsi(d)
       /\ Menerima(t) => \A w \in tulis[t] : w[2] = StatusPembayaran(Lihat(t), w[1], nota[w[1]])
  /\ pc[t] = "tulis" =>
       /\ daftar[t] # <<>>
       /\ Menerima(t) => foto[t] = StatusPembayaran(Lihat(t), Head(daftar[t]), nota[Head(daftar[t])])

SegarInv == \A t \in Sesi : Segar(t)

\* What u holds, others leave as it counts.
Setia(u) ==
  /\ \A n \in Nota : MemegangX(u, KNota(n)) /\ nota[n].status = "POSTED" =>
       /\ nota'[n].jenis = nota[n].jenis /\ nota'[n].total = nota[n].total
       /\ \A e \in Bayar : Guna(bayar', e, n) = Guna(bayar, e, n)
  /\ \A d \in Bayar : MemegangX(u, KBayar(d)) => bayar'[d] = bayar[d]

\* The row a transition of t leaves, and the payments as t sees them.
LEMMA RekamBenar ==
  ASSUME IInv, NEW t \in Sesi, pc[t] \in {"ulang", "tulis"}
  PROVE  LET d == tugas[t].bayar IN
         /\ RekamBaru(tugas[t], bayar[d]) \in BarisBayar
         /\ RekamBaru(tugas[t], bayar[d]).alokasi = bayar[d].alokasi
         /\ Lihat(t) = [bayar EXCEPT ![d] = RekamBaru(tugas[t], bayar[d])]
         /\ Lihat(t) \in [Bayar -> BarisBayar]
<1> DEFINE g == tugas[t]
<1> DEFINE d == g.bayar
<1> DEFINE b == bayar[d]
<1> DEFINE r == RekamBaru(g, b)
<1>1. d \in Bayar /\ b \in BarisBayar /\ g.aksi \in {"posting", "batal", "cair", "tolak"}
  BY SiapBayar DEF TahuAlokasi
<1>2. r \in BarisBayar /\ r.alokasi = b.alokasi
  <2>1. CASE g.aksi = "posting"
    BY <1>1, <2>1 DEF RekamBaru, BarisBayar, StatusDok
  <2>2. CASE g.aksi = "batal"
    BY <1>1, <2>2 DEF RekamBaru, BarisBayar, StatusDok
  <2>3. CASE g.aksi = "cair"
    BY <1>1, <2>3 DEF RekamBaru, BarisBayar, StatusGiro
  <2>4. CASE g.aksi = "tolak"
    BY <1>1, <2>4 DEF RekamBaru, BarisBayar, StatusGiro
  <2>5. QED BY <1>1, <2>1, <2>2, <2>3, <2>4
<1>3. Lihat(t) = [bayar EXCEPT ![d] = r]
  BY <1>1 DEF Lihat, IInv, TipeData
<1> HIDE DEF r
<1>4. Lihat(t) \in [Bayar -> BarisBayar]
  BY <1>1, <1>2, <1>3 DEF IInv, TipeData
<1>5. QED BY <1>2, <1>3, <1>4 DEF r

\* The cache only depends on what has been received and on the nota's terms.
LEMMA StatusSama ==
  ASSUME NEW B \in [Bayar -> BarisBayar], NEW C \in [Bayar -> BarisBayar], NEW n, NEW x, NEW y,
         x.jenis = y.jenis, x.total = y.total, \A e \in Bayar : Guna(C, e, n) = Guna(B, e, n)
  PROVE  StatusPembayaran(C, n, y) = StatusPembayaran(B, n, x)
<1>1. AlokasiEfektif(C, n) = AlokasiEfektif(B, n)
  BY EfektifTetap
<1>2. QED BY <1>1 DEF StatusPembayaran

\* A posting or clearing holds every nota it points at.
LEMMA PegangIsi ==
  ASSUME IInv, NEW t \in Sesi, pc[t] \in {"ulang", "tulis"}, Menerima(t), NEW n \in NotaIsi(tugas[t].bayar)
  PROVE  n \in Nota /\ MemegangX(t, KNota(n)) /\ nota[n].status = "POSTED"
<1> DEFINE d == tugas[t].bayar
<1>1. PICK a \in ToSet(bayar[d].alokasi) : a.nota = n
  BY DEF NotaIsi
<1>2. a.nota \in Nota /\ TahuAlokasi(t)
  BY SiapBayar
<1>3. Dijaga(t, a)
  BY <1>1, <1>2 DEF TahuAlokasi
<1>4. QED BY <1>1, <1>2, <1>3 DEF Dijaga

\* What u has read stays good while u does not move.
LEMMA SegarLain ==
  ASSUME IInv, IInv', NEW u \in Sesi, Segar(u), SesiDiam(u), Setia(u)
  PROVE  Segar(u)'
<1>1. PICK d : d = tugas[u].bayar
  OBVIOUS
<1>2. /\ pc'[u] = pc[u] /\ tugas'[u] = tugas[u] /\ daftar'[u] = daftar[u] /\ foto'[u] = foto[u]
      /\ tulis'[u] = tulis[u]
  BY DEF SesiDiam
<1>3. CASE pc[u] \notin {"ulang", "tulis"}
  BY <1>2, <1>3 DEF Segar
<1>4. CASE pc[u] \in {"ulang", "tulis"}
  <2>1. d \in Bayar /\ MemegangX(u, KBayar(d)) /\ bayar'[d] = bayar[d]
    BY <1>1, <1>4, SiapBayar DEF Setia
  <2>2. NotaIsi(d)' = NotaIsi(d) /\ tugas'[u].bayar = d
    BY <1>1, <1>2, <2>1 DEF NotaIsi
  <2>3. PICK r : r = RekamBaru(tugas[u], bayar[d])
    OBVIOUS
  <2>4. /\ Lihat(u) = [bayar EXCEPT ![d] = r] /\ Lihat(u) \in [Bayar -> BarisBayar]
    BY <1>1, <1>4, <2>3, RekamBenar
  <2>5. /\ Lihat(u)' = [bayar' EXCEPT ![d] = r] /\ Lihat(u)' \in [Bayar -> BarisBayar]
    <3>1. r \in BarisBayar /\ bayar \in [Bayar -> BarisBayar] /\ bayar' \in [Bayar -> BarisBayar]
      BY <1>1, <1>4, <2>3, RekamBenar DEF IInv, TipeData
    <3>2. Lihat(u)' = [bayar' EXCEPT ![tugas'[u].bayar] = RekamBaru(tugas'[u], @)]
      BY DEF Lihat
    <3>3. Lihat(u)' = [bayar' EXCEPT ![d] = r]
      BY <1>2, <2>1, <2>2, <2>3, <3>1, <3>2
    <3>4. QED BY <2>1, <3>1, <3>3
  <2>6. ASSUME Menerima(u), NEW n \in NotaIsi(d)
        PROVE  StatusPembayaran(Lihat(u)', n, nota'[n]) = StatusPembayaran(Lihat(u), n, nota[n])
    <3>1. n \in Nota /\ MemegangX(u, KNota(n)) /\ nota[n].status = "POSTED"
      BY <1>1, <1>4, <2>6, PegangIsi
    <3>2. /\ nota'[n].jenis = nota[n].jenis /\ nota'[n].total = nota[n].total
          /\ \A e \in Bayar : Guna(bayar', e, n) = Guna(bayar, e, n)
      BY <3>1 DEF Setia
    <3>3. bayar \in [Bayar -> BarisBayar] /\ bayar' \in [Bayar -> BarisBayar]
      BY DEF IInv, TipeData
    <3>4. PICK C : C = Lihat(u)'
      OBVIOUS
    <3>5. PICK B : B = Lihat(u)
      OBVIOUS
    <3>6. \A e \in Bayar : Guna(C, e, n) = Guna(B, e, n)
      <4> SUFFICES ASSUME NEW e \in Bayar PROVE Guna(C, e, n) = Guna(B, e, n)
        OBVIOUS
      <4>1. CASE e = d
        BY <2>1, <2>4, <2>5, <3>3, <3>4, <3>5, <4>1 DEF Guna, Efektif
      <4>2. CASE e # d
        <5>1. C[e] = bayar'[e] /\ B[e] = bayar[e]
          BY <2>4, <2>5, <3>3, <3>4, <3>5, <4>2
        <5>2. Guna(C, e, n) = Guna(bayar', e, n) /\ Guna(B, e, n) = Guna(bayar, e, n)
          BY <5>1 DEF Guna, Efektif
        <5>3. QED BY <3>2, <5>2
      <4>3. QED BY <4>1, <4>2
    <3>7. C \in [Bayar -> BarisBayar] /\ B \in [Bayar -> BarisBayar]
      BY <2>4, <2>5, <3>4, <3>5
    <3>8. StatusPembayaran(C, n, nota'[n]) = StatusPembayaran(B, n, nota[n])
      BY <3>2, <3>6, <3>7, StatusSama
    <3>9. QED BY <3>4, <3>5, <3>8
  <2>7. daftar[u] \in Seq(Nota) /\ ToSet(daftar[u]) \cup Tertulis(u) = NotaIsi(d)
    BY <1>1, <1>4 DEF Segar
  <2>8. \A w \in tulis[u] : w[1] \in NotaIsi(d)
    BY <2>7 DEF Tertulis
  <2>9. ASSUME Menerima(u), NEW w \in tulis[u]
        PROVE  w[2] = StatusPembayaran(Lihat(u)', w[1], nota'[w[1]])
    BY <1>4, <2>6, <2>8, <2>9 DEF Segar
  <2>10. ASSUME Menerima(u), pc[u] = "tulis"
         PROVE  foto[u] = StatusPembayaran(Lihat(u)', Head(daftar[u]), nota'[Head(daftar[u])])
    <3>1. Head(daftar[u]) \in NotaIsi(d)
      BY <2>7, <2>10, KepalaEkor DEF Segar
    <3>2. QED BY <2>6, <2>10, <3>1 DEF Segar
  <2>11. Menerima(u)' <=> Menerima(u)
    BY <1>2 DEF Menerima
  <2>12. Tertulis(u)' = Tertulis(u)
    BY <1>2 DEF Tertulis
  <2>13. QED BY <1>2, <1>4, <2>2, <2>7, <2>9, <2>10, <2>11, <2>12 DEF Segar
<1>5. QED BY <1>3, <1>4
-----------------------------------------------------------------------------
(* The steps of the others, and the session's own.                         *)
LEMMA SetiaDiam ==
  ASSUME IInv, nota' = nota, bayar' = bayar, NEW u \in Sesi
  PROVE  Setia(u)
BY DEF Setia

\* A nota is rewritten that u does not hold.
LEMMA SetiaNota ==
  ASSUME IInv, NEW n, bayar' = bayar, \A m \in Nota : m # n => nota'[m] = nota[m],
         NEW u \in Sesi, ~MemegangX(u, KNota(n)) \/ nota[n].status # "POSTED"
  PROVE  Setia(u)
BY DEF Setia

\* A draft is rewritten that u does not hold.
LEMMA SetiaDraf ==
  ASSUME IInv, NEW d \in Bayar, nota' = nota, \A e \in Bayar : e # d => bayar'[e] = bayar[e],
         bayar[d].status # "POSTED", bayar'[d].status # "POSTED",
         NEW u \in Sesi, ~MemegangX(u, KBayar(d))
  PROVE  Setia(u)
<1>1. \A n, e : e \in Bayar => Guna(bayar', e, n) = Guna(bayar, e, n)
  BY DEF Guna, Efektif
<1>2. QED BY <1>1 DEF Setia

\* At its COMMIT a transition holds every nota it points at.
LEMMA SelesaiMemegang ==
  ASSUME IInv, NEW t \in Sesi, Segar(t), Selesai(t), NEW a \in ToSet(bayar[tugas[t].bayar].alokasi)
  PROVE  MemegangX(t, KNota(a.nota)) /\ a.nota \in Tertulis(t)
<1>1. pc[t] = "ulang" /\ daftar[t] = <<>>
  BY DEF Selesai
<1>2. ToSet(daftar[t]) = {}
  BY <1>1 DEF ToSet
<1>3. a.nota \in Tertulis(t)
  BY <1>1, <1>2 DEF Segar, NotaIsi
<1>4. \A w \in tulis[t] : MemegangX(t, KNota(w[1]))
  BY DEF IInv, InvSesi
<1>5. QED BY <1>3, <1>4 DEF Tertulis

LEMMA SetiaSelesai ==
  ASSUME IInv, NEW t \in Sesi, Segar(t), Selesai(t), NEW u \in Sesi, u # t
  PROVE  Setia(u)
<1> DEFINE d == tugas[t].bayar
<1> DEFINE b == bayar[d]
<1>1. /\ d \in Bayar /\ b \in BarisBayar /\ ~MemegangX(u, KBayar(d))
  BY SiapBayar DEF Selesai
<1>2. /\ \A e \in Bayar : e # d => bayar'[e] = bayar[e]
      /\ bayar'[d].alokasi = b.alokasi
      /\ bayar' \in [Bayar -> BarisBayar]
      /\ \A n \in Nota : nota'[n].jenis = nota[n].jenis /\ nota'[n].total = nota[n].total
  BY SelesaiMenulis
<1>3. ASSUME NEW n \in Nota, MemegangX(u, KNota(n)), NEW e \in Bayar
      PROVE  Guna(bayar', e, n) = Guna(bayar, e, n)
  <2>1. CASE e # d
    BY <1>2, <2>1 DEF Guna, Efektif
  <2>2. CASE e = d
    <3>1. ~MemegangX(t, KNota(n))
      BY <1>3, PemegangTunggal DEF IInv
    <3>2. \A a \in ToSet(b.alokasi) : a.nota # n
      BY <3>1, SelesaiMemegang
    <3>3. JumlahKe(b, n) = 0
      BY <1>1, <3>2, JumlahKeBenar
    <3>4. JumlahKe(bayar'[d], n) = 0
      BY <1>2, <3>3 DEF JumlahKe
    <3>5. QED BY <2>2, <3>3, <3>4 DEF Guna
  <2>3. QED BY <2>1, <2>2
<1>4. QED BY <1>1, <1>2, <1>3 DEF Setia

\* What t writes is not what the others hold.
LEMMA SetiaSesi ==
  ASSUME IInv, SegarInv, NEW t \in Sesi, LangkahNota(t) \/ LangkahBayar(t) \/ Mulai(t) \/ Putus(t),
         NEW u \in Sesi, u # t
  PROVE  Setia(u) /\ SesiDiam(u)
<1>1. ASSUME NEW x, Bersih(t, x) PROVE SesiDiam(u)
  BY <1>1 DEF Bersih, IInv, Bentuk, SesiDiam
<1>2. ASSUME NEW l, Ke(t, l) PROVE pc'[u] = pc[u]
  BY <1>2 DEF Ke, IInv, Bentuk
<1>3. ASSUME Gagal(t) PROVE Setia(u) /\ SesiDiam(u)
  BY <1>1, <1>3, SetiaDiam DEF Gagal, notaVars
<1>4. ASSUME Mulai(t) \/ BuatBayar(t) PROVE Setia(u) /\ SesiDiam(u)
  BY <1>2, <1>4, SetiaDiam DEF Mulai, BuatBayar, notaVars, SesiDiam, IInv, Bentuk, Ke
<1>5. ASSUME BacaNota(t) \/ PeriksaPlafon(t) PROVE Setia(u) /\ SesiDiam(u)
  BY <1>2, <1>3, <1>5, SetiaDiam DEF BacaNota, PeriksaPlafon, notaVars, SesiDiam, IInv, Bentuk
<1>6. ASSUME BacaBayar(t) \/ PeriksaSisa(t) PROVE Setia(u) /\ SesiDiam(u)
  BY <1>2, <1>3, <1>6, SetiaDiam DEF BacaBayar, PeriksaSisa, notaVars, SesiDiam, IInv, Bentuk
<1>7. ASSUME KunciNota(t) \/ HitungUlang(t) \/ TulisUlang(t) PROVE Setia(u) /\ SesiDiam(u)
  BY <1>2, <1>7, SetiaDiam DEF KunciNota, HitungUlang, TulisUlang, notaVars, SesiDiam, IInv, Bentuk
<1>8. ASSUME NEW aksi, Ubah(t, aksi) PROVE Setia(u) /\ SesiDiam(u)
  BY <1>2, <1>8, SetiaDiam DEF Ubah, notaVars, SesiDiam, IInv, Bentuk
<1>9. ASSUME UbahNota(t) \/ GantiDetail(t) \/ PostingNota(t) \/ BatalNota(t) PROVE Setia(u) /\ SesiDiam(u)
  <2>1. CASE Gagal(t)
    BY <1>3, <2>1
  <2>2. CASE ~Gagal(t)
    <3> DEFINE n == tugas[t].nota
    <3>1. pc[t] = "simpan" /\ bayar' = bayar /\ (\E x : Bersih(t, x))
          /\ \A m \in Nota : m # n => nota'[m] = nota[m]
      BY <1>9, <2>2 DEF UbahNota, GantiDetail, PostingNota, BatalNota, IInv, TipeData
    <3>2. ~MemegangX(u, KNota(n))
      BY <3>1, SiapNota
    <3>3. QED BY <1>1, <3>1, <3>2, SetiaNota
  <2>3. QED BY <2>1, <2>2
<1>10. ASSUME UbahBayar(t) \/ TulisAlokasi(t) PROVE Setia(u) /\ SesiDiam(u)
  <2>1. CASE Gagal(t)
    BY <1>3, <2>1
  <2>2. CASE ~Gagal(t)
    <3> DEFINE d == tugas[t].bayar
    <3>1. pc[t] = "kunci" /\ nota' = nota /\ (\E x : Bersih(t, x))
          /\ (\A e \in Bayar : e # d => bayar'[e] = bayar[e])
          /\ tugas[t].aksi \in {"ubah", "buat", "alokasi"}
      BY <1>10, <2>2 DEF UbahBayar, TulisAlokasi, IInv, TipeData
    <3>2. d \in Bayar /\ ~MemegangX(u, KBayar(d)) /\ TahuBayar(t)
      BY <3>1, SiapBayar
    <3>3. bayar[d].status # "POSTED"
      BY <3>1, <3>2 DEF TahuBayar, BolehBayar
    <3>4. bayar'[d].status # "POSTED"
      <4>1. bayar \in [Bayar -> BarisBayar] /\ salinan[t].status # "POSTED"
        BY <3>1, <3>2, <3>3 DEF IInv, TipeData, TahuBayar, BarisBaru
      <4>2. CASE UbahBayar(t)
        BY <3>2, <3>3, <4>1, <4>2 DEF UbahBayar, BarisBayar
      <4>3. CASE TulisAlokasi(t)
        BY <2>2, <3>2, <3>3, <4>1, <4>3 DEF TulisAlokasi, BarisBayar, TahuBayar, BarisBaru
      <4>4. QED BY <1>10, <4>2, <4>3
    <3>5. Setia(u)
      BY <3>1, <3>2, <3>3, <3>4, SetiaDraf
    <3>6. QED BY <1>1, <3>1, <3>5
  <2>3. QED BY <2>1, <2>2
<1>11. ASSUME Selesai(t) PROVE Setia(u) /\ SesiDiam(u)
  BY <1>1, <1>11, SetiaSelesai DEF SegarInv, Selesai
<1>12. QED
  BY <1>3, <1>4, <1>5, <1>6, <1>7, <1>8, <1>9, <1>10, <1>11
    DEF LangkahNota, LangkahBayar, PostingBayar, BatalBayar, CairkanGiro, TolakGiro, Putus

LEMMA NotaDariBenar ==
  ASSUME IInv, NEW d \in Bayar
  PROVE  NotaDari(bayar[d]) \in Seq(Nota) /\ ToSet(NotaDari(bayar[d])) = NotaIsi(d)
<1> DEFINE A == ToSet(bayar[d].alokasi)
<1> DEFINE S == {a.nota : a \in A}
<1>1. IsFiniteSet(A) /\ \A a \in A : a.nota \in Nota
  BY TipeAlokasi DEF IInv, TipeData
<1>2. IsFiniteSet(S)
  <2> DEFINE j == [a \in A |-> a.nota]
  <2>1. IsFiniteSet({j[a] : a \in A})
    BY <1>1, Citra
  <2>2. {j[a] : a \in A} = S
    OBVIOUS
  <2>3. QED BY <2>1, <2>2
<1>3. S \subseteq Nota /\ S \in SUBSET Nat
  BY <1>1, AsumsiPiutang DEF AsumsiPiutang
<1>4. NotaDari(bayar[d]) = UrutNaik(S) /\ NotaIsi(d) = S
  BY DEF NotaDari, NotaIsi
<1> HIDE DEF S
<1>5. PICK s : s = UrutNaik(S)
  OBVIOUS
<1>6. s \in Seq(S) /\ ToSet(s) = S
  BY <1>2, <1>3, <1>5, UrutNaikBenar
<1>7. DOMAIN s = 1..Len(s) /\ Len(s) \in Nat /\ \A i \in 1..Len(s) : s[i] \in Nota
  <2>1. DOMAIN s = 1..Len(s) /\ Len(s) \in Nat /\ \A i \in 1..Len(s) : s[i] \in S
    BY <1>6
  <2>2. QED BY <1>3, <2>1
<1>8. s = [i \in 1..Len(s) |-> s[i]] /\ [i \in 1..Len(s) |-> s[i]] \in Seq(Nota)
  BY <1>6, <1>7
<1>9. QED BY <1>4, <1>5, <1>6, <1>8

\* A session that ends, or that has not got to its caches, has written nothing.
LEMMA SegarKosong ==
  ASSUME NEW t \in Sesi, tulis'[t] = {}, pc'[t] \notin {"ulang", "tulis"}
  PROVE  Segar(t)'
BY DEF Segar

LEMMA SegarSendiri ==
  ASSUME IInv, IInv', NEW t \in Sesi, Segar(t), LangkahNota(t) \/ LangkahBayar(t) \/ Mulai(t) \/ Putus(t)
  PROVE  Segar(t)'
<1>1. ASSUME NEW x, Bersih(t, x) PROVE Segar(t)'
  BY <1>1, SegarKosong DEF Bersih, IInv, Bentuk
<1>2. ASSUME NEW l, Ke(t, l), l \notin {"ulang", "tulis"}, pc[t] \notin {"ulang", "tulis"}, tulis' = tulis
      PROVE  Segar(t)'
  BY <1>2, SegarKosong DEF Ke, IInv, Bentuk, Segar
<1>3. ASSUME Gagal(t) PROVE Segar(t)'
  BY <1>1, <1>3 DEF Gagal
<1>4. ASSUME Mulai(t) \/ BuatBayar(t) PROVE Segar(t)'
  BY <1>4, SegarKosong DEF Mulai, BuatBayar, Ke, IInv, Bentuk, Segar
<1>5. ASSUME BacaNota(t) \/ PeriksaPlafon(t) PROVE Segar(t)'
  BY <1>2, <1>3, <1>5 DEF BacaNota, PeriksaPlafon
<1>6. ASSUME BacaBayar(t) \/ PeriksaSisa(t) \/ KunciNota(t) PROVE Segar(t)'
  BY <1>2, <1>3, <1>6 DEF BacaBayar, PeriksaSisa, KunciNota
<1>7. ASSUME UbahNota(t) \/ GantiDetail(t) \/ PostingNota(t) \/ BatalNota(t) PROVE Segar(t)'
  BY <1>1, <1>3, <1>7 DEF UbahNota, GantiDetail, PostingNota, BatalNota
<1>8. ASSUME UbahBayar(t) \/ TulisAlokasi(t) \/ Selesai(t) PROVE Segar(t)'
  BY <1>1, <1>3, <1>8 DEF UbahBayar, TulisAlokasi, Selesai
<1>9. ASSUME NEW aksi, Ubah(t, aksi) PROVE Segar(t)'
  <2>1. PICK d : d = tugas[t].bayar
    OBVIOUS
  <2>2. /\ pc[t] = "kunci" /\ pc'[t] = "ulang" /\ tugas' = tugas /\ bayar' = bayar
        /\ daftar'[t] = NotaDari(bayar[d]) /\ tulis'[t] = {}
    BY <1>9, <2>1 DEF Ubah, Ke, notaVars, IInv, Bentuk, Segar
  <2>3. d \in Bayar
    BY <2>1, <2>2, SiapBayar
  <2>4. daftar'[t] \in Seq(Nota) /\ ToSet(daftar'[t]) = NotaIsi(d)
    BY <2>2, <2>3, NotaDariBenar
  <2>5. NotaIsi(d)' = NotaIsi(d) /\ tugas'[t].bayar = d /\ Tertulis(t)' = {}
    BY <2>1, <2>2 DEF NotaIsi, Tertulis
  <2>6. QED BY <2>2, <2>4, <2>5 DEF Segar
<1>10. ASSUME HitungUlang(t) PROVE Segar(t)'
  <2>1. PICK d : d = tugas[t].bayar
    OBVIOUS
  <2>2. /\ pc[t] = "ulang" /\ pc'[t] = "tulis" /\ tugas' = tugas /\ bayar' = bayar /\ nota' = nota
        /\ daftar' = daftar /\ tulis' = tulis /\ daftar[t] # <<>>
        /\ foto'[t] = StatusPembayaran(Lihat(t), Head(daftar[t]), nota[Head(daftar[t])])
    BY <1>10 DEF HitungUlang, Ke, notaVars, IInv, Bentuk
  <2>3. Lihat(t)' = Lihat(t) /\ NotaIsi(d)' = NotaIsi(d) /\ Tertulis(t)' = Tertulis(t)
        /\ (Menerima(t)' <=> Menerima(t))
    BY <2>2 DEF Lihat, NotaIsi, Tertulis, Menerima
  <2>4. QED BY <2>1, <2>2, <2>3 DEF Segar
<1>11. ASSUME TulisUlang(t) PROVE Segar(t)'
  <2>1. PICK d : d = tugas[t].bayar
    OBVIOUS
  <2>2. PICK n : n = Head(daftar[t])
    OBVIOUS
  <2>3. /\ pc[t] = "tulis" /\ pc'[t] = "ulang" /\ tugas' = tugas /\ bayar' = bayar /\ nota' = nota
        /\ daftar'[t] = Tail(daftar[t]) /\ tulis'[t] = tulis[t] \cup {<<n, foto[t]>>}
    BY <1>11, <2>2 DEF TulisUlang, Ke, notaVars, IInv, Bentuk
  <2>4. /\ daftar[t] # <<>> /\ daftar[t] \in Seq(Nota)
        /\ ToSet(daftar[t]) \cup Tertulis(t) = NotaIsi(d)
    BY <2>1, <2>3 DEF Segar
  <2>5. Lihat(t)' = Lihat(t) /\ NotaIsi(d)' = NotaIsi(d) /\ (Menerima(t)' <=> Menerima(t))
    BY <2>3 DEF Lihat, NotaIsi, Menerima
  <2>6. Tertulis(t)' = Tertulis(t) \cup {n}
    <3>1. \A w \in tulis'[t] : w[1] \in Tertulis(t) \cup {n}
      BY <2>3 DEF Tertulis
    <3>2. <<n, foto[t]>> \in tulis'[t] /\ <<n, foto[t]>>[1] = n /\ tulis[t] \subseteq tulis'[t]
      BY <2>3
    <3>3. Tertulis(t)' = {w[1] : w \in tulis'[t]}
      BY DEF Tertulis
    <3>4. QED BY <3>1, <3>2, <3>3 DEF Tertulis
  <2>7. Tail(daftar[t]) \in Seq(Nota) /\ ToSet(daftar[t]) = ToSet(Tail(daftar[t])) \cup {n}
    BY <2>2, <2>4, KepalaEkor
  <2>8. ToSet(daftar'[t]) \cup Tertulis(t)' = NotaIsi(d)
    BY <2>3, <2>4, <2>6, <2>7
  <2>9. ASSUME Menerima(t), NEW w \in tulis'[t]
        PROVE  w[2] = StatusPembayaran(Lihat(t), w[1], nota[w[1]])
    BY <2>2, <2>3, <2>9 DEF Segar
  <2>10. QED BY <2>1, <2>3, <2>5, <2>7, <2>8, <2>9 DEF Segar
<1>12. QED
  BY <1>3, <1>4, <1>5, <1>6, <1>7, <1>8, <1>9, <1>10, <1>11
    DEF LangkahNota, LangkahBayar, PostingBayar, BatalBayar, CairkanGiro, TolakGiro, Putus

LEMMA SegarAwal == InitPiutang => SegarInv
BY DEF InitPiutang, SegarInv, Segar

LEMMA SegarInduktif == IInv /\ IInv' /\ SegarInv /\ [NextPiutang]_varsPiutang => SegarInv'
<1> SUFFICES ASSUME IInv, IInv', SegarInv, [NextPiutang]_varsPiutang, NEW u \in Sesi PROVE Segar(u)'
  BY DEF SegarInv
<1>1. ASSUME NEW t \in Sesi, LangkahNota(t) \/ LangkahBayar(t) \/ Mulai(t) \/ Putus(t) PROVE Segar(u)'
  <2>1. CASE u = t
    BY <1>1, <2>1, SegarSendiri DEF SegarInv
  <2>2. CASE u # t
    BY <1>1, <2>2, SetiaSesi, SegarLain DEF SegarInv
  <2>3. QED BY <2>1, <2>2
<1>2. ASSUME NEW n \in Nota, BuatNota(n) PROVE Segar(u)'
  <2>1. /\ bayar' = bayar /\ nota[n].status = "TIADA" /\ SesiDiam(u)
        /\ \A m \in Nota : m # n => nota'[m] = nota[m]
    BY <1>2 DEF BuatNota, SesiDiam, IInv, TipeData
  <2>2. Setia(u)
    BY <2>1, SetiaNota
  <2>3. QED BY <2>1, <2>2, SegarLain DEF SegarInv
<1>3. ASSUME UNCHANGED varsPiutang PROVE Segar(u)'
  <2>1. Setia(u) /\ SesiDiam(u)
    BY <1>3, SetiaDiam DEF varsPiutang, notaVars, SesiDiam
  <2>2. QED BY <2>1, SegarLain DEF SegarInv
<1>4. QED BY <1>1, <1>2, <1>3 DEF NextPiutang, DiamPiutang

LEMMA SegarSelalu == SpecPiutang => [](IInv /\ SegarInv)
<1>1. InitPiutang => IInv /\ SegarInv
  BY AwalBenar, SegarAwal
<1>2. IInv /\ SegarInv /\ [NextPiutang]_varsPiutang => (IInv /\ SegarInv)'
  BY Induktif, SegarInduktif
<1>3. QED BY <1>1, <1>2, PTL DEF SpecPiutang

\* The COMMIT of a posting or clearing.
LEMMA SelesaiSegar ==
  ASSUME IInv, NEW t \in Sesi, Segar(t), Selesai(t), Menerima(t),
         NEW a \in ToSet(bayar[tugas[t].bayar].alokasi)
  PROVE  nota'[a.nota].lunas = StatusPembayaran(bayar', a.nota, nota'[a.nota])
<1> DEFINE n == a.nota
<1> DEFINE hasil == {w[2] : w \in {x \in tulis[t] : x[1] = n}}
<1> DEFINE s == StatusPembayaran(Lihat(t), n, nota[n])
<1>1. pc[t] = "ulang" /\ n \in Nota /\ n \in Tertulis(t)
  BY SiapBayar, SelesaiMemegang DEF Selesai
<1>2. hasil = {s}
  <2>1. \A w \in tulis[t] : w[1] = n => w[2] = s
    BY <1>1 DEF Segar
  <2>2. hasil # {}
    BY <1>1 DEF Tertulis
  <2>3. \A x \in hasil : x = s
    BY <2>1
  <2> HIDE DEF hasil
  <2>4. QED BY <2>2, <2>3
<1>3. bayar' = Lihat(t)
  BY DEF Selesai, Lihat
<1>4. nota'[n] = [nota[n] EXCEPT !.lunas = CHOOSE x \in hasil : TRUE]
  BY <1>1, <1>2 DEF Selesai
<1>5. nota[n] \in BarisNota
  BY <1>1 DEF IInv, TipeData
<1> HIDE DEF hasil, s
<1>6. (CHOOSE x \in hasil : TRUE) = s
  BY <1>2
<1>7. /\ nota'[n].lunas = s /\ nota'[n].jenis = nota[n].jenis /\ nota'[n].total = nota[n].total
  BY <1>4, <1>5, <1>6 DEF BarisNota
<1>8. Lihat(t) \in [Bayar -> BarisBayar]
  BY <1>1, RekamBenar
<1>9. StatusPembayaran(Lihat(t), n, nota'[n]) = s
  BY <1>7, <1>8, StatusSama DEF s
<1>10. QED BY <1>3, <1>7, <1>9

\* A payment only changes and its session only leaves by that COMMIT.
LEMMA KeluarUlang ==
  ASSUME IInv, SegarInv, NextPiutang, NEW t \in Sesi, pc[t] = "ulang", pc'[t] = "idle", bayar' # bayar
  PROVE  Selesai(t)
<1>1. ~Gagal(t) /\ ~DiamPiutang
  BY DEF Gagal, notaVars, DiamPiutang, varsPiutang
<1>2. \A n \in Nota : ~BuatNota(n)
  BY DEF BuatNota
<1>3. ASSUME NEW u \in Sesi, u # t PROVE ~(LangkahNota(u) \/ LangkahBayar(u) \/ Mulai(u) \/ Putus(u))
  BY <1>3, SetiaSesi DEF SesiDiam
<1>4. LangkahNota(t) \/ LangkahBayar(t) \/ Mulai(t) \/ Putus(t)
  BY <1>1, <1>2, <1>3 DEF NextPiutang
<1>5. ~LangkahNota(t) /\ ~Mulai(t) /\ ~Putus(t)
  BY <1>1 DEF LangkahNota, Mulai, Putus, BacaNota, PeriksaPlafon, UbahNota, GantiDetail,
              PostingNota, BatalNota
<1>6. \A aksi : ~Ubah(t, aksi)
  BY DEF Ubah
<1>7. ~(BuatBayar(t) \/ BacaBayar(t) \/ UbahBayar(t) \/ KunciNota(t) \/ PeriksaSisa(t) \/ TulisAlokasi(t)
        \/ TulisUlang(t))
  BY DEF BuatBayar, BacaBayar, UbahBayar, KunciNota, PeriksaSisa, TulisAlokasi, TulisUlang
<1>8. ~HitungUlang(t)
  BY DEF HitungUlang, notaVars
<1>9. QED BY <1>4, <1>5, <1>6, <1>7, <1>8
          DEF LangkahBayar, PostingBayar, BatalBayar, CairkanGiro, TolakGiro

\* For any payments and any number of sessions: a payment that is posted, or
\* whose giro clears, commits a payment status that is right on every nota it
\* points at.
THEOREM PenerimaanSelaluMenyegarkan == SpecPiutang => PenerimaanMenyegarkan
<1>1. ASSUME IInv, SegarInv, [NextPiutang]_varsPiutang
      PROVE  [bayar' # bayar => \A t \in Sesi :
                pc[t] = "ulang" /\ tugas[t].aksi \in {"posting", "cair"} /\ pc'[t] = "idle" =>
                  \A a \in ToSet(bayar[tugas[t].bayar].alokasi) :
                    nota'[a.nota].lunas = StatusPembayaran(bayar', a.nota, nota'[a.nota])]_varsPiutang
  <2> SUFFICES ASSUME NextPiutang, bayar' # bayar, NEW t \in Sesi, pc[t] = "ulang",
                      tugas[t].aksi \in {"posting", "cair"}, pc'[t] = "idle",
                      NEW a \in ToSet(bayar[tugas[t].bayar].alokasi)
               PROVE  nota'[a.nota].lunas = StatusPembayaran(bayar', a.nota, nota'[a.nota])
    BY <1>1
  <2>1. Selesai(t)
    BY <1>1, KeluarUlang
  <2>2. QED BY <1>1, <2>1, SelesaiSegar DEF SegarInv, Menerima
<1>2. QED BY <1>1, SegarSelalu, PTL DEF SpecPiutang, PenerimaanMenyegarkan

-----------------------------------------------------------------------------
(* The types of the sessions.                                              *)
Letak == {"idle", "baca", "plafon", "simpan", "kunci", "sisa", "ulang", "tulis"}

\* The rows and requests a session carries, by where it is.
BentukSesi(u) ==
  /\ pc[u] \in Letak
  /\ tugas[u] \in Tugas \cup {Menganggur}
  /\ salinan[u] = Kosong \/ salinan[u] \in BarisNota \/ salinan[u] \in BarisBayar
  /\ daftar[u] \in IF pc[u] \in {"ulang", "tulis"} THEN Seq(Nota) ELSE Seq(Alokasi)
  /\ foto[u] \in StatusLunas \cup {""}
  /\ tulis[u] \subseteq Nota \X StatusLunas

\* penjualan_kredit_pelanggan_check.
KreditDikenal == \A n \in Nota : nota[n].jenis = "KREDIT" => nota[n].pelanggan # Umum

\* What TLA+ calls a function of the sessions.
Fungsi(f) == f = [u \in Sesi |-> f[u]]

BerupaFungsi == Fungsi(pc) /\ Fungsi(foto) /\ Fungsi(tulis)

TipePiutang ==
  /\ TipeKunci(PermintaanPiutang) /\ KreditDikenal /\ mulai \in Nat /\ BerupaFungsi
  /\ \A u \in Sesi : BentukSesi(u)

LEMMA FungsiBerubah ==
  ASSUME NEW f, NEW g, Fungsi(f), g = f \/ \E t, x : g = [f EXCEPT ![t] = x]
  PROVE  Fungsi(g)
<1>1. CASE g = f
  BY <1>1
<1>2. ASSUME NEW t, NEW x, g = [f EXCEPT ![t] = x] PROVE Fungsi(g)
  BY <1>2 DEF Fungsi
<1>3. QED BY <1>1, <1>2

LEMMA FungsiTetap ==
  ASSUME BerupaFungsi, NEW t \in Sesi, LangkahNota(t) \/ LangkahBayar(t) \/ Mulai(t) \/ Putus(t)
  PROVE  BerupaFungsi'
<1> DEFINE Berganti(f, g) == g = f \/ \E u, x : g = [f EXCEPT ![u] = x]
<1> DEFINE Lanjut == Berganti(pc, pc') /\ Berganti(foto, foto') /\ Berganti(tulis, tulis')
<1>1. ASSUME NEW x, Bersih(t, x) PROVE Lanjut
  BY <1>1 DEF Bersih
<1>2. ASSUME Gagal(t) PROVE Lanjut
  BY <1>1, <1>2 DEF Gagal
<1>3. ASSUME Mulai(t) \/ BuatBayar(t) PROVE Lanjut
  BY <1>3 DEF Mulai, BuatBayar, Ke
<1>4. ASSUME BacaNota(t) \/ PeriksaPlafon(t) PROVE Lanjut
  BY <1>2, <1>4 DEF BacaNota, PeriksaPlafon, Ke
<1>5. ASSUME UbahNota(t) \/ GantiDetail(t) \/ PostingNota(t) \/ BatalNota(t) PROVE Lanjut
  BY <1>1, <1>2, <1>5 DEF UbahNota, GantiDetail, PostingNota, BatalNota
<1>6. ASSUME UbahBayar(t) \/ TulisAlokasi(t) \/ Selesai(t) PROVE Lanjut
  BY <1>1, <1>2, <1>6 DEF UbahBayar, TulisAlokasi, Selesai
<1>7. ASSUME BacaBayar(t) \/ PeriksaSisa(t) PROVE Lanjut
  BY <1>2, <1>7 DEF BacaBayar, PeriksaSisa, Ke
<1>8. ASSUME KunciNota(t) \/ HitungUlang(t) \/ TulisUlang(t) PROVE Lanjut
  BY <1>8 DEF KunciNota, HitungUlang, TulisUlang, Ke
<1>9. ASSUME NEW aksi, Ubah(t, aksi) PROVE Lanjut
  BY <1>9 DEF Ubah, Ke
<1>10. Lanjut
  BY <1>2, <1>3, <1>4, <1>5, <1>6, <1>7, <1>8, <1>9
    DEF LangkahNota, LangkahBayar, PostingBayar, BatalBayar, CairkanGiro, TolakGiro, Putus
<1>11. QED BY <1>10, FungsiBerubah DEF BerupaFungsi

LEMMA BentukBersih ==
  ASSUME Bentuk, NEW t \in Sesi, NEW x, Bersih(t, x)
  PROVE  BentukSesi(t)'
<1>1. /\ pc'[t] = "idle" /\ tugas'[t] = Menganggur /\ salinan'[t] = Kosong /\ daftar'[t] = <<>>
      /\ foto'[t] = "" /\ tulis'[t] = {}
  BY DEF Bersih, Bentuk
<1>2. <<>> \in Seq(Alokasi)
  OBVIOUS
<1>3. QED BY <1>1, <1>2 DEF BentukSesi, Letak

LEMMA BarisBaruBenar ==
  ASSUME NEW g \in Tugas, g.aksi = "buat"
  PROVE  BarisBaru(g.isi) \in BarisBayar
<1>1. g.isi \in [metode : Metode, pelanggan : Pelanggan, jumlah : Nat \ {0}]
  BY TipeTugas, AsumsiPiutang DEF AsumsiPiutang
<1>2. <<>> \in Seq(Alokasi)
  OBVIOUS
<1>3. QED BY <1>1, <1>2 DEF BarisBaru, BarisBayar, StatusDok, StatusGiro

LEMMA BentukSendiri ==
  ASSUME IInv, SegarInv, NEW t \in Sesi, BentukSesi(t),
         LangkahNota(t) \/ LangkahBayar(t) \/ Mulai(t) \/ Putus(t)
  PROVE  BentukSesi(t)'
<1>0. Bentuk
  BY DEF IInv
<1>1. ASSUME NEW x, Bersih(t, x) PROVE BentukSesi(t)'
  BY <1>0, <1>1, BentukBersih
<1>2. ASSUME Gagal(t) PROVE BentukSesi(t)'
  BY <1>1, <1>2 DEF Gagal
<1>3. ASSUME Mulai(t) PROVE BentukSesi(t)'
  <2>1. PICK g \in Tugas : tugas' = [tugas EXCEPT ![t] = g]
    BY <1>3 DEF Mulai
  <2>2. /\ pc[t] = "idle" /\ pc'[t] = "baca" /\ tugas'[t] = g
        /\ UNCHANGED <<salinan, daftar, foto, tulis>>
    BY <1>0, <1>3, <2>1 DEF Mulai, Bentuk
  <2>3. QED BY <2>2 DEF BentukSesi, Letak
<1>4. ASSUME BuatBayar(t) PROVE BentukSesi(t)'
  <2>1. PICK g \in Tugas : /\ g.aksi = "buat" /\ tugas' = [tugas EXCEPT ![t] = g]
                           /\ salinan' = [salinan EXCEPT ![t] = BarisBaru(g.isi)]
                           /\ daftar' = [daftar EXCEPT ![t] = g.alokasi]
    BY <1>4 DEF BuatBayar
  <2>2. /\ pc'[t] = "kunci" /\ tugas'[t] = g /\ salinan'[t] = BarisBaru(g.isi)
        /\ daftar'[t] = g.alokasi /\ UNCHANGED <<foto, tulis>>
    BY <1>0, <1>4, <2>1 DEF BuatBayar, Ke, Bentuk
  <2>3. BarisBaru(g.isi) \in BarisBayar /\ g.alokasi \in Seq(Alokasi)
    BY <2>1, BarisBaruBenar, TipeTugas
  <2>4. QED BY <2>2, <2>3 DEF BentukSesi, Letak
<1>5. ASSUME BacaNota(t) PROVE BentukSesi(t)'
  <2>1. CASE /\ salinan' = [salinan EXCEPT ![t] = nota[tugas[t].nota]]
             /\ Ke(t, IF tugas[t].aksi = "posting" THEN "plafon" ELSE "simpan")
             /\ UNCHANGED <<kunciVars, notaVars, mulai, tugas, daftar, foto, tulis, mulus>>
    <3>1. pc[t] = "baca" /\ TentangNota(tugas[t])
      BY <1>5 DEF BacaNota
    <3>2. nota[tugas[t].nota] \in BarisNota
      BY <3>1, TipeTugas DEF IInv, InvSesi, TipeData
    <3>3. /\ pc'[t] \in {"plafon", "simpan"} /\ salinan'[t] = nota[tugas[t].nota]
          /\ UNCHANGED <<tugas, daftar, foto, tulis>>
      BY <1>0, <2>1 DEF Ke, Bentuk
    <3>4. QED BY <3>1, <3>2, <3>3 DEF BentukSesi, Letak
  <2>2. CASE Gagal(t)
    BY <1>2, <2>2
  <2>3. QED BY <1>5, <2>1, <2>2 DEF BacaNota
<1>6. ASSUME PeriksaPlafon(t) PROVE BentukSesi(t)'
  <2>1. CASE /\ Ke(t, "simpan")
             /\ UNCHANGED <<kunciVars, notaVars, mulai, tugas, salinan, daftar, foto, tulis>>
    <3>1. pc[t] = "plafon" /\ pc'[t] = "simpan" /\ UNCHANGED <<tugas, salinan, daftar, foto, tulis>>
      BY <1>0, <1>6, <2>1 DEF PeriksaPlafon, Ke, Bentuk
    <3>2. QED BY <3>1 DEF BentukSesi, Letak
  <2>2. QED BY <1>2, <1>6, <2>1 DEF PeriksaPlafon
<1>7. ASSUME UbahNota(t) \/ GantiDetail(t) \/ PostingNota(t) \/ BatalNota(t) PROVE BentukSesi(t)'
  BY <1>1, <1>2, <1>7 DEF UbahNota, GantiDetail, PostingNota, BatalNota
<1>8. ASSUME UbahBayar(t) \/ TulisAlokasi(t) \/ Selesai(t) PROVE BentukSesi(t)'
  BY <1>1, <1>2, <1>8 DEF UbahBayar, TulisAlokasi, Selesai
<1>9. ASSUME BacaBayar(t) PROVE BentukSesi(t)'
  <2> DEFINE g == tugas[t]
  <2> DEFINE baris == bayar[g.bayar]
  <2>1. CASE /\ salinan' = [salinan EXCEPT ![t] = baris]
             /\ daftar' = [daftar EXCEPT ![t] = CASE g.aksi \in {"posting", "cair"} -> baris.alokasi
                                                  [] g.aksi = "alokasi" -> g.alokasi
                                                  [] OTHER -> <<>>]
             /\ Ke(t, "kunci")
             /\ UNCHANGED <<kunciVars, notaVars, mulai, tugas, foto, tulis, mulus>>
    <3>1. pc[t] = "baca" /\ ~TentangNota(g) /\ g \in Tugas
      BY <1>9 DEF BacaBayar, IInv, InvSesi
    <3>2. baris \in BarisBayar /\ (g.aksi = "alokasi" => g.alokasi \in Seq(Alokasi))
      BY <3>1, TipeTugas DEF IInv, TipeData
    <3>3. baris.alokasi \in Seq(Alokasi) /\ <<>> \in Seq(Alokasi)
      BY <3>2 DEF BarisBayar
    <3>4. /\ pc'[t] = "kunci" /\ salinan'[t] = baris /\ UNCHANGED <<tugas, foto, tulis>>
          /\ daftar'[t] = CASE g.aksi \in {"posting", "cair"} -> baris.alokasi
                            [] g.aksi = "alokasi" -> g.alokasi
                            [] OTHER -> <<>>
      BY <1>0, <2>1 DEF Ke, Bentuk
    <3>5. daftar'[t] \in Seq(Alokasi)
      BY <3>2, <3>3, <3>4
    <3>6. QED BY <3>2, <3>4, <3>5 DEF BentukSesi, Letak
  <2>2. QED BY <1>2, <1>9, <2>1 DEF BacaBayar
<1>10. ASSUME KunciNota(t) PROVE BentukSesi(t)'
  <2>1. pc[t] = "kunci" /\ pc'[t] = "sisa" /\ UNCHANGED <<tugas, salinan, daftar, foto, tulis>>
    BY <1>0, <1>10 DEF KunciNota, Ke, Bentuk
  <2>2. QED BY <2>1 DEF BentukSesi, Letak
<1>11. ASSUME PeriksaSisa(t) PROVE BentukSesi(t)'
  <2>1. CASE /\ daftar' = [daftar EXCEPT ![t] = Tail(@)]
             /\ Ke(t, "kunci")
             /\ UNCHANGED <<kunciVars, notaVars, mulai, tugas, salinan, foto, tulis, mulus>>
    <3>1. /\ pc[t] = "sisa" /\ pc'[t] = "kunci" /\ daftar'[t] = Tail(daftar[t])
          /\ UNCHANGED <<tugas, salinan, foto, tulis>>
      BY <1>0, <1>11, <2>1 DEF PeriksaSisa, Ke, Bentuk
    <3>2. daftar[t] # <<>> /\ daftar[t] \in Seq(Alokasi)
      BY <3>1 DEF IInv, InvSesi, BentukSesi
    <3>3. Tail(daftar[t]) \in Seq(Alokasi)
      BY <3>2, KepalaEkor
    <3>4. QED BY <3>1, <3>3 DEF BentukSesi, Letak
  <2>2. QED BY <1>2, <1>11, <2>1 DEF PeriksaSisa
<1>12. ASSUME NEW aksi, Ubah(t, aksi) PROVE BentukSesi(t)'
  <2>1. PICK d : d = tugas[t].bayar
    OBVIOUS
  <2>2. /\ pc[t] = "kunci" /\ pc'[t] = "ulang" /\ daftar'[t] = NotaDari(bayar[d])
        /\ UNCHANGED <<tugas, salinan, foto, tulis>>
    BY <1>0, <1>12, <2>1 DEF Ubah, Ke, Bentuk
  <2>3. d \in Bayar
    BY <2>1, <2>2, SiapBayar
  <2>4. NotaDari(bayar[d]) \in Seq(Nota)
    BY <2>3, NotaDariBenar
  <2>5. QED BY <2>2, <2>4 DEF BentukSesi, Letak
<1>13. ASSUME HitungUlang(t) PROVE BentukSesi(t)'
  <2>1. /\ pc[t] = "ulang" /\ pc'[t] = "tulis" /\ foto'[t] \in StatusLunas
        /\ UNCHANGED <<tugas, salinan, daftar, tulis>>
    BY <1>0, <1>13 DEF HitungUlang, Ke, Bentuk, StatusPembayaran, StatusLunas
  <2>2. QED BY <2>1 DEF BentukSesi, Letak
<1>14. ASSUME TulisUlang(t) PROVE BentukSesi(t)'
  <2>1. /\ pc[t] = "tulis" /\ pc'[t] = "ulang" /\ daftar'[t] = Tail(daftar[t]) /\ foto'[t] = ""
        /\ tulis'[t] = tulis[t] \cup {<<Head(daftar[t]), foto[t]>>} /\ UNCHANGED <<tugas, salinan>>
    BY <1>0, <1>14 DEF TulisUlang, Ke, Bentuk
  <2>2. daftar[t] # <<>> /\ daftar[t] \in Seq(Nota) /\ foto[t] \in StatusLunas
    BY <2>1 DEF SegarInv, Segar, IInv, InvSesi
  <2>3. Head(daftar[t]) \in Nota /\ Tail(daftar[t]) \in Seq(Nota)
    BY <2>2, KepalaEkor
  <2>4. <<Head(daftar[t]), foto[t]>> \in Nota \X StatusLunas
    BY <2>2, <2>3
  <2>5. QED BY <2>1, <2>3, <2>4 DEF BentukSesi, Letak
<1>15. QED
  BY <1>2, <1>3, <1>4, <1>5, <1>6, <1>7, <1>8, <1>9, <1>10, <1>11, <1>12, <1>13, <1>14
    DEF LangkahNota, LangkahBayar, PostingBayar, BatalBayar, CairkanGiro, TolakGiro, Putus

\* Nobody asks for anything but the row of a nota or of a payment.
LEMMA KunciPiutang ==
  ASSUME IInv, SegarInv, TipePiutang, NEW t \in Sesi,
         LangkahNota(t) \/ LangkahBayar(t) \/ Mulai(t) \/ Putus(t)
  PROVE  TipeKunci(PermintaanPiutang)'
<1> DEFINE P == PermintaanPiutang
<1>0. TipeKunci(P)
  BY DEF TipePiutang
<1>1. ASSUME NEW p \in P, Minta(t, p) PROVE TipeKunci(P)'
  BY <1>0, <1>1, MintaMaju DEF PermintaanPiutang
<1>2. ASSUME NEW n \in Nota, Minta(t, Kunci(KNota(n))) PROVE TipeKunci(P)'
  BY <1>1, <1>2 DEF PermintaanPiutang
<1>3. ASSUME NEW d \in Bayar, Minta(t, Kunci(KBayar(d))) PROVE TipeKunci(P)'
  BY <1>1, <1>3 DEF PermintaanPiutang
<1>4. ASSUME NEW x, Bersih(t, x) PROVE TipeKunci(P)'
  <2>1. LepasSemua(t)
    BY <1>4 DEF Bersih
  <2>2. QED BY <1>0, <2>1, LepasMaju DEF PermintaanPiutang
<1>5. ASSUME Gagal(t) PROVE TipeKunci(P)'
  BY <1>4, <1>5 DEF Gagal
<1>6. ASSUME UNCHANGED kunciVars PROVE TipeKunci(P)'
  BY <1>0, <1>6 DEF TipeKunci, kunciVars, PermintaanPiutang
<1>7. ASSUME Mulai(t) PROVE TipeKunci(P)'
  <2>1. PICK g \in Tugas :
          \/ TentangNota(g) /\ Minta(t, Kunci(KNota(g.nota)))
          \/ ~TentangNota(g) /\ Minta(t, Kunci(KBayar(g.bayar)))
    BY <1>7 DEF Mulai, KunciBaris
  <2>2. QED BY <1>2, <1>3, <2>1, TipeTugas
<1>8. ASSUME BuatBayar(t) PROVE TipeKunci(P)'
  <2>1. PICK g \in Tugas : g.aksi = "buat" /\ Minta(t, Kunci(KBayar(g.bayar)))
    BY <1>8 DEF BuatBayar
  <2>2. g.bayar \in Bayar
    BY <2>1, TipeTugas
  <2>3. QED BY <1>3, <2>1, <2>2
<1>9. ASSUME BacaNota(t) \/ PeriksaPlafon(t) \/ BacaBayar(t) \/ PeriksaSisa(t) PROVE TipeKunci(P)'
  BY <1>5, <1>6, <1>9 DEF BacaNota, PeriksaPlafon, BacaBayar, PeriksaSisa
<1>10. ASSUME UbahNota(t) \/ GantiDetail(t) \/ PostingNota(t) \/ BatalNota(t) PROVE TipeKunci(P)'
  BY <1>4, <1>5, <1>10 DEF UbahNota, GantiDetail, PostingNota, BatalNota
<1>11. ASSUME UbahBayar(t) \/ TulisAlokasi(t) \/ Selesai(t) PROVE TipeKunci(P)'
  BY <1>4, <1>5, <1>11 DEF UbahBayar, TulisAlokasi, Selesai
<1>12. ASSUME KunciNota(t) PROVE TipeKunci(P)'
  <2>1. pc[t] = "kunci" /\ daftar[t] # <<>> /\ Minta(t, Kunci(KNota(Head(daftar[t]).nota)))
    BY <1>12 DEF KunciNota
  <2>2. daftar[t] \in Seq(Alokasi)
    BY <2>1 DEF TipePiutang, BentukSesi
  <2>3. Head(daftar[t]) \in Alokasi
    BY <2>1, <2>2, KepalaEkor
  <2>4. Head(daftar[t]).nota \in Nota
    BY <2>3 DEF Alokasi
  <2>5. QED BY <1>2, <2>1, <2>4
<1>13. ASSUME NEW aksi, Ubah(t, aksi) PROVE TipeKunci(P)'
  BY <1>6, <1>13 DEF Ubah
<1>14. ASSUME HitungUlang(t) PROVE TipeKunci(P)'
  <2>1. pc[t] = "ulang" /\ daftar[t] # <<>> /\ Minta(t, Kunci(KNota(Head(daftar[t]))))
    BY <1>14 DEF HitungUlang
  <2>2. daftar[t] \in Seq(Nota)
    BY <2>1 DEF TipePiutang, BentukSesi
  <2>3. Head(daftar[t]) \in Nota
    BY <2>1, <2>2, KepalaEkor
  <2>4. QED BY <1>2, <2>1, <2>3
<1>15. ASSUME TulisUlang(t) PROVE TipeKunci(P)'
  BY <1>6, <1>15 DEF TulisUlang
<1>16. QED
  BY <1>5, <1>7, <1>8, <1>9, <1>10, <1>11, <1>12, <1>13, <1>14, <1>15
    DEF LangkahNota, LangkahBayar, PostingBayar, BatalBayar, CairkanGiro, TolakGiro, Putus

\* Who owes a nota on credit stays known.
LEMMA KreditTetapDikenal ==
  ASSUME IInv, KreditDikenal, NEW t \in Sesi,
         LangkahNota(t) \/ LangkahBayar(t) \/ Mulai(t) \/ Putus(t)
  PROVE  KreditDikenal'
<1>0. nota \in [Nota -> BarisNota]
  BY DEF IInv, TipeData
<1>1. ASSUME UNCHANGED nota PROVE KreditDikenal'
  BY <1>1 DEF KreditDikenal
<1>2. ASSUME NEW n \in Nota, NEW r, nota' = [nota EXCEPT ![n] = r],
             r.jenis = "KREDIT" => r.pelanggan # Umum
      PROVE  KreditDikenal'
  <2>1. \A m \in Nota : nota'[m] = IF m = n THEN r ELSE nota[m]
    BY <1>0, <1>2
  <2>2. QED BY <1>2, <2>1 DEF KreditDikenal
<1>3. ASSUME Gagal(t) PROVE KreditDikenal'
  BY <1>1, <1>3 DEF Gagal, notaVars
<1>4. ASSUME Mulai(t) \/ BuatBayar(t) PROVE KreditDikenal'
  BY <1>1, <1>4 DEF Mulai, BuatBayar, notaVars
<1>5. ASSUME BacaNota(t) \/ PeriksaPlafon(t) \/ BacaBayar(t) \/ PeriksaSisa(t) PROVE KreditDikenal'
  BY <1>1, <1>3, <1>5 DEF BacaNota, PeriksaPlafon, BacaBayar, PeriksaSisa, notaVars
<1>6. ASSUME UbahNota(t) PROVE KreditDikenal'
  <2>1. PICK g : g = tugas[t]
    OBVIOUS
  <2>2. PICK b : b = nota[g.nota]
    OBVIOUS
  <2>3. g.nota \in Nota /\ salinan[t] = b /\ b \in BarisNota
    BY <1>6, <2>1, <2>2, SiapNota DEF UbahNota
  <2>4. PICK e : e = Terapkan(g.patch, b)
    OBVIOUS
  <2>5. PICK r : r = [e EXCEPT !.subtotal = b.subtotal, !.total = HitungTotal(b.subtotal, e.diskon)]
    OBVIOUS
  <2>6. \/ SahKredit(e) /\ nota' = [nota EXCEPT ![g.nota] = r]
        \/ Gagal(t)
    BY <1>0, <1>6, <2>1, <2>2, <2>3, <2>4, <2>5 DEF UbahNota
  <2>7. r.jenis = e.jenis /\ r.pelanggan = e.pelanggan
    <3>1. DOMAIN b = {"status", "jenis", "pelanggan", "subtotal", "diskon", "total", "lunas"}
      BY <2>3 DEF BarisNota
    <3>2. e = [k \in DOMAIN b |-> IF k \in DOMAIN g.patch THEN g.patch[k] ELSE b[k]]
      BY <2>4 DEF Terapkan
    <3>3. QED BY <2>5, <3>1, <3>2
  <2>8. CASE SahKredit(e) /\ nota' = [nota EXCEPT ![g.nota] = r]
    BY <1>2, <2>3, <2>7, <2>8 DEF SahKredit
  <2>9. QED BY <1>3, <2>6, <2>8
<1>7. ASSUME GantiDetail(t) \/ PostingNota(t) \/ BatalNota(t) PROVE KreditDikenal'
  <2>1. PICK n : n = tugas[t].nota
    OBVIOUS
  <2>2. n \in Nota /\ nota[n] \in BarisNota
    BY <1>7, <2>1, SiapNota DEF GantiDetail, PostingNota, BatalNota
  <2>3. nota[n].jenis = "KREDIT" => nota[n].pelanggan # Umum
    BY <2>2 DEF KreditDikenal
  <2>4. ASSUME NEW r, nota' = [nota EXCEPT ![n] = r],
               r.jenis = nota[n].jenis, r.pelanggan = nota[n].pelanggan
        PROVE  KreditDikenal'
    BY <1>2, <2>2, <2>3, <2>4
  <2>5. CASE GantiDetail(t)
    <3>1. PICK s, j : s = tugas[t].subtotal /\ j = HitungTotal(tugas[t].subtotal, salinan[t].diskon)
      OBVIOUS
    <3>2. PICK r : r = [nota[n] EXCEPT !.subtotal = s, !.total = j]
      OBVIOUS
    <3>3. nota' = [nota EXCEPT ![n] = r] \/ Gagal(t)
      BY <1>0, <2>1, <2>2, <2>5, <3>1, <3>2 DEF GantiDetail
    <3>4. r.jenis = nota[n].jenis /\ r.pelanggan = nota[n].pelanggan
      BY <2>2, <3>2 DEF BarisNota
    <3>5. QED BY <1>3, <2>4, <3>3, <3>4
  <2>6. CASE PostingNota(t)
    <3>1. PICK l : l = StatusPembayaran(bayar, n, nota[n])
      OBVIOUS
    <3>2. PICK r : r = [nota[n] EXCEPT !.status = "POSTED", !.lunas = l]
      OBVIOUS
    <3>3. nota' = [nota EXCEPT ![n] = r]
      BY <1>0, <2>1, <2>2, <2>6, <3>1, <3>2 DEF PostingNota
    <3>4. r.jenis = nota[n].jenis /\ r.pelanggan = nota[n].pelanggan
      BY <2>2, <3>2 DEF BarisNota
    <3>5. QED BY <2>4, <3>3, <3>4
  <2>7. CASE BatalNota(t)
    <3>1. PICK r : r = [nota[n] EXCEPT !.status = "BATAL"]
      OBVIOUS
    <3>2. nota' = [nota EXCEPT ![n] = r]
      BY <1>0, <2>1, <2>2, <2>7, <3>1 DEF BatalNota
    <3>3. r.jenis = nota[n].jenis /\ r.pelanggan = nota[n].pelanggan
      BY <2>2, <3>1 DEF BarisNota
    <3>4. QED BY <2>4, <3>2, <3>3
  <2>8. QED BY <1>7, <2>5, <2>6, <2>7
<1>8. ASSUME UbahBayar(t) \/ TulisAlokasi(t) PROVE KreditDikenal'
  BY <1>1, <1>3, <1>8 DEF UbahBayar, TulisAlokasi
<1>9. ASSUME KunciNota(t) \/ HitungUlang(t) \/ TulisUlang(t) \/ \E aksi : Ubah(t, aksi)
      PROVE  KreditDikenal'
  BY <1>1, <1>9 DEF KunciNota, HitungUlang, TulisUlang, Ubah, notaVars
<1>10. ASSUME Selesai(t) PROVE KreditDikenal'
  <2>1. \A n \in Nota : nota'[n] = nota[n] \/ \E s : nota'[n] = [nota[n] EXCEPT !.lunas = s]
    BY <1>10 DEF Selesai
  <2>2. \A n \in Nota : nota'[n].jenis = nota[n].jenis /\ nota'[n].pelanggan = nota[n].pelanggan
    BY <1>0, <2>1 DEF BarisNota
  <2>3. QED BY <2>2 DEF KreditDikenal
<1>11. QED
  BY <1>3, <1>4, <1>5, <1>6, <1>7, <1>8, <1>9, <1>10
    DEF LangkahNota, LangkahBayar, PostingBayar, BatalBayar, CairkanGiro, TolakGiro, Putus

LEMMA PiutangBertipe ==
  ASSUME IInv, IInv', SegarInv, TipePiutang, [NextPiutang]_varsPiutang
  PROVE  TipePiutang'
<1>1. ASSUME NEW t \in Sesi, LangkahNota(t) \/ LangkahBayar(t) \/ Mulai(t) \/ Putus(t)
      PROVE  TipePiutang'
  <2>1. TipeKunci(PermintaanPiutang)' /\ KreditDikenal'
    BY <1>1, KunciPiutang, KreditTetapDikenal DEF TipePiutang
  <2>2. BentukSesi(t)'
    BY <1>1, BentukSendiri DEF TipePiutang
  <2>3. \A u \in Sesi : u # t => SesiDiam(u)
    BY <1>1, SetiaSesi
  <2>4. \A u \in Sesi : BentukSesi(u)'
    BY <2>2, <2>3 DEF TipePiutang, BentukSesi, SesiDiam
  <2>5. mulai' = mulai \/ mulai' = mulai + 1
    <3>1. ASSUME NEW x, Bersih(t, x) PROVE mulai' = mulai
      BY <3>1 DEF Bersih
    <3>2. ASSUME Gagal(t) PROVE mulai' = mulai
      BY <3>1, <3>2 DEF Gagal
    <3>3. ASSUME LangkahNota(t) PROVE mulai' = mulai
      BY <3>1, <3>2, <3>3
        DEF LangkahNota, BacaNota, PeriksaPlafon, UbahNota, GantiDetail, PostingNota, BatalNota
    <3>4. ASSUME LangkahBayar(t) PROVE mulai' = mulai \/ mulai' = mulai + 1
      BY <3>1, <3>2, <3>4
        DEF LangkahBayar, BuatBayar, BacaBayar, UbahBayar, KunciNota, PeriksaSisa, TulisAlokasi,
            PostingBayar, BatalBayar, CairkanGiro, TolakGiro, Ubah, HitungUlang, TulisUlang, Selesai
    <3>5. QED BY <1>1, <3>2, <3>3, <3>4 DEF Mulai, Putus
  <2>6. mulai' \in Nat
    BY <2>5 DEF TipePiutang
  <2>7. BerupaFungsi'
    BY <1>1, FungsiTetap DEF TipePiutang
  <2>8. QED BY <2>1, <2>4, <2>6, <2>7 DEF TipePiutang
<1>2. ASSUME NEW n \in Nota, BuatNota(n) PROVE TipePiutang'
  <2>1. PICK isi \in IsianNota, s \in Subtotal :
          /\ SahKredit(isi)
          /\ nota' = [nota EXCEPT ![n] =
               [status |-> "DRAFT", jenis |-> isi.jenis, pelanggan |-> isi.pelanggan,
                subtotal |-> s, diskon |-> isi.diskon, total |-> HitungTotal(s, isi.diskon),
                lunas |-> "BELUM"]]
    BY <1>2 DEF BuatNota
  <2>2. KreditDikenal'
    BY <2>1 DEF SahKredit, KreditDikenal, TipePiutang, IInv, TipeData
  <2>3. UNCHANGED <<kunciVars, pegang, tunggu, depan, mulai, pc, tugas, salinan, daftar, foto, tulis>>
    BY <1>2 DEF BuatNota, kunciVars
  <2>4. TipeKunci(PermintaanPiutang)'
    BY <2>3 DEF TipePiutang, TipeKunci, PermintaanPiutang
  <2>5. \A u \in Sesi : BentukSesi(u)'
    BY <2>3 DEF TipePiutang, BentukSesi
  <2>6. BerupaFungsi'
    BY <2>3 DEF TipePiutang, BerupaFungsi
  <2>7. QED BY <2>2, <2>3, <2>4, <2>5, <2>6 DEF TipePiutang
<1>3. ASSUME UNCHANGED varsPiutang PROVE TipePiutang'
  <2>1. UNCHANGED <<nota, pegang, tunggu, depan, mulai, pc, tugas, salinan, daftar, foto, tulis>>
    BY <1>3 DEF varsPiutang, kunciVars, notaVars
  <2>2. TipeKunci(PermintaanPiutang)'
    BY <2>1 DEF TipePiutang, TipeKunci, PermintaanPiutang
  <2>3. KreditDikenal' /\ mulai' \in Nat
    BY <2>1 DEF TipePiutang, KreditDikenal
  <2>4. \A u \in Sesi : BentukSesi(u)'
    BY <2>1 DEF TipePiutang, BentukSesi
  <2>5. BerupaFungsi'
    BY <2>1 DEF TipePiutang, BerupaFungsi
  <2>6. QED BY <2>2, <2>3, <2>4, <2>5 DEF TipePiutang
<1>4. QED BY <1>1, <1>2, <1>3 DEF NextPiutang, DiamPiutang

LEMMA PiutangBertipeMula == InitPiutang => TipePiutang
<1> SUFFICES ASSUME InitPiutang PROVE TipePiutang
  OBVIOUS
<1>1. TipeKunci(PermintaanPiutang)
  BY DEF InitPiutang, InitKunci, TipeKunci
<1>2. KreditDikenal /\ mulai \in Nat
  BY AsumsiPiutang DEF AsumsiPiutang, InitPiutang, KreditDikenal
<1>3. <<>> \in Seq(Alokasi)
  OBVIOUS
<1>4. \A u \in Sesi : BentukSesi(u)
  BY <1>3 DEF InitPiutang, BentukSesi, Letak
<1>5. BerupaFungsi
  BY DEF InitPiutang, BerupaFungsi, Fungsi
<1>6. QED BY <1>1, <1>2, <1>4, <1>5 DEF TipePiutang

\* The variables keep their types and the rows the CHECKs of the tables, a
\* nota on credit its customer among them, whatever is created, edited,
\* posted, cleared or cancelled at once, and whoever loses the connection
\* (penjualan_kredit_pelanggan_check; the UPDATEs of penjualan_repository.go
\* and penerimaan_pembayaran_repository.go).
LEMMA TipePiutangSelalu == SpecPiutang => []TypeOKPiutang
<1>1. IInv /\ SegarInv /\ TipePiutang => TypeOKPiutang
  <2> SUFFICES ASSUME IInv, SegarInv, TipePiutang PROVE TypeOKPiutang
    OBVIOUS
  <2>1. /\ pc = [u \in Sesi |-> pc[u]] /\ foto = [u \in Sesi |-> foto[u]]
        /\ tulis = [u \in Sesi |-> tulis[u]]
    BY DEF TipePiutang, BerupaFungsi, Fungsi
  <2>2. /\ pc \in [Sesi -> Letak] /\ foto \in [Sesi -> StatusLunas \cup {""}]
        /\ tulis \in [Sesi -> SUBSET (Nota \X StatusLunas)]
    BY <2>1 DEF TipePiutang, BentukSesi
  <2>3. mulus \subseteq Sesi
    BY DEF IInv, MulusBenar
  <2>4. QED
    BY <2>2, <2>3 DEF TypeOKPiutang, IInv, TipeData, TipePiutang, KreditDikenal, BentukSesi, Letak
<1>2. InitPiutang => IInv /\ SegarInv /\ TipePiutang
  BY AwalBenar, SegarAwal, PiutangBertipeMula
<1>3. IInv /\ SegarInv /\ TipePiutang /\ [NextPiutang]_varsPiutang => (IInv /\ SegarInv /\ TipePiutang)'
  BY Induktif, SegarInduktif, PiutangBertipe
<1>4. QED BY <1>1, <1>2, <1>3, PTL DEF SpecPiutang
=============================================================================
