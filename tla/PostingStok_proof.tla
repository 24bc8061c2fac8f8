------------------------- MODULE PostingStok_proof -------------------------
(***************************************************************************)
(* Proofs about PostingStok, for any documents, products, rooms, months    *)
(* and any number of sessions, each part resting on those before it.       *)
(*                                                                         *)
(* IInv: the types and the two fences.  No row is committed into a closed  *)
(* month, nor into a room that somebody counts.                            *)
(*                                                                         *)
(* JInv: the balances a stock count froze do not drift while it is open,   *)
(* and a receipt or return is never left POSTED under a cancelled          *)
(* purchase.  The first rests on a fence of IInv: no row is committed in a *)
(* room under count.  The second rests on who holds the purchase:          *)
(* a receipt or return from before it looks at its purchase to its COMMIT, *)
(* the cancellation from before it looks for them to its own.              *)
(*                                                                         *)
(* KInv: the rows of a document agree with its status.  Ids are drawn      *)
(* once, and what a transaction has inserted and has left to insert is     *)
(* together what its document wants, which nobody else can change: the     *)
(* session holds the document.                                             *)
(*                                                                         *)
(* SInv, where no document leaves its pairs to the trigger: a session      *)
(* holds the pair of every row it writes before it draws the row's id, so  *)
(* in a pair rows are committed in the order of their ids.  The chain of   *)
(* balances and the place of the opening balance follow.                   *)
(*                                                                         *)
(* BukuInv, from there: what a transaction has written adds up, pair by    *)
(* pair, to what it moves the balances by.  At COMMIT that is the effect   *)
(* of its document, and the transactions implement the serial ledger.      *)
(*                                                                         *)
(* UInv: a session waits for a key above all it holds, and has every key   *)
(* when it begins to write.  Who waits for somebody who waits himself      *)
(* waits below him, or behind him in the same queue, and no circle closes. *)
(***************************************************************************)
EXTENDS PostingStok, PostingBuku, Dasar_proof

Memegang(t, k)  == \E q \in pegang[t] : q.kunci = k

\* A row not yet committed is covered by the locks its trigger took: its
\* month stays open and its room uncounted until the transaction ends.
Terlindung(t, k) ==
  /\ Memegang(t, KPeriode(k.bulan)) /\ k.bulan \notin tutup
  /\ Memegang(t, KRuang(k.ruang))
  /\ OpnameTerbuka(k.ruang) \subseteq {tugas[t].dok}
  /\ k.dok = tugas[t].dok

\* What a session knows, by where it is.
InvSesi(t) ==
  LET g == tugas[t]
      x == BarisBerikut(t) IN
  /\ pc[t] \notin {"idle", "buku"} => g.dok \in Dokumen
  /\ pc[t] \in {"idle", "dokumen", "kunci", "buku", "opname"} => tulis[t] = {}
  /\ pc[t] = "buku"   => Dipenuhi(t, Eksklusifi(KPeriode(g.bulan)))
  /\ pc[t] = "opname" => Dipenuhi(t, Eksklusifi(KRuang(Isi[g.dok].ruang)))
  /\ pc[t] \in {"trg_periode", "trg_ruang", "trg_saldo"} => Berikut(t) # {}
  /\ pc[t] = "trg_periode" => Dipenuhi(t, Bersama(KPeriode(x.bulan)))
  /\ pc[t] \in {"trg_ruang", "trg_saldo"} =>
       Memegang(t, KPeriode(x.bulan)) /\ x.bulan \notin tutup
  /\ pc[t] = "trg_ruang" => Dipenuhi(t, Bersama(KRuang(x.ruang)))
  /\ pc[t] = "trg_saldo" =>
       Memegang(t, KRuang(x.ruang)) /\ OpnameTerbuka(x.ruang) \subseteq {g.dok}
  /\ \A k \in tulis[t] : Terlindung(t, k)

IInv == TypeOK /\ KunciBenar /\ \A t \in Sesi : InvSesi(t)

-----------------------------------------------------------------------------
(* Types of what the handlers load.                                        *)

LEMMA TipePermintaan ==
  /\ \A k \in Kunci : Bersama(k) \in Permintaan /\ Eksklusifi(k) \in Permintaan
  /\ \A d \in Dokumen : KDok(d) \in Kunci
  /\ \A m \in Bulan : KPeriode(m) \in Kunci
  /\ \A r \in Ruang : KRuang(r) \in Kunci
  /\ \A b \in Barang, r \in Ruang : KSaldo(b, r) \in Kunci
BY DEF Permintaan, Mode, Bersama, Eksklusifi, Kunci

LEMMA TipeIsi ==
  ASSUME NEW d \in Dokumen
  PROVE  /\ Isi[d].jenis \in Jenis /\ Isi[d].bulan \in Bulan
         /\ Isi[d].ruang \in Ruang /\ Isi[d].tujuan \in Ruang
         /\ Isi[d].induk \in Dokumen \cup {Nol}
         /\ \A i \in DOMAIN Isi[d].baris :
              i \in Nat /\ Isi[d].baris[i].barang \in Barang /\ Isi[d].baris[i].qty \in Nat
<1> DEFINE B == [barang : Barang, qty : Nat]
<1>1. Isi[d] \in Dok
  BY AsumsiStok DEF AsumsiStok
<1>2. Isi[d].baris \in Seq(B)
  BY <1>1 DEF Dok
<1> HIDE DEF B
<1>3. \A i \in DOMAIN Isi[d].baris : i \in Nat /\ Isi[d].baris[i] \in B
  <2>1. DOMAIN Isi[d].baris = 1..Len(Isi[d].baris) /\ Len(Isi[d].baris) \in Nat
    BY <1>2
  <2>2. QED BY <1>2, <2>1
<1>4. QED BY <1>1, <1>3 DEF Dok, B

\* The balance of a pair is a natural number.
LEMMA TipeSaldo ==
  ASSUME NEW K \in SUBSET BarisKartu, NEW b, NEW r
  PROVE  SaldoTerakhir(K, b, r) \in Nat
<1>1. CASE Terakhir(K, b, r) = {}
  BY <1>1 DEF SaldoTerakhir
<1>2. CASE Terakhir(K, b, r) # {}
  <2>1. (CHOOSE k \in Terakhir(K, b, r) : TRUE) \in Terakhir(K, b, r)
    BY <1>2
  <2>2. Terakhir(K, b, r) \subseteq BarisKartu
    BY DEF Terakhir, Pasangan
  <2>3. QED BY <1>2, <2>1, <2>2 DEF SaldoTerakhir, BarisKartu
<1>3. QED BY <1>1, <1>2

\* The rows a document writes are rows.
LEMMA TipeBaris ==
  ASSUME TypeOK, NEW d \in Dokumen
  PROVE  /\ BarisMasuk(d) \subseteq BarisBaru /\ BarisKeluar(d) \subseteq BarisBaru
         /\ BarisMutasi(d) \subseteq BarisBaru
         /\ BarisOpname(d) \subseteq BarisBaru
         /\ BarisBatal(d) \subseteq BarisBaru
<1>1. \A no \in Nat, i \in DOMAIN Isi[d].baris, r \in Ruang, m \in Nat, k \in Nat :
        Gerak(no, d, i, r, m, k) \in BarisBaru
  BY TipeIsi DEF Gerak, BarisBaru, Nol
<1>2. BarisMasuk(d) \subseteq BarisBaru /\ BarisKeluar(d) \subseteq BarisBaru
  BY <1>1, TipeIsi DEF BarisMasuk, BarisKeluar
<1>3. BarisMutasi(d) \subseteq BarisBaru
  <2>1. \A i \in DOMAIN Isi[d].baris : 2 * i \in Nat /\ 2 * i + 1 \in Nat
    BY TipeIsi
  <2>2. QED BY <1>1, <2>1, TipeIsi DEF BarisMutasi
<1>4. BarisOpname(d) \subseteq BarisBaru
  <2>1. \A i \in DOMAIN Isi[d].baris : sistem[d][Isi[d].baris[i].barang] \in Int
    BY TipeIsi DEF TypeOK
  <2> DEFINE s(i) == sistem[d][Isi[d].baris[i].barang]
             q(i) == Isi[d].baris[i].qty
  <2>2. \A i \in Terhitung(d) : i \in DOMAIN Isi[d].baris
    BY DEF Terhitung, TerhitungDari
  <2>3. \A i \in Terhitung(d) : /\ q(i) > s(i) => q(i) - s(i) \in Nat
                               /\ q(i) < s(i) => s(i) - q(i) \in Nat
    BY <2>1, <2>2, TipeIsi
  <2>4. \A i \in Terhitung(d) : i \in Nat /\ Isi[d].ruang \in Ruang
    BY <2>2, TipeIsi
  <2>5. \A i \in Terhitung(d) :
          /\ q(i) > s(i) => Gerak(i, d, i, Isi[d].ruang, q(i) - s(i), 0) \in BarisBaru
          /\ q(i) < s(i) => Gerak(i, d, i, Isi[d].ruang, 0, s(i) - q(i)) \in BarisBaru
    <3> TAKE i \in Terhitung(d)
    <3>1. i \in DOMAIN Isi[d].baris /\ i \in Nat /\ Isi[d].ruang \in Ruang
      BY <2>2, <2>4
    <3>2. CASE q(i) > s(i)
      <4>1. q(i) - s(i) \in Nat /\ 0 \in Nat /\ ~(q(i) < s(i))
        BY <2>1, <2>2, <2>3, <3>2, TipeIsi
      <4>2. QED BY <1>1, <3>1, <4>1
    <3>3. CASE q(i) < s(i)
      <4>1. s(i) - q(i) \in Nat /\ 0 \in Nat /\ ~(q(i) > s(i))
        BY <2>1, <2>2, <2>3, <3>3, TipeIsi
      <4>2. QED BY <1>1, <3>1, <4>1
    <3>4. QED BY <3>2, <3>3
  <2>6. QED BY <2>5 DEF BarisOpname, BarisOpnameDari, Terhitung
<1>5. BarisBatal(d) \subseteq BarisBaru
  BY AsumsiStok DEF BarisBatal, BarisBaru, BarisKartu, TypeOK, AsumsiStok
<1>6. QED BY <1>2, <1>3, <1>4, <1>5

\* A document's plan asks for known locks and writes rows.
LEMMA TipeRencana ==
  ASSUME TypeOK, NEW d \in Dokumen
  PROVE  /\ RencanaPosting(d).kunci \subseteq Permintaan
         /\ RencanaPosting(d).baris \subseteq BarisBaru
         /\ RencanaBatal(d).kunci \subseteq Permintaan
         /\ RencanaBatal(d).baris \subseteq BarisBaru
<1>1. RuangDok(d) \subseteq Ruang
  BY TipeIsi DEF RuangDok
<1>2. KunciJalurStok(d) \subseteq Permintaan
  <2>1. \A i \in Terhitung(d) : Isi[d].baris[i].barang \in Barang
    BY TipeIsi DEF Terhitung, TerhitungDari
  <2>2. QED BY <1>1, <2>1, TipeIsi, TipePermintaan DEF KunciJalurStok
<1>3. KunciSaldoBatal(d) \subseteq Permintaan
  BY TipePermintaan DEF KunciSaldoBatal, TypeOK, BarisKartu
<1>4. KunciJalurPembalik(d) \subseteq Permintaan
  BY <1>1, <1>3, TipePermintaan, AsumsiStok DEF KunciJalurPembalik, AsumsiStok
<1>5. /\ RencanaPosting(d).kunci \subseteq Permintaan
      /\ RencanaPosting(d).baris \subseteq BarisBaru
  <2>1. \/ RencanaPosting(d) \in {PostingMutasi(d), PostingPenjualan(d), PostingPemakaian(d),
                                  PostingSaldoAwal(d), PostingOpname(d), PostingPembelian(d)}
        \/ Isi[d].jenis \in Anak /\ RencanaPosting(d) \in {PostingSusulan(d), PostingRetur(d)}
    BY TipeIsi DEF RencanaPosting, Jenis, Anak, Masukan, Keluaran
  <2>2. \A p \in {PostingMutasi(d), PostingPenjualan(d), PostingPemakaian(d), PostingSaldoAwal(d),
                  PostingOpname(d), PostingPembelian(d)} :
          /\ p.kunci \in {{}, KunciJalurStok(d)}
          /\ p.baris \in {BarisMasuk(d), BarisKeluar(d), BarisMutasi(d), BarisOpname(d)}
    BY DEF PostingMutasi, PostingPenjualan, PostingPemakaian, PostingSaldoAwal,
           PostingOpname, PostingPembelian
  <2>3. \A p \in {PostingSusulan(d), PostingRetur(d)} :
          /\ p.kunci = {Eksklusifi(KDok(Isi[d].induk))}
          /\ p.baris \in {BarisMasuk(d), BarisKeluar(d)}
    BY DEF PostingSusulan, PostingRetur
  <2>4. Isi[d].jenis \in Anak => Eksklusifi(KDok(Isi[d].induk)) \in Permintaan
    <3>1. Isi[d].jenis \in Anak => Isi[d].induk \in Dokumen
      BY AsumsiStok DEF AsumsiStok
    <3>2. QED BY <3>1, TipePermintaan
  <2>5. QED BY <1>2, <2>1, <2>2, <2>3, <2>4, TipeBaris
<1>6. /\ RencanaBatal(d).kunci \subseteq Permintaan
      /\ RencanaBatal(d).baris \subseteq BarisBaru
  <2>1. RencanaBatal(d) \in {BatalMutasi(d), BatalPenjualan(d), BatalPemakaian(d), BatalSaldoAwal(d),
                             BatalOpname(d), BatalPembelian(d), BatalSusulan(d), BatalRetur(d)}
    BY DEF RencanaBatal
  <2>2. QED BY <1>3, <1>4, <2>1, TipeBaris, TipePermintaan, TipeIsi
    DEF BatalMutasi, BatalPenjualan, BatalPemakaian, BatalSaldoAwal,
      BatalOpname, BatalPembelian, BatalSusulan, BatalRetur
<1>7. QED BY <1>5, <1>6

-----------------------------------------------------------------------------
(* What a step does to the locks.                                          *)

\* A step asks for one known lock, ends a transaction, lets a session pass
\* in a queue, or leaves the locks alone.
LEMMA JenisLangkah ==
  ASSUME TypeOK, \A t \in Sesi : InvSesi(t), Next
  PROVE  \/ \E t \in Sesi, p \in Permintaan : Jalan(t) /\ Minta(t, p)
         \/ \E t \in Sesi : LepasSemua(t)
         \/ \E t \in Sesi : Susun(t)
         \/ UNCHANGED kunciVars
<1> DEFINE Hasil == \/ \E t \in Sesi, p \in Permintaan : Jalan(t) /\ Minta(t, p)
                    \/ \E t \in Sesi : LepasSemua(t)
                    \/ \E t \in Sesi : Susun(t)
                    \/ UNCHANGED kunciVars
<1>1. ASSUME NEW t \in Sesi, Bersih(t) PROVE Hasil
  BY <1>1 DEF Bersih
<1>2. ASSUME NEW t \in Sesi, Gagal(t) PROVE Hasil
  BY <1>1, <1>2 DEF Gagal
<1>3. ASSUME NEW t \in Sesi, Mulai(t) PROVE Hasil
  <2>1. PICK g \in PermintaanMungkin : Minta(t, KunciPertama(g))
    BY <1>3 DEF Mulai
  <2>2. \/ g.aksi \in {"posting", "batal"} /\ g.dok \in Dokumen
        \/ g.aksi = "opname_baru" /\ g.dok \in Dokumen
        \/ g.aksi \in {"tutup", "buka"} /\ g.bulan \in Bulan
    BY DEF PermintaanMungkin
  <2>3. KunciPertama(g) \in Permintaan
    <3>1. CASE g.aksi \in {"posting", "batal"}
      <4>1. KunciPertama(g) = Eksklusifi(KDok(g.dok))
        BY <3>1 DEF KunciPertama
      <4>2. QED BY <2>2, <3>1, <4>1, TipePermintaan
    <3>2. CASE g.aksi = "opname_baru"
      <4>1. KunciPertama(g) = Eksklusifi(KRuang(Isi[g.dok].ruang))
        BY <3>2 DEF KunciPertama
      <4>2. QED BY <2>2, <3>2, <4>1, TipePermintaan, TipeIsi
    <3>3. CASE g.aksi \in {"tutup", "buka"}
      <4>1. KunciPertama(g) = Eksklusifi(KPeriode(g.bulan))
        BY <3>3 DEF KunciPertama
      <4>2. QED BY <2>2, <3>3, <4>1, TipePermintaan
    <3>4. QED BY <2>2, <3>1, <3>2, <3>3
  <2>4. QED BY <1>3, <2>1, <2>3 DEF Mulai
<1>4. ASSUME NEW t \in Sesi, PeriksaDokumen(t) PROVE Hasil
  BY <1>2, <1>4 DEF PeriksaDokumen
<1>5. ASSUME NEW t \in Sesi, AmbilKunci(t) PROVE Hasil
  BY <1>5 DEF AmbilKunci, TypeOK
<1>6. ASSUME NEW t \in Sesi, PeriksaAwal(t) PROVE Hasil
  BY <1>2, <1>6 DEF PeriksaAwal
<1>7. ASSUME NEW t \in Sesi, Berikut(t) # {}
      PROVE  BarisBerikut(t) \in BarisBaru
  BY <1>7 DEF BarisBerikut, Berikut, TypeOK
<1>8. ASSUME NEW t \in Sesi, Sisip(t) PROVE Hasil
  <2>1. Bersama(KPeriode(BarisBerikut(t).bulan)) \in Permintaan
    BY <1>7, <1>8, TipePermintaan DEF Sisip, BarisBaru
  <2>2. QED BY <1>8, <2>1 DEF Sisip
<1>9. ASSUME NEW t \in Sesi, TrgPeriode(t) PROVE Hasil
  <2>1. Bersama(KRuang(BarisBerikut(t).ruang)) \in Permintaan
    BY <1>7, <1>9, TipePermintaan DEF TrgPeriode, InvSesi, BarisBaru
  <2>2. QED BY <1>2, <1>9, <2>1 DEF TrgPeriode
<1>10. ASSUME NEW t \in Sesi, TrgRuang(t) PROVE Hasil
  <2>1. Eksklusifi(KSaldo(BarisBerikut(t).barang, BarisBerikut(t).ruang)) \in Permintaan
    BY <1>7, <1>10, TipePermintaan DEF TrgRuang, InvSesi, BarisBaru
  <2>2. QED BY <1>2, <1>10, <2>1 DEF TrgRuang
<1>11. ASSUME NEW t \in Sesi, TrgSaldo(t) PROVE Hasil
  BY <1>2, <1>11 DEF TrgSaldo
<1>12. ASSUME NEW t \in Sesi, Perbarui(t) PROVE Hasil
  <2>1. tugas[t].dok \in Dokumen
    BY <1>12 DEF Perbarui, InvSesi
  <2>2. KunciAkhir(tugas[t].dok) \in Permintaan
    BY <2>1, TipePermintaan, AsumsiStok DEF KunciAkhir, AsumsiStok
  <2>3. QED BY <1>12, <2>2 DEF Perbarui
<1>13. ASSUME NEW t \in Sesi, Selesai(t) PROVE Hasil
  BY <1>1, <1>2, <1>13 DEF Selesai
<1>14. ASSUME NEW t \in Sesi, TutupBuku(t) \/ BukaBuku(t) PROVE Hasil
  BY <1>1, <1>2, <1>14 DEF TutupBuku, BukaBuku
<1>15. ASSUME NEW t \in Sesi, BukaOpname(t) PROVE Hasil
  BY <1>1, <1>2, <1>15 DEF BukaOpname
<1>16. ASSUME NEW t \in Sesi, SusunAntrean(t) \/ BatalkanKorban(t) PROVE Hasil
  BY <1>2, <1>16 DEF SusunAntrean, BatalkanKorban
<1>17. ASSUME NEW d \in Dokumen, TarikSaldo(d) \/ ReplaceDetail(d) \/ Ajukan(d) \/ Tolak(d)
       PROVE Hasil
  BY <1>17 DEF TarikSaldo, ReplaceDetail, Ajukan, Tolak
<1>18. ASSUME Diam PROVE Hasil
  BY <1>18 DEF Diam, vars
<1>19. QED
  BY <1>3, <1>4, <1>5, <1>6, <1>8, <1>9, <1>10, <1>11, <1>12, <1>13, <1>14, <1>15,
     <1>16, <1>17, <1>18 DEF Next, Langkah

\* So the locks keep their types, stay exclusive and their queues ordered.
LEMMA KunciTerjaga ==
  ASSUME TypeOK, KunciBenar, \A t \in Sesi : InvSesi(t), [Next]_vars
  PROVE  TipeKunci(Permintaan)' /\ KunciBenar'
<1>0. TipeKunci(Permintaan)
  BY DEF TypeOK
<1>1. CASE UNCHANGED kunciVars
  BY <1>0, <1>1 DEF kunciVars, TipeKunci, KunciBenar, Eksklusif, AntreanUrut
<1>2. ASSUME NEW t \in Sesi, NEW p \in Permintaan, Jalan(t), Minta(t, p)
      PROVE  TipeKunci(Permintaan)' /\ KunciBenar'
  BY <1>0, <1>2, MintaMaju, MintaBenar
<1>3. ASSUME NEW t \in Sesi, LepasSemua(t)
      PROVE  TipeKunci(Permintaan)' /\ KunciBenar'
  BY <1>0, <1>3, LepasMaju, LepasBenar
<1>4. ASSUME NEW t \in Sesi, Susun(t)
      PROVE  TipeKunci(Permintaan)' /\ KunciBenar'
  BY <1>0, <1>4, SusunMaju, SusunBenar
<1>5. CASE UNCHANGED vars
  BY <1>1, <1>5 DEF vars
<1>6. QED BY <1>1, <1>2, <1>3, <1>4, <1>5, JenisLangkah

-----------------------------------------------------------------------------
(* Types.                                                                  *)
TipeData ==
  /\ kartu \subseteq BarisKartu /\ nextId \in Nat
  /\ status \in [Dokumen -> StatusDok]
  /\ tutup \subseteq Bulan
  /\ sistem \in [Dokumen -> [Barang -> Int]]
  /\ mulai \in Nat

TipeSesi ==
  /\ pc \in [Sesi -> LangkahSesi]
  /\ tugas \in [Sesi -> Tugas]
  /\ perlu \in [Sesi -> SUBSET Permintaan]
  /\ baris \in [Sesi -> SUBSET BarisBaru]
  /\ idBaru \in [Sesi -> Nat]
  /\ tulis \in [Sesi -> SUBSET BarisKartu]

LEMMA TipeOKBagian == TypeOK <=> TipeKunci(Permintaan) /\ TipeData /\ TipeSesi
BY DEF TypeOK, TipeData, TipeSesi

\* A session that ends leaves well typed variables behind.
LEMMA TipeBersih ==
  ASSUME TipeSesi, NEW t \in Sesi, Bersih(t)
  PROVE  TipeSesi'
<1>1. Menganggur \in Tugas
  BY AsumsiStok DEF AsumsiStok, Menganggur, Tugas, Aksi, Nol
<1>2. QED BY <1>1 DEF TipeSesi, Bersih, Lupa, LangkahSesi

LEMMA TipeGagal ==
  ASSUME TipeData, TipeSesi, NEW t \in Sesi, Gagal(t)
  PROVE  TipeData' /\ TipeSesi'
BY TipeBersih DEF Gagal, TipeData, dataVars

LEMMA TipeTerjaga ==
  ASSUME TypeOK, \A t \in Sesi : InvSesi(t), [Next]_vars
  PROVE  TipeData' /\ TipeSesi'
<1> USE TipeOKBagian
<1>1. ASSUME NEW t \in Sesi, Mulai(t) PROVE TipeData' /\ TipeSesi'
  <2>1. PICK g \in PermintaanMungkin : /\ tugas' = [tugas EXCEPT ![t] = g]
                                      /\ pc' = [pc EXCEPT ![t] = LangkahPertama(g)]
    BY <1>1 DEF Mulai
  <2>2. g \in Tugas
    BY AsumsiStok DEF PermintaanMungkin, Tugas, Aksi, Nol, AsumsiStok
  <2>3. LangkahPertama(g) \in LangkahSesi
    BY DEF LangkahPertama, LangkahSesi
  <2>4. TipeData'
    BY <1>1 DEF Mulai, TipeData, dataVars
  <2>5. TipeSesi'
    BY <1>1, <2>1, <2>2, <2>3 DEF Mulai, TipeSesi
  <2>6. QED BY <2>4, <2>5
<1>2. ASSUME NEW t \in Sesi, PeriksaDokumen(t) PROVE TipeData' /\ TipeSesi'
  <2> DEFINE r == Rencana(tugas[t])
  <2>1. r.kunci \subseteq Permintaan /\ r.baris \subseteq BarisBaru
    <3>1. tugas[t].dok \in Dokumen
      BY <1>2 DEF PeriksaDokumen, InvSesi
    <3>2. QED BY <3>1, TipeRencana DEF Rencana
  <2> HIDE DEF r
  <2>2. CASE /\ pc' = [pc EXCEPT ![t] = "kunci"]
             /\ baris' = [baris EXCEPT ![t] = r.baris]
             /\ perlu' = [perlu EXCEPT ![t] = r.kunci]
             /\ UNCHANGED <<kunciVars, dataVars, tugas, idBaru, tulis, nextId, mulai>>
    BY <2>1, <2>2 DEF TipeData, TipeSesi, dataVars, LangkahSesi
  <2>3. QED BY <1>2, <2>2, TipeGagal DEF PeriksaDokumen, r
<1>3. ASSUME NEW t \in Sesi, AmbilKunci(t) PROVE TipeData' /\ TipeSesi'
  BY <1>3 DEF AmbilKunci, TipeData, TipeSesi, dataVars
<1>4. ASSUME NEW t \in Sesi, PeriksaAwal(t) PROVE TipeData' /\ TipeSesi'
  <2>1. CASE /\ pc' = [pc EXCEPT ![t] = "sisip"]
             /\ UNCHANGED <<kunciVars, dataVars, tugas, perlu, baris, idBaru, tulis, nextId, mulai>>
    BY <2>1 DEF TipeData, TipeSesi, dataVars, LangkahSesi
  <2>2. QED BY <1>4, <2>1, TipeGagal DEF PeriksaAwal
<1>5. ASSUME NEW t \in Sesi, Sisip(t) PROVE TipeData' /\ TipeSesi'
  BY <1>5 DEF Sisip, TipeData, TipeSesi, dataVars, LangkahSesi
<1>6. ASSUME NEW t \in Sesi, TrgPeriode(t) PROVE TipeData' /\ TipeSesi'
  <2>1. CASE /\ pc' = [pc EXCEPT ![t] = "trg_ruang"]
             /\ UNCHANGED <<dataVars, tugas, perlu, baris, idBaru, tulis, nextId, mulai>>
    BY <2>1 DEF TipeData, TipeSesi, dataVars, LangkahSesi
  <2>2. QED BY <1>6, <2>1, TipeGagal DEF TrgPeriode
<1>7. ASSUME NEW t \in Sesi, TrgRuang(t) PROVE TipeData' /\ TipeSesi'
  <2>1. CASE /\ pc' = [pc EXCEPT ![t] = "trg_saldo"]
             /\ UNCHANGED <<dataVars, tugas, perlu, baris, idBaru, tulis, nextId, mulai>>
    BY <2>1 DEF TipeData, TipeSesi, dataVars, LangkahSesi
  <2>2. QED BY <1>7, <2>1, TipeGagal DEF TrgRuang
<1>8. ASSUME NEW t \in Sesi, TrgSaldo(t) PROVE TipeData' /\ TipeSesi'
  <2> DEFINE x == BarisBerikut(t)
             lalu == SaldoTerakhir(kartu \cup tulis[t], x.barang, x.ruang)
             akhir == lalu + x.masuk - x.keluar
             k == [id |-> idBaru[t], barang |-> x.barang, ruang |-> x.ruang,
                   masuk |-> x.masuk, keluar |-> x.keluar, awal |-> lalu, akhir |-> akhir,
                   bulan |-> x.bulan, dok |-> tugas[t].dok, asal |-> x.asal]
  <2>1. x \in BarisBaru
    BY <1>8 DEF TrgSaldo, InvSesi, BarisBerikut, Berikut, TipeSesi
  <2>2. lalu \in Nat
    BY TipeSaldo DEF TipeData, TipeSesi
  <2>3. CASE /\ akhir >= 0
             /\ tulis' = [tulis EXCEPT ![t] = @ \cup {k}]
             /\ baris' = [baris EXCEPT ![t] = @ \ {x}]
             /\ pc' = [pc EXCEPT ![t] = "sisip"]
             /\ UNCHANGED <<kunciVars, dataVars, tugas, perlu, idBaru, nextId, mulai>>
    <3>1. tugas[t].dok \in Dokumen \cup {Nol} /\ idBaru[t] \in Nat
      BY DEF TipeSesi, Tugas
    <3> HIDE DEF x, lalu
    <3>2. akhir \in Nat
      BY <2>1, <2>2, <2>3 DEF BarisBaru
    <3>3. k \in BarisKartu
      BY <2>1, <2>2, <3>1, <3>2 DEF BarisKartu, BarisBaru
    <3> HIDE DEF k, akhir
    <3>4. QED BY <2>3, <3>3 DEF TipeData, TipeSesi, dataVars, LangkahSesi
  <2>4. QED BY <1>8, <2>3, TipeGagal DEF TrgSaldo, CukupStok
<1>9. ASSUME NEW t \in Sesi, Perbarui(t) PROVE TipeData' /\ TipeSesi'
  BY <1>9 DEF Perbarui, TipeData, TipeSesi, dataVars, LangkahSesi
<1>10. ASSUME NEW t \in Sesi, Selesai(t) PROVE TipeData' /\ TipeSesi'
  <2>1. CASE /\ kartu' = kartu \cup tulis[t]
             /\ status' = [status EXCEPT ![tugas[t].dok] =
                             IF tugas[t].aksi = "posting" THEN "POSTED" ELSE "BATAL"]
             /\ Bersih(t)
             /\ UNCHANGED <<tutup, sistem, nextId, mulai>>
    <3>1. TipeData'
      BY <2>1 DEF TipeData, TipeSesi, StatusDok
    <3>2. QED BY <2>1, <3>1, TipeBersih
  <2>2. QED BY <1>10, <2>1, TipeGagal DEF Selesai
<1>11. ASSUME NEW t \in Sesi, TutupBuku(t) \/ BukaBuku(t) PROVE TipeData' /\ TipeSesi'
  <2>1. CASE /\ tutup' = tutup \cup {tugas[t].bulan} \/ tutup' = tutup \ {tugas[t].bulan}
             /\ Bersih(t)
             /\ UNCHANGED <<kartu, status, sistem, nextId, mulai>>
    <3>1. TipeData'
      BY <2>1 DEF TipeData, TipeSesi, Tugas
    <3>2. QED BY <2>1, <3>1, TipeBersih
  <2>2. QED BY <1>11, <2>1, TipeGagal DEF TutupBuku, BukaBuku
<1>12. ASSUME NEW t \in Sesi, BukaOpname(t) PROVE TipeData' /\ TipeSesi'
  <2>1. CASE /\ status' = [status EXCEPT ![tugas[t].dok] = "DRAFT"]
             /\ Bersih(t)
             /\ UNCHANGED <<kartu, tutup, sistem, nextId, mulai>>
    <3>1. TipeData'
      BY <2>1 DEF TipeData, StatusDok
    <3>2. QED BY <2>1, <3>1, TipeBersih
  <2>2. QED BY <1>12, <2>1, TipeGagal DEF BukaOpname
<1>13. ASSUME NEW t \in Sesi, SusunAntrean(t) PROVE TipeData' /\ TipeSesi'
  BY <1>13 DEF SusunAntrean, TipeData, TipeSesi, dataVars, sesiVars
<1>14. ASSUME NEW t \in Sesi, BatalkanKorban(t) PROVE TipeData' /\ TipeSesi'
  BY <1>14, TipeGagal DEF BatalkanKorban
<1>15. ASSUME NEW d \in Dokumen, TarikSaldo(d) \/ ReplaceDetail(d) PROVE TipeData' /\ TipeSesi'
  <2>1. \A b \in Barang : SaldoTerakhir(kartu, b, Isi[d].ruang) \in Int
    BY TipeSaldo DEF TipeData
  <2>2. \E f \in [Barang -> Int] : sistem' = [sistem EXCEPT ![d] = f]
    <3>1. CASE TarikSaldo(d)
      <4> DEFINE f == [b \in Barang |-> IF Pasangan(kartu, b, Isi[d].ruang) = {} THEN -1
                                        ELSE SaldoTerakhir(kartu, b, Isi[d].ruang)]
      <4>1. f \in [Barang -> Int]
        BY <2>1
      <4>2. sistem' = [sistem EXCEPT ![d] = f]
        BY <3>1 DEF TarikSaldo
      <4> HIDE DEF f
      <4>3. QED BY <4>1, <4>2
    <3>2. CASE ReplaceDetail(d)
      <4>1. PICK S : sistem' = [sistem EXCEPT ![d] = [b \in Barang |->
                       IF b \in S THEN SaldoTerakhir(kartu, b, Isi[d].ruang) ELSE -1]]
        BY <3>2 DEF ReplaceDetail
      <4> DEFINE f == [b \in Barang |->
                       IF b \in S THEN SaldoTerakhir(kartu, b, Isi[d].ruang) ELSE -1]
      <4>2. f \in [Barang -> Int]
        BY <2>1
      <4>3. sistem' = [sistem EXCEPT ![d] = f]
        BY <4>1
      <4> HIDE DEF f
      <4>4. QED BY <4>2, <4>3
    <3>3. QED BY <1>15, <3>1, <3>2
  <2>3. UNCHANGED <<kartu, nextId, status, tutup, mulai, sesiVars>>
    BY <1>15 DEF TarikSaldo, ReplaceDetail
  <2>4. TipeData'
    BY <2>2, <2>3 DEF TipeData
  <2>5. TipeSesi'
    BY <2>3 DEF TipeSesi, sesiVars
  <2>6. QED BY <2>4, <2>5
<1>16. ASSUME NEW d \in Dokumen, Ajukan(d) \/ Tolak(d) PROVE TipeData' /\ TipeSesi'
  BY <1>16 DEF Ajukan, Tolak, TipeData, TipeSesi, sesiVars, StatusDok
<1>17. CASE UNCHANGED vars
  BY <1>17 DEF vars, dataVars, sesiVars, TipeData, TipeSesi
<1>18. QED
  BY <1>1, <1>2, <1>3, <1>4, <1>5, <1>6, <1>7, <1>8, <1>9, <1>10, <1>11, <1>12,
     <1>13, <1>14, <1>15, <1>16, <1>17 DEF Next, Langkah, Diam
-----------------------------------------------------------------------------
(* What the other sessions know survives a step.                           *)

\* A session that is not waiting holds what it asked for.
LEMMA DipenuhiJalan ==
  ASSUME NEW t \in Sesi, NEW p, Jalan(t), Dipenuhi(t, p)
  PROVE  Memegang(t, p.kunci) /\ (p.mode = "X" => MemegangX(t, p.kunci))
BY DEF Jalan, Dipenuhi, Memegang, MemegangX

\* Nobody holds a key that somebody else holds exclusively.
LEMMA Asing ==
  ASSUME KunciBenar, NEW t \in Sesi, NEW u \in Sesi, t # u, NEW k, MemegangX(t, k)
  PROVE  ~Memegang(u, k)
BY DEF KunciBenar, Eksklusif, MemegangX, Memegang, Bentrok

\* Nothing that u holds stops covering what u has written, if no month it
\* holds is closed and no count is opened in a room it holds.
Aman(u) ==
  /\ \A m : Memegang(u, KPeriode(m)) /\ m \notin tutup => m \notin tutup'
  /\ \A r : Memegang(u, KRuang(r)) => OpnameTerbuka(r)' \subseteq OpnameTerbuka(r)

LEMMA AmanTetap ==
  ASSUME NEW u, UNCHANGED tutup, \A r : OpnameTerbuka(r)' \subseteq OpnameTerbuka(r)
  PROVE  Aman(u)
BY DEF Aman

LEMMA TerlindungTetap ==
  ASSUME NEW u, pegang[u] \subseteq pegang'[u], tugas'[u] = tugas[u], Aman(u),
         NEW k, Terlindung(u, k)
  PROVE  Terlindung(u, k)'
<1>1. /\ Memegang(u, KPeriode(k.bulan)) /\ k.bulan \notin tutup
      /\ Memegang(u, KRuang(k.ruang))
      /\ OpnameTerbuka(k.ruang) \subseteq {tugas[u].dok}
      /\ k.dok = tugas[u].dok
  BY DEF Terlindung
<1>2. \A l : Memegang(u, l) => Memegang(u, l)'
  BY DEF Memegang
<1>3. Memegang(u, KPeriode(k.bulan))' /\ Memegang(u, KRuang(k.ruang))'
  <2>1. KPeriode(k.bulan)' = KPeriode(k.bulan) /\ KRuang(k.ruang)' = KRuang(k.ruang)
    BY DEF KPeriode, KRuang
  <2>2. QED BY <1>1, <1>2 DEF Memegang, KPeriode, KRuang
<1>4. k.bulan \notin tutup' /\ OpnameTerbuka(k.ruang)' \subseteq {tugas[u].dok}
  BY <1>1 DEF Aman
<1>5. QED BY <1>1, <1>3, <1>4 DEF Terlindung

LEMMA SesiLain ==
  ASSUME NEW u \in Sesi, InvSesi(u), Maju(u), Aman(u),
         pc'[u] = pc[u], tugas'[u] = tugas[u], baris'[u] = baris[u], tulis'[u] = tulis[u]
  PROVE  InvSesi(u)'
<1>1. Berikut(u)' = Berikut(u)
  BY DEF Berikut
<1>2. BarisBerikut(u)' = BarisBerikut(u)
  BY <1>1 DEF BarisBerikut
<1>3. \A p : Dipenuhi(u, p) => Dipenuhi(u, p)'
  BY DEF Dipenuhi, Maju
<1>4. \A l : Memegang(u, l) => Memegang(u, l)'
  BY DEF Memegang, Maju
<1>5. \A k \in tulis'[u] : Terlindung(u, k)'
  BY TerlindungTetap DEF InvSesi, Maju
<1>6. pc[u] \in {"trg_ruang", "trg_saldo"} => BarisBerikut(u).bulan \notin tutup'
  BY DEF InvSesi, Aman
<1>7. pc[u] = "trg_saldo" =>
        OpnameTerbuka(BarisBerikut(u).ruang)' \subseteq {tugas[u].dok}
  BY <1>2 DEF InvSesi, Aman
<1>8. QED BY <1>1, <1>2, <1>3, <1>4, <1>5, <1>6, <1>7
          DEF InvSesi, Bersama, Eksklusifi, KPeriode, KRuang

-----------------------------------------------------------------------------
(* What the acting session knows after its step.                           *)

\* The end of a transaction leaves nothing to know.
LEMMA SesiBersih ==
  ASSUME TypeOK, NEW t \in Sesi, Bersih(t)
  PROVE  InvSesi(t)'
<1>1. pc'[t] = "idle" /\ tulis'[t] = {}
  BY DEF Bersih, Lupa, TypeOK
<1>2. QED BY <1>1 DEF InvSesi

\* Of the others, the end of a transaction changes nothing but their locks.
LEMMA LainBersih ==
  ASSUME TypeOK, NEW t \in Sesi, Bersih(t), NEW u \in Sesi, u # t, InvSesi(u), Aman(u)
  PROVE  InvSesi(u)'
<1>1. Maju(u)
  BY LepasMaju DEF Bersih, TypeOK
<1>2. pc'[u] = pc[u] /\ tugas'[u] = tugas[u] /\ baris'[u] = baris[u] /\ tulis'[u] = tulis[u]
  BY DEF Bersih, Lupa, TypeOK
<1>3. QED BY <1>1, <1>2, SesiLain

\* Nothing but the locks moves when the data does not.
LEMMA AmanDiam ==
  ASSUME UNCHANGED <<status, tutup>>, NEW u
  PROVE  Aman(u)
BY DEF Aman, OpnameTerbuka

\* A rollback preserves what everybody knows.
LEMMA SesiGagal ==
  ASSUME TypeOK, \A u \in Sesi : InvSesi(u), NEW t \in Sesi, Gagal(t)
  PROVE  \A u \in Sesi : InvSesi(u)'
<1>1. Bersih(t) /\ UNCHANGED <<status, tutup>>
  BY DEF Gagal, dataVars
<1>2. QED BY <1>1, SesiBersih, LainBersih, AmanDiam

\* So does a step that asks for a lock and moves only its own session, if
\* the session knows what it must where it goes.
LEMMA SesiMinta ==
  ASSUME TypeOK, \A u \in Sesi : InvSesi(u), NEW t \in Sesi, NEW p \in Permintaan,
         Minta(t, p), UNCHANGED <<status, tutup>>,
         \A u \in Sesi : u # t => /\ pc'[u] = pc[u] /\ tugas'[u] = tugas[u]
                                  /\ baris'[u] = baris[u] /\ tulis'[u] = tulis[u]
  PROVE  /\ \A u \in Sesi : u # t => InvSesi(u)'
         /\ pegang[t] \subseteq pegang'[t]
         /\ Dipenuhi(t, p)'
<1>1. /\ \A u \in Sesi : u # t => Maju(u)
      /\ pegang[t] \subseteq pegang'[t]
      /\ Dipenuhi(t, p)'
  BY MintaMaju DEF TypeOK
<1>2. QED BY <1>1, SesiLain, AmanDiam

\* The rows written so far stay covered by a step of their own session.
LEMMA TulisTetap ==
  ASSUME NEW t \in Sesi, InvSesi(t), pegang[t] \subseteq pegang'[t],
         tugas'[t] = tugas[t], tulis'[t] = tulis[t], UNCHANGED <<status, tutup>>
  PROVE  \A k \in tulis'[t] : Terlindung(t, k)'
BY AmanDiam, TerlindungTetap DEF InvSesi

-----------------------------------------------------------------------------
\* Every step preserves what the sessions know.
LEMMA SesiTerjaga ==
  ASSUME IInv, [Next]_vars
  PROVE  \A u \in Sesi : InvSesi(u)'
<1> DEFINE Hasil == \A u \in Sesi : InvSesi(u)'
<1>0. TypeOK /\ KunciBenar /\ \A u \in Sesi : InvSesi(u)
  BY DEF IInv
<1>1. ASSUME NEW t \in Sesi, Gagal(t) PROVE Hasil
  BY <1>0, <1>1, SesiGagal
<1>2. ASSUME NEW t \in Sesi, Berikut(t) # {}
      PROVE  BarisBerikut(t) \in BarisBaru
  BY <1>0, <1>2 DEF BarisBerikut, Berikut, TypeOK
<1>3. ASSUME NEW t \in Sesi, Mulai(t) PROVE Hasil
  <2>1. PICK g \in PermintaanMungkin : /\ tugas' = [tugas EXCEPT ![t] = g]
                                      /\ pc' = [pc EXCEPT ![t] = LangkahPertama(g)]
                                      /\ Minta(t, KunciPertama(g))
    BY <1>3 DEF Mulai
  <2>2. pc'[t] = LangkahPertama(g) /\ tugas'[t] = g /\ tulis'[t] = {}
    BY <1>0, <1>3, <2>1 DEF Mulai, TypeOK, InvSesi
  <2>3. \/ /\ g.aksi \in {"posting", "batal"} /\ g.dok \in Dokumen
           /\ KunciPertama(g) = Eksklusifi(KDok(g.dok)) /\ LangkahPertama(g) = "dokumen"
        \/ /\ g.aksi = "opname_baru" /\ g.dok \in Dokumen
           /\ KunciPertama(g) = Eksklusifi(KRuang(Isi[g.dok].ruang))
           /\ LangkahPertama(g) = "opname"
        \/ /\ g.aksi \in {"tutup", "buka"} /\ g.bulan \in Bulan
           /\ KunciPertama(g) = Eksklusifi(KPeriode(g.bulan)) /\ LangkahPertama(g) = "buku"
    BY DEF PermintaanMungkin, KunciPertama, LangkahPertama
  <2>4. KunciPertama(g) \in Permintaan
    BY <2>3, TipePermintaan, TipeIsi
  <2>5. /\ \A u \in Sesi : u # t => InvSesi(u)'
        /\ Dipenuhi(t, KunciPertama(g))'
    <3>1. UNCHANGED <<status, tutup>>
      BY <1>3 DEF Mulai, dataVars
    <3>2. \A u \in Sesi : u # t => /\ pc'[u] = pc[u] /\ tugas'[u] = tugas[u]
                                  /\ baris'[u] = baris[u] /\ tulis'[u] = tulis[u]
      BY <1>0, <1>3, <2>1 DEF Mulai, TypeOK
    <3>3. QED BY <1>0, <2>1, <2>4, <3>1, <3>2, SesiMinta
  <2>6. InvSesi(t)'
    <3>1. CASE LangkahPertama(g) = "dokumen"
      BY <2>2, <2>3, <3>1 DEF InvSesi
    <3>2. CASE LangkahPertama(g) = "opname"
      <4>1. g.dok \in Dokumen /\ KunciPertama(g) = Eksklusifi(KRuang(Isi[g.dok].ruang))
        BY <2>3, <3>2
      <4>2. Dipenuhi(t, Eksklusifi(KRuang(Isi[tugas[t].dok].ruang)))'
        BY <2>2, <2>5, <4>1 DEF Dipenuhi, Eksklusifi, KRuang
      <4>3. QED BY <2>2, <3>2, <4>1, <4>2 DEF InvSesi
    <3>3. CASE LangkahPertama(g) = "buku"
      <4>1. KunciPertama(g) = Eksklusifi(KPeriode(g.bulan))
        BY <2>3, <3>3
      <4>2. Dipenuhi(t, Eksklusifi(KPeriode(tugas[t].bulan)))'
        BY <2>2, <2>5, <4>1 DEF Dipenuhi, Eksklusifi, KPeriode
      <4>3. QED BY <2>2, <3>3, <4>2 DEF InvSesi
    <3>4. QED BY <2>3, <3>1, <3>2, <3>3
  <2>7. QED BY <2>5, <2>6
<1>4. ASSUME NEW t \in Sesi, PeriksaDokumen(t) PROVE Hasil
  <2>1. CASE /\ pc' = [pc EXCEPT ![t] = "kunci"]
             /\ baris' = [baris EXCEPT ![t] = Rencana(tugas[t]).baris]
             /\ UNCHANGED <<kunciVars, dataVars, tugas, tulis>>
    <3>1. InvSesi(t)'
      BY <1>0, <1>4, <2>1 DEF PeriksaDokumen, InvSesi, TypeOK
    <3>2. ASSUME NEW u \in Sesi, u # t PROVE InvSesi(u)'
      <4>1. /\ pc'[u] = pc[u] /\ tugas'[u] = tugas[u]
            /\ baris'[u] = baris[u] /\ tulis'[u] = tulis[u] /\ Maju(u)
        BY <1>0, <2>1, <3>2 DEF TypeOK, Maju, kunciVars
      <4>2. Aman(u)
        BY <2>1, AmanDiam DEF dataVars
      <4>3. QED BY <1>0, <4>1, <4>2, SesiLain
    <3>3. QED BY <3>1, <3>2
  <2>2. QED BY <1>1, <1>4, <2>1 DEF PeriksaDokumen
<1>5. ASSUME NEW t \in Sesi, AmbilKunci(t) PROVE Hasil
  <2>1. PICK p \in perlu[t] : Minta(t, p)
    BY <1>5 DEF AmbilKunci
  <2>2. p \in Permintaan
    BY <1>0, <2>1 DEF TypeOK
  <2>3. \A u \in Sesi : u # t => InvSesi(u)'
    BY <1>0, <1>5, <2>1, <2>2, SesiMinta DEF AmbilKunci, dataVars
  <2>4. InvSesi(t)'
    BY <1>0, <1>5 DEF AmbilKunci, InvSesi
  <2>5. QED BY <2>3, <2>4
<1>6. ASSUME NEW t \in Sesi, PeriksaAwal(t) PROVE Hasil
  <2>1. CASE /\ pc' = [pc EXCEPT ![t] = "sisip"]
             /\ UNCHANGED <<kunciVars, dataVars, tugas, perlu, baris, idBaru, tulis, nextId, mulai>>
    <3>1. InvSesi(t)'
      BY <1>0, <1>6, <2>1 DEF PeriksaAwal, InvSesi, TypeOK
    <3>2. ASSUME NEW u \in Sesi, u # t PROVE InvSesi(u)'
      <4>1. /\ pc'[u] = pc[u] /\ tugas'[u] = tugas[u]
            /\ baris'[u] = baris[u] /\ tulis'[u] = tulis[u] /\ Maju(u)
        BY <1>0, <2>1, <3>2 DEF TypeOK, Maju, kunciVars
      <4>2. Aman(u)
        BY <2>1, AmanDiam DEF dataVars
      <4>3. QED BY <1>0, <4>1, <4>2, SesiLain
    <3>3. QED BY <3>1, <3>2
  <2>2. QED BY <1>1, <1>6, <2>1 DEF PeriksaAwal
<1>7. ASSUME NEW t \in Sesi, Sisip(t) PROVE Hasil
  <2>1. PICK x \in BarisBaru : x = BarisBerikut(t)
    BY <1>2, <1>7 DEF Sisip
  <2>2. Bersama(KPeriode(x.bulan)) \in Permintaan
    BY <2>1, TipePermintaan DEF BarisBaru
  <2>3. /\ \A u \in Sesi : u # t => InvSesi(u)'
        /\ pegang[t] \subseteq pegang'[t]
        /\ Dipenuhi(t, Bersama(KPeriode(x.bulan)))'
    BY <1>0, <1>7, <2>1, <2>2, SesiMinta DEF Sisip, dataVars, TypeOK
  <2>4. Berikut(t)' = Berikut(t) /\ Berikut(t) # {}
    BY <1>7 DEF Sisip, Berikut
  <2>5. BarisBerikut(t)' = x
    BY <2>1, <2>4 DEF BarisBerikut
  <2>6. Dipenuhi(t, Bersama(KPeriode(BarisBerikut(t).bulan)))'
    BY <2>3, <2>5 DEF Dipenuhi, Bersama, KPeriode
  <2>7. \A k \in tulis'[t] : Terlindung(t, k)'
    BY <1>0, <1>7, <2>3, TulisTetap DEF Sisip, dataVars
  <2>8. pc'[t] = "trg_periode" /\ tugas'[t] = tugas[t] /\ tugas[t].dok \in Dokumen
    BY <1>0, <1>7 DEF Sisip, TypeOK, InvSesi
  <2>9. InvSesi(t)'
    BY <2>4, <2>6, <2>7, <2>8 DEF InvSesi
  <2>10. QED BY <2>3, <2>9
<1>8. ASSUME NEW t \in Sesi, TrgPeriode(t) PROVE Hasil
  <2>0. PICK x : x = BarisBerikut(t)
    OBVIOUS
  <2>1. CASE /\ x.bulan \notin tutup
             /\ Minta(t, Bersama(KRuang(x.ruang)))
             /\ pc' = [pc EXCEPT ![t] = "trg_ruang"]
             /\ UNCHANGED <<dataVars, tugas, perlu, baris, idBaru, tulis, nextId, mulai>>
    <3>1. Berikut(t) # {} /\ x \in BarisBaru
      BY <1>0, <1>2, <1>8, <2>0 DEF TrgPeriode, InvSesi
    <3>2. Bersama(KRuang(x.ruang)) \in Permintaan
      BY <3>1, TipePermintaan DEF BarisBaru
    <3>3. /\ \A u \in Sesi : u # t => InvSesi(u)'
          /\ pegang[t] \subseteq pegang'[t]
          /\ Dipenuhi(t, Bersama(KRuang(x.ruang)))'
      BY <1>0, <2>1, <3>2, SesiMinta DEF dataVars, TypeOK
    <3>4. Memegang(t, KPeriode(x.bulan))
      <4>1. Jalan(t) /\ Dipenuhi(t, Bersama(KPeriode(x.bulan)))
        BY <1>0, <1>8, <2>0 DEF TrgPeriode, InvSesi
      <4>2. QED BY <4>1, DipenuhiJalan DEF Bersama
    <3>5. Berikut(t)' = Berikut(t)
      BY <2>1 DEF Berikut
    <3>6. BarisBerikut(t)' = x
      BY <2>0, <3>5 DEF BarisBerikut
    <3>7. /\ Memegang(t, KPeriode(BarisBerikut(t).bulan))'
          /\ BarisBerikut(t)'.bulan \notin tutup'
          /\ Dipenuhi(t, Bersama(KRuang(BarisBerikut(t).ruang)))'
      BY <2>1, <3>3, <3>4, <3>6 DEF Memegang, Dipenuhi, Bersama, KPeriode, KRuang, dataVars
    <3>8. \A k \in tulis'[t] : Terlindung(t, k)'
      BY <1>0, <2>1, <3>3, TulisTetap DEF dataVars
    <3>9. pc'[t] = "trg_ruang" /\ tugas'[t] = tugas[t] /\ tugas[t].dok \in Dokumen
      BY <1>0, <1>8, <2>1 DEF TrgPeriode, TypeOK, InvSesi
    <3>10. InvSesi(t)'
      BY <3>1, <3>5, <3>7, <3>8, <3>9 DEF InvSesi
    <3>11. QED BY <3>3, <3>10
  <2>2. QED BY <1>1, <1>8, <2>0, <2>1 DEF TrgPeriode
<1>9. ASSUME NEW t \in Sesi, TrgRuang(t) PROVE Hasil
  <2> DEFINE x == BarisBerikut(t)
  <2>1. CASE /\ OpnameTerbuka(x.ruang) \subseteq {tugas[t].dok}
             /\ Minta(t, Eksklusifi(KSaldo(x.barang, x.ruang)))
             /\ pc' = [pc EXCEPT ![t] = "trg_saldo"]
             /\ UNCHANGED <<dataVars, tugas, perlu, baris, idBaru, tulis, nextId, mulai>>
    <3>1. /\ Berikut(t) # {} /\ x \in BarisBaru
          /\ Memegang(t, KPeriode(x.bulan)) /\ x.bulan \notin tutup
      BY <1>0, <1>2, <1>9 DEF TrgRuang, InvSesi
    <3>2. Eksklusifi(KSaldo(x.barang, x.ruang)) \in Permintaan
      BY <3>1, TipePermintaan DEF BarisBaru
    <3>3. /\ \A u \in Sesi : u # t => InvSesi(u)'
          /\ pegang[t] \subseteq pegang'[t]
      BY <1>0, <2>1, <3>2, SesiMinta DEF dataVars, TypeOK
    <3>4. Memegang(t, KRuang(x.ruang))
      <4>1. Jalan(t) /\ Dipenuhi(t, Bersama(KRuang(x.ruang)))
        BY <1>0, <1>9 DEF TrgRuang, InvSesi
      <4>2. QED BY <4>1, DipenuhiJalan DEF Bersama
    <3>5. Berikut(t)' = Berikut(t)
      BY <2>1 DEF Berikut
    <3>6. BarisBerikut(t)' = x
      BY <3>5 DEF BarisBerikut
    <3>7. tugas'[t] = tugas[t] /\ tugas[t].dok \in Dokumen /\ pc'[t] = "trg_saldo"
      BY <1>0, <1>9, <2>1 DEF TrgRuang, TypeOK, InvSesi
    <3>8. /\ Memegang(t, KPeriode(BarisBerikut(t).bulan))'
          /\ BarisBerikut(t)'.bulan \notin tutup'
          /\ Memegang(t, KRuang(BarisBerikut(t).ruang))'
      BY <2>1, <3>1, <3>3, <3>4, <3>6 DEF Memegang, KPeriode, KRuang, dataVars
    <3>9. OpnameTerbuka(BarisBerikut(t).ruang)' \subseteq {tugas'[t].dok}
      BY <2>1, <3>6, <3>7 DEF OpnameTerbuka, dataVars
    <3>10. \A k \in tulis'[t] : Terlindung(t, k)'
      BY <1>0, <2>1, <3>3, TulisTetap DEF dataVars
    <3>11. InvSesi(t)'
      BY <3>1, <3>5, <3>7, <3>8, <3>9, <3>10 DEF InvSesi
    <3>12. QED BY <3>3, <3>11
  <2>2. QED BY <1>1, <1>9, <2>1 DEF TrgRuang
<1>10. ASSUME NEW t \in Sesi, TrgSaldo(t) PROVE Hasil
  <2> DEFINE x == BarisBerikut(t)
  <2>1. CASE /\ \E k : /\ tulis' = [tulis EXCEPT ![t] = @ \cup {k}]
                       /\ k.bulan = x.bulan /\ k.ruang = x.ruang /\ k.dok = tugas[t].dok
             /\ pc' = [pc EXCEPT ![t] = "sisip"]
             /\ baris' = [baris EXCEPT ![t] = @ \ {x}]
             /\ UNCHANGED <<kunciVars, dataVars, tugas>>
    <3>1. PICK k : /\ tulis' = [tulis EXCEPT ![t] = @ \cup {k}]
                   /\ k.bulan = x.bulan /\ k.ruang = x.ruang /\ k.dok = tugas[t].dok
      BY <2>1
    <3>2. Terlindung(t, k)
      BY <1>0, <1>10, <3>1 DEF TrgSaldo, InvSesi, Terlindung
    <3>3. \A l \in tulis'[t] : Terlindung(t, l)
      BY <1>0, <3>1, <3>2 DEF InvSesi, TypeOK
    <3>4. \A l \in tulis'[t] : Terlindung(t, l)'
      <4>1. pegang[t] \subseteq pegang'[t] /\ tugas'[t] = tugas[t]
        BY <2>1 DEF kunciVars
      <4>2. UNCHANGED <<status, tutup>>
        BY <2>1 DEF dataVars
      <4>3. QED BY <3>3, <4>1, <4>2, AmanDiam, TerlindungTetap
    <3>5. InvSesi(t)'
      <4>1. pc'[t] = "sisip" /\ tugas'[t].dok \in Dokumen
        BY <1>0, <1>10, <2>1 DEF TrgSaldo, TypeOK, InvSesi
      <4>2. QED BY <3>4, <4>1 DEF InvSesi
    <3>6. ASSUME NEW u \in Sesi, u # t PROVE InvSesi(u)'
      <4>1. /\ pc'[u] = pc[u] /\ tugas'[u] = tugas[u]
            /\ baris'[u] = baris[u] /\ tulis'[u] = tulis[u] /\ Maju(u)
        BY <1>0, <2>1, <3>1, <3>6 DEF TypeOK, Maju, kunciVars
      <4>2. Aman(u)
        BY <2>1, AmanDiam DEF dataVars
      <4>3. QED BY <1>0, <4>1, <4>2, SesiLain
    <3>7. QED BY <3>5, <3>6
  <2>2. CASE Gagal(t)
    BY <1>1, <2>2
  <2>3. QED
    <3> DEFINE lalu == SaldoTerakhir(kartu \cup tulis[t], x.barang, x.ruang)
               k == [id |-> idBaru[t], barang |-> x.barang, ruang |-> x.ruang,
                     masuk |-> x.masuk, keluar |-> x.keluar, awal |-> lalu,
                     akhir |-> lalu + x.masuk - x.keluar,
                     bulan |-> x.bulan, dok |-> tugas[t].dok, asal |-> x.asal]
    <3>1. k.bulan = x.bulan /\ k.ruang = x.ruang /\ k.dok = tugas[t].dok
      OBVIOUS
    <3>2. SUFFICES ASSUME ~Gagal(t) PROVE Hasil
      BY <2>2
    <3>3. tulis' = [tulis EXCEPT ![t] = @ \cup {k}]
      BY <1>10, <3>2 DEF TrgSaldo
    <3> HIDE DEF k
    <3>4. /\ pc' = [pc EXCEPT ![t] = "sisip"]
          /\ baris' = [baris EXCEPT ![t] = @ \ {x}]
          /\ UNCHANGED <<kunciVars, dataVars, tugas>>
      BY <1>10, <3>2 DEF TrgSaldo
    <3>5. QED BY <2>1, <3>1, <3>3, <3>4
<1>11. ASSUME NEW t \in Sesi, Perbarui(t) PROVE Hasil
  <2>1. tugas[t].dok \in Dokumen
    BY <1>0, <1>11 DEF Perbarui, InvSesi
  <2>2. KunciAkhir(tugas[t].dok) \in Permintaan
    BY <2>1, TipePermintaan, AsumsiStok DEF KunciAkhir, AsumsiStok
  <2>3. /\ \A u \in Sesi : u # t => InvSesi(u)'
        /\ pegang[t] \subseteq pegang'[t]
    BY <1>0, <1>11, <2>2, SesiMinta DEF Perbarui, dataVars, TypeOK
  <2>4. \A k \in tulis'[t] : Terlindung(t, k)'
    BY <1>0, <1>11, <2>3, TulisTetap DEF Perbarui, dataVars
  <2>5. pc'[t] = "akhir" /\ tugas'[t] = tugas[t]
    BY <1>0, <1>11 DEF Perbarui, TypeOK
  <2>6. InvSesi(t)'
    BY <2>1, <2>4, <2>5 DEF InvSesi
  <2>7. QED BY <2>3, <2>6
<1>12. ASSUME NEW t \in Sesi, Selesai(t) PROVE Hasil
  <2>1. CASE /\ status' = [status EXCEPT ![tugas[t].dok] =
                             IF tugas[t].aksi = "posting" THEN "POSTED" ELSE "BATAL"]
             /\ Bersih(t)
             /\ UNCHANGED tutup
    <3>1. \A r : OpnameTerbuka(r)' \subseteq OpnameTerbuka(r)
      BY <1>0, <2>1 DEF OpnameTerbuka, Terbuka, TypeOK
    <3>2. \A u \in Sesi : Aman(u)
      BY <2>1, <3>1, AmanTetap
    <3>3. QED BY <1>0, <2>1, <3>2, SesiBersih, LainBersih
  <2>2. QED BY <1>1, <1>12, <2>1 DEF Selesai
<1>13. ASSUME NEW t \in Sesi, TutupBuku(t) PROVE Hasil
  <2> DEFINE m == tugas[t].bulan
  <2>1. CASE tutup' = tutup \cup {m} /\ Bersih(t) /\ UNCHANGED status
    <3>1. MemegangX(t, KPeriode(m))
      <4>1. Jalan(t) /\ Dipenuhi(t, Eksklusifi(KPeriode(m)))
        BY <1>0, <1>13 DEF TutupBuku, InvSesi
      <4>2. QED BY <4>1, DipenuhiJalan DEF Eksklusifi
    <3>2. \A u \in Sesi : u # t => ~Memegang(u, KPeriode(m))
      BY <1>0, <3>1, Asing
    <3>3. \A u \in Sesi : u # t => Aman(u)
      BY <2>1, <3>2 DEF Aman, OpnameTerbuka
    <3>4. QED BY <1>0, <2>1, <3>3, SesiBersih, LainBersih
  <2>2. QED BY <1>1, <1>13, <2>1 DEF TutupBuku
<1>14. ASSUME NEW t \in Sesi, BukaBuku(t) PROVE Hasil
  <2>1. CASE tutup' = tutup \ {tugas[t].bulan} /\ Bersih(t) /\ UNCHANGED status
    <3>1. \A u \in Sesi : Aman(u)
      BY <2>1 DEF Aman, OpnameTerbuka
    <3>2. QED BY <1>0, <2>1, <3>1, SesiBersih, LainBersih
  <2>2. QED BY <1>1, <1>14, <2>1 DEF BukaBuku
<1>15. ASSUME NEW t \in Sesi, BukaOpname(t) PROVE Hasil
  <2> DEFINE d == tugas[t].dok
             r == Isi[d].ruang
  <2>1. CASE status' = [status EXCEPT ![d] = "DRAFT"] /\ Bersih(t) /\ UNCHANGED tutup
    <3>1. MemegangX(t, KRuang(r))
      <4>1. Jalan(t) /\ Dipenuhi(t, Eksklusifi(KRuang(r)))
        BY <1>0, <1>15 DEF BukaOpname, InvSesi
      <4>2. QED BY <4>1, DipenuhiJalan DEF Eksklusifi
    <3>2. \A u \in Sesi : u # t => ~Memegang(u, KRuang(r))
      BY <1>0, <3>1, Asing
    <3>3. \A q : q # r => OpnameTerbuka(q)' \subseteq OpnameTerbuka(q)
      BY <1>0, <2>1 DEF OpnameTerbuka, TypeOK
    <3>4. \A u \in Sesi : u # t => Aman(u)
      BY <2>1, <3>2, <3>3 DEF Aman
    <3>5. QED BY <1>0, <2>1, <3>4, SesiBersih, LainBersih
  <2>2. QED BY <1>1, <1>15, <2>1 DEF BukaOpname
<1>16. ASSUME NEW t \in Sesi, SusunAntrean(t) PROVE Hasil
  <2>1. \A u \in Sesi : Maju(u)
    BY <1>0, <1>16, SusunMaju DEF SusunAntrean, TypeOK
  <2>2. \A u \in Sesi : Aman(u)
    BY <1>16, AmanDiam DEF SusunAntrean, dataVars
  <2>3. QED BY <1>0, <1>16, <2>1, <2>2, SesiLain DEF SusunAntrean, sesiVars
<1>17. ASSUME NEW t \in Sesi, BatalkanKorban(t) PROVE Hasil
  BY <1>1, <1>17 DEF BatalkanKorban
<1>18. ASSUME UNCHANGED <<kunciVars, sesiVars, tutup>>,
              \A r : OpnameTerbuka(r)' \subseteq OpnameTerbuka(r)
       PROVE  Hasil
  <2>1. \A u \in Sesi : Maju(u) /\ Aman(u)
    BY <1>18, AmanTetap DEF Maju, kunciVars
  <2>2. QED BY <1>0, <1>18, <2>1, SesiLain DEF sesiVars
<1>19. ASSUME NEW d \in Dokumen, TarikSaldo(d) \/ ReplaceDetail(d) PROVE Hasil
  <2>1. UNCHANGED <<kunciVars, sesiVars, tutup, status>>
    BY <1>19 DEF TarikSaldo, ReplaceDetail
  <2>2. QED BY <1>18, <2>1 DEF OpnameTerbuka
<1>20. ASSUME NEW d \in Dokumen, Ajukan(d) \/ Tolak(d) PROVE Hasil
  <2>1. UNCHANGED <<kunciVars, sesiVars, tutup>>
    BY <1>20 DEF Ajukan, Tolak
  <2>2. \A r : OpnameTerbuka(r)' \subseteq OpnameTerbuka(r)
    BY <1>0, <1>20 DEF Ajukan, Tolak, OpnameTerbuka, Terbuka, TypeOK
  <2>3. QED BY <1>18, <2>1, <2>2
<1>21. CASE UNCHANGED vars
  BY <1>18, <1>21 DEF vars, dataVars, OpnameTerbuka
<1>22. QED
  BY <1>3, <1>4, <1>5, <1>6, <1>7, <1>8, <1>9, <1>10, <1>11, <1>12, <1>13, <1>14, <1>15,
     <1>16, <1>17, <1>19, <1>20, <1>21 DEF IInv, Next, Langkah, Diam

-----------------------------------------------------------------------------
(* The theorems.                                                           *)

LEMMA AwalBenar == Init => IInv
<1> SUFFICES ASSUME Init PROVE IInv
  OBVIOUS
<1>1. Menganggur \in Tugas
  BY AsumsiStok DEF AsumsiStok, Menganggur, Tugas, Aksi, Nol
<1>2. TypeOK
  BY <1>1, AsumsiStok DEF AsumsiStok, Init, InitKunci, TypeOK, TipeKunci, LangkahSesi
<1>3. KunciBenar
  BY DEF Init, InitKunci, KunciBenar, Eksklusif, AntreanUrut
<1>4. \A t \in Sesi : InvSesi(t)
  BY DEF Init, InvSesi
<1>5. QED BY <1>2, <1>3, <1>4 DEF IInv

LEMMA Induktif == IInv /\ [Next]_vars => IInv'
<1> SUFFICES ASSUME IInv, [Next]_vars PROVE IInv'
  OBVIOUS
<1>1. TypeOK /\ KunciBenar /\ \A t \in Sesi : InvSesi(t)
  BY DEF IInv
<1>2. TypeOK'
  BY <1>1, KunciTerjaga, TipeTerjaga DEF TypeOK, TipeData, TipeSesi
<1>3. QED BY <1>1, <1>2, KunciTerjaga, SesiTerjaga DEF IInv

LEMMA InvarianBenar == Spec => []IInv
BY AwalBenar, Induktif, PTL DEF Spec

\* Every variable keeps its type, whatever the documents say and however many
\* sessions there are.
THEOREM TipeBenar == Spec => []TypeOK
<1>1. IInv => TypeOK
  BY DEF IInv
<1>2. QED BY <1>1, InvarianBenar, PTL

\* The rows a step commits are those its session had written under its locks.
LEMMA BarisBaruTerlindung ==
  ASSUME IInv, [Next]_vars, NEW k \in kartu', k \notin kartu
  PROVE  \E t \in Sesi : Terlindung(t, k)
<1>1. PICK t \in Sesi : Selesai(t)
  <2>1. kartu' # kartu
    OBVIOUS
  <2>2. \A t \in Sesi : Gagal(t) => kartu' = kartu
    BY DEF Gagal, dataVars
  <2>3. \A t \in Sesi : Langkah(t) => kartu' = kartu \/ Selesai(t)
    BY <2>2 DEF Langkah, PeriksaDokumen, AmbilKunci, PeriksaAwal, Sisip, TrgPeriode,
      TrgRuang, TrgSaldo, Perbarui, TutupBuku, BukaBuku, BukaOpname, dataVars
  <2>4. \A t \in Sesi : Mulai(t) \/ SusunAntrean(t) \/ BatalkanKorban(t) => kartu' = kartu
    BY <2>2 DEF Mulai, SusunAntrean, BatalkanKorban, dataVars
  <2>5. \A d \in Dokumen : TarikSaldo(d) \/ ReplaceDetail(d) \/ Ajukan(d) \/ Tolak(d)
                             => kartu' = kartu
    BY DEF TarikSaldo, ReplaceDetail, Ajukan, Tolak
  <2>6. Diam \/ UNCHANGED vars => kartu' = kartu
    BY DEF Diam, vars, dataVars
  <2>7. QED BY <2>1, <2>3, <2>4, <2>5, <2>6 DEF Next
<1>2. k \in tulis[t]
  BY <1>1 DEF Selesai, Gagal, dataVars
<1>3. QED BY <1>2 DEF IInv, InvSesi

\* The fence of closed months holds for any number of sessions, documents and
\* months: a commit adds no row dated in a month that is TUTUP.
THEOREM PeriodeTerpagar == Spec => PagarPeriode
<1>1. IInv /\ [Next]_vars => [\A k \in kartu' \ kartu : k.bulan \notin tutup]_vars
  BY BarisBaruTerlindung DEF Terlindung
<1>2. QED BY <1>1, InvarianBenar, PTL DEF Spec, PagarPeriode

\* So does the fence of rooms under count: while somebody counts a room, only
\* the count itself commits rows in it.
THEOREM RuangTerpagar == Spec => PagarRuang
<1>1. IInv /\ [Next]_vars =>
        [\A k \in kartu' \ kartu : OpnameTerbuka(k.ruang) \subseteq {k.dok}]_vars
  <2> SUFFICES ASSUME IInv, [Next]_vars, NEW k \in kartu', k \notin kartu
               PROVE  OpnameTerbuka(k.ruang) \subseteq {k.dok}
    OBVIOUS
  <2>1. QED BY BarisBaruTerlindung DEF Terlindung
<1>2. QED BY <1>1, InvarianBenar, PTL DEF Spec, PagarRuang

-----------------------------------------------------------------------------
(***************************************************************************)
(* A document and what other sessions change: JInv.                        *)
(***************************************************************************)
Luar == {"idle", "buku", "opname"}

\* What a session knows of its document and of that document's purchase.
InvDok(t) ==
  LET g == tugas[t]
      induk == Isi[g.dok].induk
      anak == g.aksi = "posting" /\ Isi[g.dok].jenis \in Anak
      beli == g.aksi = "batal" /\ Isi[g.dok].jenis = "pembelian" IN
  /\ pc[t] = "opname" =>
       /\ g.aksi = "opname_baru" /\ g.bulan = BulanIni
       /\ g.dok \in Dokumen /\ status[g.dok] = "BELUM"
       /\ \A u \in Sesi : u # t /\ pc[u] = "opname" => tugas[u].dok # g.dok
  /\ pc[t] \notin Luar =>
       /\ g.aksi \in {"posting", "batal"} /\ status[g.dok] # "BELUM"
       /\ Dipenuhi(t, Eksklusifi(KDok(g.dok)))
  /\ pc[t] \notin Luar \cup {"dokumen"} =>
       MemegangX(t, KDok(g.dok)) /\ (beli => ~AnakPosted(g.dok))
  /\ pc[t] = "kunci" /\ anak =>
       \/ Eksklusifi(KDok(induk)) \in perlu[t]
       \/ Dipenuhi(t, Eksklusifi(KDok(induk)))
  /\ pc[t] \notin Luar \cup {"dokumen", "kunci"} /\ anak =>
       MemegangX(t, KDok(induk)) /\ status[induk] = "POSTED"

SemuaDok == \A t \in Sesi : InvDok(t)

\* What is not created yet is a count without lines.
BelumKosong ==
  \A d \in Dokumen : status[d] = "BELUM" =>
    Isi[d].jenis = "stok_opname" /\ \A b \in Barang : sistem[d][b] < 0

DataBaik == BelumKosong /\ OpnameTidakBergeser /\ IndukTerjaga

JInv == DataBaik /\ SemuaDok

-----------------------------------------------------------------------------
(* What one session's step leaves of what the others know.                 *)

\* Whatever is asked for, nobody loses anything by it.
LEMMA MintaApaPun ==
  ASSUME TypeOK, NEW t \in Sesi, NEW p, Minta(t, p)
  PROVE  /\ \A u \in Sesi : u # t => Maju(u)
         /\ pegang[t] \subseteq pegang'[t]
         /\ Dipenuhi(t, p)'
<1> DEFINE Q == Permintaan \cup {p}
<1>1. TipeKunci(Q) /\ p \in Q
  BY DEF TypeOK, TipeKunci
<1> HIDE DEF Q
<1>2. QED BY <1>1, MintaMaju

\* The statuses u relies on stay.
Tenang(u) ==
  /\ \A d \in Dokumen : status[d] # "BELUM" => status'[d] # "BELUM"
  /\ pc[u] = "opname" => status'[tugas[u].dok] = status[tugas[u].dok]
  /\ \A d \in Dokumen : MemegangX(u, KDok(d)) /\ Isi[d].jenis = "pembelian" =>
       status'[d] = status[d] /\ (AnakPosted(d)' => AnakPosted(d))

LEMMA TenangDiam ==
  ASSUME UNCHANGED status
  PROVE  \A u \in Sesi : Tenang(u)
BY DEF Tenang, AnakPosted

\* Nobody but u starts to create the count u creates.
Sendiri(u) ==
  \A v \in Sesi : v # u /\ pc'[v] = "opname" =>
    pc[v] = "opname" /\ tugas'[v] = tugas[v]

LEMMA IndukPembelian ==
  ASSUME NEW d \in Dokumen, Isi[d].jenis \in Anak
  PROVE  Isi[d].induk \in Dokumen /\ Isi[Isi[d].induk].jenis = "pembelian"
BY AsumsiStok, AsumsiRiwayat DEF AsumsiStok, AsumsiRiwayat

LEMMA DokLain ==
  ASSUME IInv, NEW u \in Sesi, InvDok(u), Maju(u), Tenang(u), Sendiri(u),
         pc'[u] = pc[u], tugas'[u] = tugas[u], perlu'[u] = perlu[u]
  PROVE  InvDok(u)'
<1> DEFINE g == tugas[u]
           induk == Isi[g.dok].induk
<1>1. /\ \A k : MemegangX(u, k) => MemegangX(u, k)'
      /\ \A p : Dipenuhi(u, p) => Dipenuhi(u, p)'
  BY DEF Maju, MemegangX, Dipenuhi
<1>2. pc[u] \notin Luar => g.dok \in Dokumen
  BY DEF IInv, InvSesi, Luar
<1>3. ASSUME pc[u] = "opname"
      PROVE  /\ status'[g.dok] = "BELUM"
             /\ \A v \in Sesi : v # u /\ pc'[v] = "opname" => tugas'[v].dok # g.dok
  BY <1>3 DEF InvDok, Tenang, Sendiri
<1>4. pc[u] \notin Luar => status'[g.dok] # "BELUM"
  BY <1>2 DEF InvDok, Tenang
<1>5. ASSUME pc[u] \notin Luar \cup {"dokumen"}, g.aksi = "batal", Isi[g.dok].jenis = "pembelian"
      PROVE  ~AnakPosted(g.dok)'
  BY <1>2, <1>5 DEF InvDok, Tenang
<1>6. ASSUME pc[u] \notin Luar \cup {"dokumen", "kunci"}, g.aksi = "posting",
             Isi[g.dok].jenis \in Anak
      PROVE  MemegangX(u, KDok(induk))' /\ status'[induk] = "POSTED"
  <2>1. g.dok \in Dokumen
    BY <1>2, <1>6
  <2>2. MemegangX(u, KDok(induk)) /\ status[induk] = "POSTED"
    BY <1>6 DEF InvDok
  <2>3. QED BY <1>1, <1>6, <2>1, <2>2, IndukPembelian DEF Tenang
<1>7. pc[u] = "opname" => g.dok \in Dokumen /\ g.aksi = "opname_baru" /\ g.bulan = BulanIni
  BY DEF InvDok
<1>8. pc[u] \notin Luar =>
        g.aksi \in {"posting", "batal"} /\ Dipenuhi(u, Eksklusifi(KDok(g.dok)))'
  BY <1>1 DEF InvDok
<1>9. pc[u] \notin Luar \cup {"dokumen"} => MemegangX(u, KDok(g.dok))'
  BY <1>1 DEF InvDok
<1>10. pc[u] = "kunci" /\ g.aksi = "posting" /\ Isi[g.dok].jenis \in Anak =>
         \/ Eksklusifi(KDok(induk)) \in perlu[u]
         \/ Dipenuhi(u, Eksklusifi(KDok(induk)))'
  BY <1>1 DEF InvDok
<1>11. QED
  BY <1>3, <1>4, <1>5, <1>6, <1>7, <1>8, <1>9, <1>10 DEF InvDok, AnakPosted
-----------------------------------------------------------------------------
(* The steps.                                                              *)

\* A step of t that writes nothing another session reads.
LEMMA LangkahSunyi ==
  ASSUME IInv, JInv, NEW t \in Sesi, UNCHANGED <<status, kartu, sistem>>,
         \A u \in Sesi : u # t => /\ Maju(u) /\ pc'[u] = pc[u] /\ tugas'[u] = tugas[u]
                                  /\ perlu'[u] = perlu[u],
         pc'[t] # "opname", InvDok(t)'
  PROVE  JInv'
<1>1. \A u \in Sesi : Tenang(u)
  BY TenangDiam
<1>2. \A u \in Sesi : u # t => Sendiri(u)
  BY DEF Sendiri
<1>3. \A u \in Sesi : u # t => InvDok(u)'
  BY <1>1, <1>2, DokLain DEF JInv, SemuaDok
<1>4. DataBaik'
  BY DEF JInv, DataBaik, BelumKosong, OpnameTidakBergeser, IndukTerjaga
<1>5. QED BY <1>3, <1>4 DEF JInv, SemuaDok

\* A session that ends leaves the others what they know.
LEMMA SesiUsai ==
  ASSUME IInv, JInv, NEW t \in Sesi, Bersih(t), \A u \in Sesi : u # t => Tenang(u)
  PROVE  SemuaDok'
<1>1. \A u \in Sesi : u # t => Maju(u)
  BY LepasMaju DEF Bersih, IInv, TypeOK
<1>2. /\ pc'[t] = "idle"
      /\ \A u \in Sesi : u # t => /\ pc'[u] = pc[u] /\ tugas'[u] = tugas[u]
                                  /\ perlu'[u] = perlu[u]
  BY DEF Bersih, Lupa, IInv, TypeOK
<1>3. \A u \in Sesi : u # t => Sendiri(u)
  BY <1>2 DEF Sendiri
<1>4. \A u \in Sesi : u # t => InvDok(u)'
  BY <1>1, <1>2, <1>3, DokLain DEF JInv, SemuaDok
<1>5. InvDok(t)'
  BY <1>2 DEF InvDok, Luar
<1>6. QED BY <1>4, <1>5 DEF SemuaDok

LEMMA UsaiGagal ==
  ASSUME IInv, JInv, NEW t \in Sesi, Gagal(t)
  PROVE  JInv'
<1>1. UNCHANGED <<status, kartu, sistem>> /\ Bersih(t)
  BY DEF Gagal, dataVars
<1>2. SemuaDok'
  BY <1>1, SesiUsai, TenangDiam
<1>3. DataBaik'
  BY <1>1 DEF JInv, DataBaik, BelumKosong, OpnameTidakBergeser, IndukTerjaga
<1>4. QED BY <1>2, <1>3 DEF JInv

LEMMA LangkahMulai ==
  ASSUME IInv, JInv, NEW t \in Sesi, Mulai(t)
  PROVE  JInv'
<1>1. PICK g \in PermintaanMungkin :
        /\ g.aksi = "opname_baru" => \A u \in Sesi : tugas[u] # g
        /\ tugas' = [tugas EXCEPT ![t] = g]
        /\ pc' = [pc EXCEPT ![t] = LangkahPertama(g)]
        /\ Minta(t, KunciPertama(g))
  BY DEF Mulai
<1>2. /\ tugas'[t] = g /\ pc'[t] = LangkahPertama(g)
      /\ UNCHANGED <<status, kartu, sistem, perlu>>
      /\ \A u \in Sesi : u # t => pc'[u] = pc[u] /\ tugas'[u] = tugas[u] /\ perlu'[u] = perlu[u]
  BY <1>1 DEF Mulai, dataVars, IInv, TypeOK
<1>3. /\ \A u \in Sesi : u # t => Maju(u)
      /\ Dipenuhi(t, KunciPertama(g))'
  BY <1>1, MintaApaPun DEF IInv
<1>4. CASE g.aksi \in {"posting", "batal"}
  <2>1. g.dok \in Dokumen /\ status[g.dok] # "BELUM" /\ pc'[t] = "dokumen"
        /\ KunciPertama(g) = Eksklusifi(KDok(g.dok))
    BY <1>2, <1>4 DEF PermintaanMungkin, LangkahPertama, KunciPertama
  <2>2. Dipenuhi(t, Eksklusifi(KDok(tugas[t].dok)))'
    BY <1>2, <1>3, <2>1 DEF Dipenuhi, Eksklusifi, KDok
  <2>3. InvDok(t)'
    BY <1>2, <1>4, <2>1, <2>2 DEF InvDok, Luar
  <2>4. QED BY <1>2, <1>3, <2>1, <2>3, LangkahSunyi
<1>5. CASE g.aksi \in {"tutup", "buka"}
  <2>1. pc'[t] = "buku"
    BY <1>2, <1>5 DEF LangkahPertama
  <2>2. InvDok(t)'
    BY <2>1 DEF InvDok, Luar
  <2>3. QED BY <1>2, <1>3, <2>1, <2>2, LangkahSunyi
<1>6. CASE g.aksi = "opname_baru"
  <2>1. /\ g.dok \in Dokumen /\ status[g.dok] = "BELUM" /\ g.bulan = BulanIni
        /\ pc'[t] = "opname"
        /\ g = [aksi |-> "opname_baru", dok |-> g.dok, bulan |-> BulanIni]
    BY <1>2, <1>6 DEF PermintaanMungkin, LangkahPertama
  <2>2. \A u \in Sesi : u # t /\ pc[u] = "opname" => tugas[u].dok # g.dok
    <3> SUFFICES ASSUME NEW u \in Sesi, pc[u] = "opname", tugas[u].dok = g.dok
                 PROVE  FALSE
      OBVIOUS
    <3>1. tugas[u].aksi = "opname_baru" /\ tugas[u].bulan = BulanIni /\ tugas[u] \in Tugas
      BY DEF JInv, SemuaDok, InvDok, IInv, TypeOK
    <3>2. tugas[u] = [aksi |-> "opname_baru", dok |-> g.dok, bulan |-> BulanIni]
      BY <3>1 DEF Tugas
    <3>3. QED BY <1>1, <1>6, <2>1, <3>2
  <2>3. InvDok(t)'
    BY <1>2, <1>6, <2>1, <2>2 DEF InvDok, Luar
  <2>4. \A u \in Sesi : u # t => InvDok(u)'
    <3> SUFFICES ASSUME NEW u \in Sesi, u # t PROVE InvDok(u)'
      OBVIOUS
    <3>1. CASE pc[u] = "opname"
      <4>1. /\ tugas[u].aksi = "opname_baru" /\ tugas[u].bulan = BulanIni
            /\ tugas[u].dok \in Dokumen /\ status[tugas[u].dok] = "BELUM"
            /\ tugas[u].dok # g.dok
            /\ \A v \in Sesi : v # u /\ pc[v] = "opname" => tugas[v].dok # tugas[u].dok
        BY <2>2, <3>1 DEF JInv, SemuaDok, InvDok
      <4>2. \A v \in Sesi : v # u /\ pc'[v] = "opname" => tugas'[v].dok # tugas'[u].dok
        BY <1>2, <4>1
      <4>3. pc'[u] = "opname" /\ tugas'[u] = tugas[u]
        BY <1>2, <3>1
      <4>4. QED BY <1>2, <4>1, <4>2, <4>3 DEF InvDok, Luar
    <3>2. CASE pc[u] # "opname"
      <4>1. /\ \A k : MemegangX(u, k) => MemegangX(u, k)'
            /\ \A p : Dipenuhi(u, p) => Dipenuhi(u, p)'
        BY <1>3 DEF Maju, MemegangX, Dipenuhi
      <4>2. pc'[u] = pc[u] /\ tugas'[u] = tugas[u] /\ perlu'[u] = perlu[u] /\ status' = status
        BY <1>2
      <4>3. InvDok(u)
        BY DEF JInv, SemuaDok
      <4>4. QED BY <3>2, <4>1, <4>2, <4>3 DEF InvDok, AnakPosted
    <3>3. QED BY <3>1, <3>2
  <2>5. DataBaik'
    BY <1>2 DEF JInv, DataBaik, BelumKosong, OpnameTidakBergeser, IndukTerjaga
  <2>6. QED BY <2>3, <2>4, <2>5 DEF JInv, SemuaDok
<1>7. QED BY <1>4, <1>5, <1>6 DEF PermintaanMungkin
\* The document is locked: what the handler insists on, and what it will lock.
LEMMA LangkahPeriksa ==
  ASSUME IInv, JInv, NEW t \in Sesi, PeriksaDokumen(t)
  PROVE  JInv'
<1> DEFINE g == tugas[t]
           r == Rencana(g)
<1>1. CASE /\ r.boleh
           /\ pc' = [pc EXCEPT ![t] = "kunci"]
           /\ perlu' = [perlu EXCEPT ![t] = r.kunci]
           /\ UNCHANGED <<kunciVars, dataVars, tugas, idBaru, tulis, nextId, mulai>>
  <2>1. /\ pc[t] = "dokumen" /\ Jalan(t) /\ pc'[t] = "kunci" /\ perlu'[t] = r.kunci
        /\ tugas'[t] = g /\ UNCHANGED <<kunciVars, status, kartu, sistem>>
        /\ \A u \in Sesi : u # t => pc'[u] = pc[u] /\ tugas'[u] = tugas[u] /\ perlu'[u] = perlu[u]
    BY <1>1 DEF PeriksaDokumen, dataVars, IInv, TypeOK
  <2>2. \A u \in Sesi : Maju(u)
    BY <2>1 DEF kunciVars, Maju
  <2>3. g.dok \in Dokumen /\ g.aksi \in {"posting", "batal"} /\ status[g.dok] # "BELUM"
        /\ Dipenuhi(t, Eksklusifi(KDok(g.dok)))
    BY <2>1 DEF IInv, InvSesi, JInv, SemuaDok, InvDok, Luar
  <2>4. MemegangX(t, KDok(g.dok))
    BY <2>1, <2>3, DipenuhiJalan DEF Eksklusifi
  <2>5. /\ MemegangX(t, KDok(g.dok))' /\ Dipenuhi(t, Eksklusifi(KDok(g.dok)))'
    BY <2>1, <2>3, <2>4 DEF kunciVars, MemegangX, Dipenuhi
  <2>6. g.aksi = "posting" /\ Isi[g.dok].jenis \in Anak =>
          Eksklusifi(KDok(Isi[g.dok].induk)) \in r.kunci
    <3>1. SUFFICES ASSUME g.aksi = "posting", Isi[g.dok].jenis \in Anak
                   PROVE  Eksklusifi(KDok(Isi[g.dok].induk)) \in r.kunci
      OBVIOUS
    <3>2. r \in {PostingSusulan(g.dok), PostingRetur(g.dok)}
      BY <3>1 DEF Rencana, RencanaPosting, Anak
    <3>3. QED BY <3>2 DEF PostingSusulan, PostingRetur
  <2>7. g.aksi = "batal" /\ Isi[g.dok].jenis = "pembelian" => ~AnakPosted(g.dok)
    <3>1. SUFFICES ASSUME g.aksi = "batal", Isi[g.dok].jenis = "pembelian"
                   PROVE  ~AnakPosted(g.dok)
      OBVIOUS
    <3>2. r = BatalPembelian(g.dok)
      BY <3>1 DEF Rencana, RencanaBatal
    <3>3. r.boleh = (status[g.dok] = "POSTED" /\ ~AnakPosted(g.dok))
      BY <3>2 DEF BatalPembelian
    <3>4. QED BY <1>1, <3>3
  <2>8. ~AnakPosted(g.dok) => ~AnakPosted(g.dok)'
    BY <2>1 DEF AnakPosted
  <2>9. InvDok(t)'
    BY <2>1, <2>3, <2>5, <2>6, <2>7, <2>8 DEF InvDok, Luar
  <2>10. QED BY <2>1, <2>2, <2>9, LangkahSunyi
<1>2. QED BY <1>1, UsaiGagal DEF PeriksaDokumen

LEMMA LangkahAmbil ==
  ASSUME IInv, JInv, NEW t \in Sesi, AmbilKunci(t)
  PROVE  JInv'
<1> DEFINE g == tugas[t]
<1>1. PICK p \in perlu[t] : Minta(t, p) /\ perlu' = [perlu EXCEPT ![t] = @ \ {p}]
  BY DEF AmbilKunci
<1>2. /\ pc[t] = "kunci" /\ UNCHANGED <<pc, tugas, status, kartu, sistem>>
      /\ perlu'[t] = perlu[t] \ {p}
      /\ \A u \in Sesi : u # t => perlu'[u] = perlu[u]
  BY <1>1 DEF AmbilKunci, dataVars, IInv, TypeOK
<1>3. /\ \A u \in Sesi : u # t => Maju(u)
      /\ pegang[t] \subseteq pegang'[t] /\ Dipenuhi(t, p)'
  BY <1>1, MintaApaPun DEF IInv
<1>4. Maju(t)
  <2>1. pegang[t] \cup tunggu[t] = pegang[t]
    BY DEF AmbilKunci, Jalan
  <2>2. QED BY <1>3, <2>1 DEF Maju
<1>5. /\ \A k : MemegangX(t, k) => MemegangX(t, k)'
      /\ \A q : Dipenuhi(t, q) => Dipenuhi(t, q)'
  BY <1>4 DEF Maju, MemegangX, Dipenuhi
<1>6. ASSUME g.aksi = "posting", Isi[g.dok].jenis \in Anak
      PROVE  LET i == Eksklusifi(KDok(Isi[g.dok].induk)) IN i \in perlu'[t] \/ Dipenuhi(t, i)'
  <2>1. PICK i : i = Eksklusifi(KDok(Isi[g.dok].induk))
    OBVIOUS
  <2>2. i \in perlu[t] \/ Dipenuhi(t, i)
    BY <1>2, <1>6, <2>1 DEF JInv, SemuaDok, InvDok
  <2>3. i \in perlu'[t] \/ Dipenuhi(t, i)'
    BY <1>2, <1>3, <1>5, <2>2
  <2>4. Dipenuhi(t, i)' => Dipenuhi(t, Eksklusifi(KDok(Isi[g.dok].induk)))'
    BY <1>2, <2>1 DEF Dipenuhi, Eksklusifi, KDok
  <2>5. QED BY <1>2, <2>1, <2>3, <2>4
<1>7. InvDok(t)
  BY DEF JInv, SemuaDok
<1>8. InvDok(t)'
  BY <1>2, <1>5, <1>6, <1>7 DEF InvDok, Luar, AnakPosted
<1>9. QED BY <1>2, <1>3, <1>8, LangkahSunyi DEF Luar

\* All locks are held: the purchase is looked at, and is POSTED.
LEMMA LangkahAwal ==
  ASSUME IInv, JInv, NEW t \in Sesi, PeriksaAwal(t)
  PROVE  JInv'
<1> DEFINE g == tugas[t]
           r == Rencana(g)
<1>1. CASE /\ r.syarat
           /\ pc' = [pc EXCEPT ![t] = "sisip"]
           /\ UNCHANGED <<kunciVars, dataVars, tugas, perlu, baris, idBaru, tulis, nextId, mulai>>
  <2>1. /\ pc[t] = "kunci" /\ Jalan(t) /\ perlu[t] = {} /\ pc'[t] = "sisip"
        /\ UNCHANGED <<kunciVars, status, kartu, sistem, tugas, perlu>>
        /\ \A u \in Sesi : u # t => pc'[u] = pc[u]
    BY <1>1 DEF PeriksaAwal, dataVars, IInv, TypeOK
  <2>2. (\A u \in Sesi : Maju(u)) /\ InvDok(t)
    BY <2>1 DEF kunciVars, Maju, JInv, SemuaDok
  <2>3. /\ \A k : MemegangX(t, k) => MemegangX(t, k)'
        /\ \A q : Dipenuhi(t, q) => Dipenuhi(t, q)'
    BY <2>2 DEF Maju, MemegangX, Dipenuhi
  <2>4. ASSUME g.aksi = "posting", Isi[g.dok].jenis \in Anak
        PROVE  MemegangX(t, KDok(Isi[g.dok].induk)) /\ status[Isi[g.dok].induk] = "POSTED"
    <3>1. Dipenuhi(t, Eksklusifi(KDok(Isi[g.dok].induk)))
      BY <2>1, <2>2, <2>4 DEF InvDok
    <3>2. MemegangX(t, KDok(Isi[g.dok].induk))
      BY <2>1, <3>1, DipenuhiJalan DEF Eksklusifi
    <3>3. r \in {PostingSusulan(g.dok), PostingRetur(g.dok)}
      BY <2>4 DEF Rencana, RencanaPosting, Anak
    <3>4. status[Isi[g.dok].induk] = "POSTED"
      BY <1>1, <3>3 DEF PostingSusulan, PostingRetur
    <3>5. QED BY <3>2, <3>4
  <2>5. InvDok(t)'
    BY <2>1, <2>2, <2>3, <2>4 DEF InvDok, Luar, AnakPosted
  <2>6. QED BY <2>1, <2>2, <2>5, LangkahSunyi
<1>2. QED BY <1>1, UsaiGagal DEF PeriksaAwal

\* From the first insert to the COMMIT nothing is let go of.
LEMMA LangkahMenulis ==
  ASSUME IInv, JInv, NEW t \in Sesi,
         pc[t] \notin Luar \cup {"dokumen", "kunci"}, pc'[t] \notin Luar \cup {"dokumen", "kunci"},
         \A u \in Sesi : u # t => Maju(u) /\ pc'[u] = pc[u],
         pegang[t] \subseteq pegang'[t],
         UNCHANGED <<tugas, perlu, status, kartu, sistem>>
  PROVE  JInv'
<1>1. \A k : MemegangX(t, k) => MemegangX(t, k)' /\ Dipenuhi(t, Eksklusifi(k))'
  BY DEF MemegangX, Dipenuhi, Eksklusifi
<1>2. InvDok(t)
  BY DEF JInv, SemuaDok
<1>3. InvDok(t)'
  BY <1>1, <1>2 DEF InvDok, Luar, AnakPosted
<1>4. QED BY <1>3, LangkahSunyi DEF Luar

LEMMA LangkahSisip ==
  ASSUME IInv, JInv, NEW t \in Sesi,
         Sisip(t) \/ TrgPeriode(t) \/ TrgRuang(t) \/ TrgSaldo(t) \/ Perbarui(t)
  PROVE  JInv'
<1>1. CASE Gagal(t)
  BY <1>1, UsaiGagal
<1>2. ASSUME NEW p, NEW s \in {"trg_periode", "trg_ruang", "trg_saldo", "akhir"}, Minta(t, p),
             pc' = [pc EXCEPT ![t] = s], UNCHANGED <<dataVars, tugas, perlu>>,
             pc[t] \in {"sisip", "trg_periode", "trg_ruang"}
      PROVE  JInv'
  <2>1. /\ \A u \in Sesi : u # t => Maju(u)
        /\ pegang[t] \subseteq pegang'[t]
    BY <1>2, MintaApaPun DEF IInv
  <2>2. pc'[t] = s /\ \A u \in Sesi : u # t => pc'[u] = pc[u]
    BY <1>2 DEF IInv, TypeOK
  <2>3. QED BY <1>2, <2>1, <2>2, LangkahMenulis DEF dataVars, Luar
<1>3. CASE Sisip(t)
  BY <1>2, <1>3 DEF Sisip
<1>4. CASE TrgPeriode(t)
  BY <1>1, <1>2, <1>4 DEF TrgPeriode
<1>5. CASE TrgRuang(t)
  BY <1>1, <1>2, <1>5 DEF TrgRuang
<1>6. CASE Perbarui(t)
  BY <1>2, <1>6 DEF Perbarui
<1>7. CASE TrgSaldo(t)
  <2>1. SUFFICES ASSUME ~Gagal(t) PROVE JInv'
    BY <1>1
  <2>2. pc[t] = "trg_saldo" /\ pc' = [pc EXCEPT ![t] = "sisip"]
        /\ UNCHANGED <<kunciVars, dataVars, tugas, perlu>>
    BY <1>7, <2>1 DEF TrgSaldo
  <2>3. pc'[t] = "sisip" /\ \A u \in Sesi : u # t => pc'[u] = pc[u]
    BY <2>2 DEF IInv, TypeOK
  <2>4. pegang' = pegang /\ \A u \in Sesi : Maju(u)
    BY <2>2 DEF kunciVars, Maju
  <2>5. QED BY <2>2, <2>3, <2>4, LangkahMenulis DEF dataVars, Luar
<1>8. QED BY <1>3, <1>4, <1>5, <1>6, <1>7
\* COMMIT of a posting or a cancellation: one status changes, of a document
\* only t holds, and the rows of t come into no room under count.
LEMMA LangkahSelesai ==
  ASSUME IInv, JInv, NEW t \in Sesi, Selesai(t)
  PROVE  JInv'
<1> DEFINE g == tugas[t]
           d == g.dok
           s == IF g.aksi = "posting" THEN "POSTED" ELSE "BATAL"
<1>1. CASE /\ kartu' = kartu \cup tulis[t]
           /\ status' = [status EXCEPT ![d] = s]
           /\ Bersih(t) /\ UNCHANGED sistem
  <2>1. /\ pc[t] = "akhir" /\ d \in Dokumen /\ g.aksi \in {"posting", "batal"}
        /\ status[d] # "BELUM" /\ MemegangX(t, KDok(d))
        /\ g.aksi = "posting" /\ Isi[d].jenis \in Anak =>
             MemegangX(t, KDok(Isi[d].induk)) /\ status[Isi[d].induk] = "POSTED"
        /\ g.aksi = "batal" /\ Isi[d].jenis = "pembelian" => ~AnakPosted(d)
    BY DEF Selesai, IInv, InvSesi, JInv, SemuaDok, InvDok, Luar
  <2>2. /\ status'[d] = s /\ s \in {"POSTED", "BATAL"}
        /\ \A e \in Dokumen : e # d => status'[e] = status[e]
    BY <1>1, <2>1 DEF IInv, TypeOK
  <2>3. ASSUME NEW u \in Sesi, u # t PROVE Tenang(u)
    <3>1. pc[u] = "opname" => status'[tugas[u].dok] = status[tugas[u].dok]
      BY <2>1, <2>2 DEF JInv, SemuaDok, InvDok
    <3>2. ASSUME NEW e \in Dokumen, MemegangX(u, KDok(e)), Isi[e].jenis = "pembelian"
          PROVE  status'[e] = status[e] /\ (AnakPosted(e)' => AnakPosted(e))
      <4>1. \A k : MemegangX(t, k) => ~MemegangX(u, k)
        BY <2>3, Asing DEF IInv, Memegang, MemegangX
      <4>2. e # d
        BY <2>1, <3>2, <4>1
      <4>3. ASSUME NEW c \in Dokumen, Isi[c].jenis \in Anak, Isi[c].induk = e, status'[c] = "POSTED"
            PROVE  status[c] = "POSTED"
        <5>1. CASE c = d
          BY <2>1, <2>2, <3>2, <4>1, <4>3, <5>1
        <5>2. CASE c # d
          BY <2>2, <4>3, <5>2
        <5>3. QED BY <5>1, <5>2
      <4>4. QED BY <2>2, <4>2, <4>3 DEF AnakPosted
    <3>3. \A e \in Dokumen : status[e] # "BELUM" => status'[e] # "BELUM"
      BY <2>2
    <3>4. QED BY <3>1, <3>2, <3>3 DEF Tenang
  <2>4. SemuaDok'
    BY <1>1, <2>3, SesiUsai
  <2>5. BelumKosong'
    BY <1>1, <2>2 DEF JInv, DataBaik, BelumKosong
  <2>6. IndukTerjaga'
    <3> SUFFICES ASSUME NEW c \in Dokumen, Isi[c].jenis \in Anak, status'[c] = "POSTED"
                 PROVE  status'[Isi[c].induk] = "POSTED"
      BY DEF IndukTerjaga
    <3>1. Isi[c].induk \in Dokumen /\ Isi[Isi[c].induk].jenis = "pembelian"
      BY IndukPembelian
    <3>2. CASE c = d
      <4>1. status[Isi[c].induk] = "POSTED" /\ Isi[c].induk # d
        BY <2>1, <2>2, <3>1, <3>2 DEF Anak
      <4>2. QED BY <2>2, <3>1, <4>1
    <3>3. CASE c # d
      <4>1. status[c] = "POSTED" /\ status[Isi[c].induk] = "POSTED"
        BY <2>2, <3>3 DEF JInv, DataBaik, IndukTerjaga
      <4>2. CASE Isi[c].induk = d
        <5>1. g.aksi # "batal"
          BY <2>1, <3>1, <4>1, <4>2 DEF AnakPosted
        <5>2. QED BY <2>1, <2>2, <4>2, <5>1
      <4>3. CASE Isi[c].induk # d
        BY <2>2, <3>1, <4>1, <4>3
      <4>4. QED BY <4>2, <4>3
    <3>4. QED BY <3>2, <3>3
  <2>7. OpnameTidakBergeser'
    <3> SUFFICES ASSUME NEW e \in Dokumen, Isi[e].jenis = "stok_opname", status'[e] \in Terbuka,
                        NEW b \in Barang, sistem'[e][b] >= 0
                 PROVE  SaldoTerakhir(kartu', b, Isi[e].ruang) = sistem'[e][b]
      BY DEF OpnameTidakBergeser
    <3>1. e # d /\ status[e] \in Terbuka
      BY <2>2 DEF Terbuka
    <3>2. e \in OpnameTerbuka(Isi[e].ruang)
      BY <3>1 DEF OpnameTerbuka
    <3>3. \A k \in tulis[t] : k.ruang # Isi[e].ruang
      BY <3>1, <3>2 DEF IInv, InvSesi, Terlindung
    <3>4. Pasangan(kartu', b, Isi[e].ruang) = Pasangan(kartu, b, Isi[e].ruang)
      BY <1>1, <3>3 DEF Pasangan
    <3>5. SaldoTerakhir(kartu', b, Isi[e].ruang) = SaldoTerakhir(kartu, b, Isi[e].ruang)
      BY <3>4 DEF SaldoTerakhir, Terakhir
    <3>6. SaldoTerakhir(kartu, b, Isi[e].ruang) = sistem[e][b]
      BY <1>1, <3>1 DEF JInv, DataBaik, OpnameTidakBergeser
    <3>7. QED BY <1>1, <3>5, <3>6
  <2>8. QED BY <2>4, <2>5, <2>6, <2>7 DEF JInv, DataBaik
<1>2. QED BY <1>1, UsaiGagal DEF Selesai

\* A count comes into being without lines.
LEMMA LangkahBukaOpname ==
  ASSUME IInv, JInv, NEW t \in Sesi, BukaOpname(t)
  PROVE  JInv'
<1> DEFINE d == tugas[t].dok
<1>1. CASE status' = [status EXCEPT ![d] = "DRAFT"] /\ Bersih(t) /\ UNCHANGED <<kartu, sistem>>
  <2>1. /\ d \in Dokumen /\ status[d] = "BELUM"
        /\ \A u \in Sesi : u # t /\ pc[u] = "opname" => tugas[u].dok # d
    BY DEF BukaOpname, JInv, SemuaDok, InvDok
  <2>2. Isi[d].jenis = "stok_opname" /\ \A b \in Barang : sistem[d][b] < 0
    BY <2>1 DEF JInv, DataBaik, BelumKosong
  <2>3. status'[d] = "DRAFT" /\ \A e \in Dokumen : e # d => status'[e] = status[e]
    BY <1>1, <2>1 DEF IInv, TypeOK
  <2>4. ASSUME NEW u \in Sesi, u # t PROVE Tenang(u)
    <3>1. \A c \in Dokumen : Isi[c].jenis \in Anak => status'[c] = status[c]
      BY <2>2, <2>3 DEF Anak
    <3>2. \A e \in Dokumen : AnakPosted(e)' => AnakPosted(e)
      BY <3>1 DEF AnakPosted
    <3>3. pc[u] = "opname" => status'[tugas[u].dok] = status[tugas[u].dok]
      BY <2>1, <2>3, <2>4 DEF JInv, SemuaDok, InvDok
    <3>4. QED BY <2>2, <2>3, <3>2, <3>3 DEF Tenang
  <2>5. SemuaDok'
    BY <1>1, <2>4, SesiUsai
  <2>6. BelumKosong'
    BY <1>1, <2>3 DEF JInv, DataBaik, BelumKosong
  <2>7. IndukTerjaga'
    BY <2>2, <2>3, IndukPembelian DEF JInv, DataBaik, IndukTerjaga, Anak
  <2>8. OpnameTidakBergeser'
    <3> SUFFICES ASSUME NEW e \in Dokumen, Isi[e].jenis = "stok_opname", status'[e] \in Terbuka,
                        NEW b \in Barang, sistem[e][b] >= 0
                 PROVE  SaldoTerakhir(kartu, b, Isi[e].ruang) = sistem[e][b]
      BY <1>1 DEF OpnameTidakBergeser
    <3>1. sistem[d][b] \in Int
      BY <2>1 DEF IInv, TypeOK
    <3>2. e # d
      BY <2>2, <3>1
    <3>3. QED BY <2>3, <3>2 DEF JInv, DataBaik, OpnameTidakBergeser
  <2>9. QED BY <2>5, <2>6, <2>7, <2>8 DEF JInv, DataBaik
<1>2. QED BY <1>1, UsaiGagal DEF BukaOpname
\* The lines of a count are drawn, or drawn anew, with the balances of now;
\* a count is submitted or sent back.
LEMMA LangkahOpname ==
  ASSUME IInv, JInv, NEW d \in Dokumen,
         TarikSaldo(d) \/ ReplaceDetail(d) \/ Ajukan(d) \/ Tolak(d)
  PROVE  JInv'
<1>1. /\ UNCHANGED <<kunciVars, sesiVars, kartu>>
      /\ Isi[d].jenis = "stok_opname" /\ status[d] \in Terbuka
  BY DEF TarikSaldo, ReplaceDetail, Ajukan, Tolak, Terbuka
<1>2. /\ status'[d] \in Terbuka
      /\ \A e \in Dokumen : e # d => status'[e] = status[e]
      /\ status' = status \/ sistem' = sistem
  BY <1>1 DEF TarikSaldo, ReplaceDetail, Ajukan, Tolak, Terbuka, IInv, TypeOK
<1>3. /\ \A e \in Dokumen : e # d => sistem'[e] = sistem[e]
      /\ \/ sistem' = sistem
         \/ \A b \in Barang : sistem'[d][b] \in {-1, SaldoTerakhir(kartu, b, Isi[d].ruang)}
  BY DEF TarikSaldo, ReplaceDetail, Ajukan, Tolak, IInv, TypeOK
<1>4. ASSUME NEW u \in Sesi PROVE Tenang(u)
  <2>1. \A c \in Dokumen : Isi[c].jenis \in Anak => status'[c] = status[c]
    BY <1>1, <1>2 DEF Anak
  <2>2. \A e \in Dokumen : AnakPosted(e)' => AnakPosted(e)
    BY <2>1 DEF AnakPosted
  <2>3. pc[u] = "opname" => status'[tugas[u].dok] = status[tugas[u].dok]
    BY <1>1, <1>2 DEF JInv, SemuaDok, InvDok, Terbuka
  <2>4. QED BY <1>1, <1>2, <2>2, <2>3 DEF Tenang, Terbuka
<1>5. SemuaDok'
  <2> SUFFICES ASSUME NEW u \in Sesi PROVE InvDok(u)'
    BY DEF SemuaDok
  <2>1. Maju(u) /\ Sendiri(u)
    BY <1>1 DEF kunciVars, sesiVars, Maju, Sendiri
  <2>2. pc'[u] = pc[u] /\ tugas'[u] = tugas[u] /\ perlu'[u] = perlu[u]
    BY <1>1 DEF sesiVars
  <2>3. QED BY <1>4, <2>1, <2>2, DokLain DEF JInv, SemuaDok
<1>6. BelumKosong'
  BY <1>1, <1>2, <1>3 DEF JInv, DataBaik, BelumKosong, Terbuka
<1>7. IndukTerjaga'
  BY <1>1, <1>2, IndukPembelian DEF JInv, DataBaik, IndukTerjaga, Anak
<1>8. OpnameTidakBergeser'
  <2> SUFFICES ASSUME NEW e \in Dokumen, Isi[e].jenis = "stok_opname", status'[e] \in Terbuka,
                      NEW b \in Barang, sistem'[e][b] >= 0
               PROVE  SaldoTerakhir(kartu, b, Isi[e].ruang) = sistem'[e][b]
    BY <1>1 DEF OpnameTidakBergeser
  <2>1. status[e] \in Terbuka
    BY <1>1, <1>2
  <2>2. CASE sistem'[e] = sistem[e]
    BY <2>1, <2>2 DEF JInv, DataBaik, OpnameTidakBergeser
  <2>3. CASE e = d /\ sistem'[d][b] \in {-1, SaldoTerakhir(kartu, b, Isi[d].ruang)}
    BY <2>3
  <2>4. QED BY <1>3, <2>2, <2>3
<1>9. QED BY <1>5, <1>6, <1>7, <1>8 DEF JInv, DataBaik

LEMMA LangkahTetap ==
  ASSUME IInv, JInv, (\E t \in Sesi : SusunAntrean(t)) \/ UNCHANGED vars
  PROVE  JInv'
<1>1. /\ UNCHANGED <<pc, tugas, perlu, status, kartu, sistem>>
      /\ \A u \in Sesi : Maju(u)
  <2>1. CASE \E t \in Sesi : SusunAntrean(t)
    BY <2>1, SusunMaju DEF SusunAntrean, dataVars, sesiVars, IInv, TypeOK
  <2>2. CASE UNCHANGED vars
    BY <2>2 DEF vars, dataVars, sesiVars, kunciVars, Maju
  <2>3. QED BY <2>1, <2>2
<1>2. \A u \in Sesi : Tenang(u) /\ Sendiri(u)
  BY <1>1, TenangDiam DEF Sendiri
<1>3. SemuaDok'
  BY <1>1, <1>2, DokLain DEF JInv, SemuaDok
<1>4. DataBaik'
  BY <1>1 DEF JInv, DataBaik, BelumKosong, OpnameTidakBergeser, IndukTerjaga
<1>5. QED BY <1>3, <1>4 DEF JInv

-----------------------------------------------------------------------------
(* The theorems.                                                           *)

LEMMA DokumenAwal == Init => JInv
<1> SUFFICES ASSUME Init PROVE JInv
  OBVIOUS
<1>1. SemuaDok
  BY DEF Init, SemuaDok, InvDok, Luar
<1>2. DataBaik
  BY AsumsiRiwayat DEF AsumsiRiwayat, Init, DataBaik, BelumKosong, OpnameTidakBergeser,
    IndukTerjaga
<1>3. QED BY <1>1, <1>2 DEF JInv

LEMMA DokumenInduktif == IInv /\ JInv /\ [Next]_vars => JInv'
<1> SUFFICES ASSUME IInv, JInv, [Next]_vars PROVE JInv'
  OBVIOUS
<1>1. ASSUME NEW t \in Sesi, TutupBuku(t) \/ BukaBuku(t) PROVE JInv'
  <2>1. CASE Gagal(t)
    BY <2>1, UsaiGagal
  <2>2. CASE Bersih(t) /\ UNCHANGED <<kartu, status, sistem>>
    <3>1. SemuaDok'
      BY <2>2, SesiUsai, TenangDiam
    <3>2. DataBaik'
      BY <2>2 DEF JInv, DataBaik, BelumKosong, OpnameTidakBergeser, IndukTerjaga
    <3>3. QED BY <3>1, <3>2 DEF JInv
  <2>3. QED BY <1>1, <2>1, <2>2 DEF TutupBuku, BukaBuku
<1>2. ASSUME NEW t \in Sesi, Langkah(t) PROVE JInv'
  BY <1>1, <1>2, LangkahPeriksa, LangkahAmbil, LangkahAwal, LangkahSisip, LangkahSelesai,
     LangkahBukaOpname DEF Langkah
<1>3. ASSUME NEW t \in Sesi, BatalkanKorban(t) PROVE JInv'
  BY <1>3, UsaiGagal DEF BatalkanKorban
<1>4. QED
  BY <1>2, <1>3, LangkahMulai, LangkahOpname, LangkahTetap DEF Next, Diam

LEMMA DokumenBenar == Spec => []JInv
BY AwalBenar, Induktif, DokumenAwal, DokumenInduktif, PTL DEF Spec

\* However transfers, sales, receipts and cancellations interleave with a
\* stock count, the balances it froze are the balances of its room for as
\* long as it is open.
THEOREM OpnameSelaluTetap == Spec => []OpnameTidakBergeser
<1>1. JInv => OpnameTidakBergeser
  BY DEF JInv, DataBaik
<1>2. QED BY <1>1, DokumenBenar, PTL

\* However they interleave: a follow-up receipt or a return that is POSTED
\* belongs to a purchase that is POSTED.
THEOREM IndukSelaluTerjaga == Spec => []IndukTerjaga
<1>1. JInv => IndukTerjaga
  BY DEF JInv, DataBaik
<1>2. QED BY <1>1, DokumenBenar, PTL

-----------------------------------------------------------------------------
(* The ledger against the statuses of its documents.                       *)

\* Inside the trigger.
Pemicu == {"trg_periode", "trg_ruang", "trg_saldo"}

\* The ids a session has drawn and not committed.
IdSesi(u) ==
  {k.id : k \in tulis[u]} \cup (IF pc[u] \in Pemicu THEN {idBaru[u]} ELSE {})

IdTunggal(S) == \A k, l \in S : k.id = l.id => k = l

\* An id is drawn once and names one row.
IdTerpisah ==
  /\ 0 < nextId /\ IdTunggal(kartu)
  /\ \A k \in kartu : 0 < k.id /\ k.id < nextId
  /\ \A u \in Sesi :
       /\ IdTunggal(tulis[u])
       /\ \A i \in IdSesi(u) : 0 < i /\ i < nextId /\ \A k \in kartu : k.id # i
       /\ pc[u] \in Pemicu => \A k \in tulis[u] : k.id # idBaru[u]
  /\ \A u, v \in Sesi : u # v => IdSesi(u) \cap IdSesi(v) = {}

(* What rows add up to, pair by pair.                                      *)

Neto(S, b, r) == Jml([k \in Pasangan(S, b, r) |-> k.masuk - k.keluar], Pasangan(S, b, r))

Terukur(S) == IsFiniteSet(S) /\ \A k \in S : k.masuk \in Nat /\ k.keluar \in Nat

LEMMA PasanganUkur ==
  ASSUME NEW S, Terukur(S), NEW b, NEW r
  PROVE  /\ IsFiniteSet(Pasangan(S, b, r))
         /\ \A k \in Pasangan(S, b, r) : k \in S /\ k.masuk - k.keluar \in Int
<1>1. Pasangan(S, b, r) \subseteq S
  BY DEF Pasangan
<1>2. QED BY <1>1, FS_Subset DEF Terukur

\* Any function that agrees on the rows has their sum.
LEMMA NetoFungsi ==
  ASSUME NEW S, Terukur(S), NEW b, NEW r, NEW f,
         \A k \in Pasangan(S, b, r) : f[k] = k.masuk - k.keluar
  PROVE  Neto(S, b, r) = Jml(f, Pasangan(S, b, r))
<1>1. PICK P : P = Pasangan(S, b, r)
  OBVIOUS
<1>2. PICK g : g = [k \in P |-> k.masuk - k.keluar]
  OBVIOUS
<1>3. IsFiniteSet(P) /\ \A k \in P : g[k] = f[k]
  BY <1>1, <1>2, PasanganUkur
<1>4. Jml(g, P) = Jml(f, P)
  BY <1>3, JmlSama
<1>5. QED BY <1>1, <1>2, <1>4 DEF Neto

LEMMA NetoKosong == ASSUME NEW b, NEW r PROVE Neto({}, b, r) = 0
<1>1. Pasangan({}, b, r) = {}
  BY DEF Pasangan
<1>2. QED BY <1>1, JmlKosong DEF Neto

LEMMA NetoBulat ==
  ASSUME NEW S, Terukur(S), NEW b, NEW r
  PROVE  Neto(S, b, r) \in Int
<1>1. PICK P : P = Pasangan(S, b, r)
  OBVIOUS
<1>2. PICK g : g = [k \in P |-> k.masuk - k.keluar]
  OBVIOUS
<1>3. IsFiniteSet(P) /\ \A k \in P : g[k] \in Int
  BY <1>1, <1>2, PasanganUkur
<1>4. QED BY <1>1, <1>2, <1>3, JmlBulat DEF Neto

\* Rows that are not the same.
LEMMA NetoGabung ==
  ASSUME NEW S, NEW T, Terukur(S), Terukur(T), S \cap T = {}, NEW b, NEW r
  PROVE  Terukur(S \cup T) /\ Neto(S \cup T, b, r) = Neto(S, b, r) + Neto(T, b, r)
<1>1. PICK P, Q : P = Pasangan(S, b, r) /\ Q = Pasangan(T, b, r)
  OBVIOUS
<1>2. Terukur(S \cup T)
  BY FS_Union DEF Terukur
<1>3. Pasangan(S \cup T, b, r) = P \cup Q /\ P \cap Q = {}
  BY <1>1 DEF Pasangan
<1>4. PICK f : f = [k \in P \cup Q |-> k.masuk - k.keluar]
  OBVIOUS
<1>5. IsFiniteSet(P) /\ IsFiniteSet(Q) /\ \A k \in P \cup Q : f[k] \in Int
  BY <1>1, <1>4, PasanganUkur
<1>6. Jml(f, P \cup Q) = Jml(f, P) + Jml(f, Q)
  BY <1>3, <1>5, JmlPisah
<1>7. Neto(S, b, r) = Jml(f, P) /\ Neto(T, b, r) = Jml(f, Q) /\ Neto(S \cup T, b, r) = Jml(f, P \cup Q)
  BY <1>1, <1>2, <1>3, <1>4, NetoFungsi
<1>8. QED BY <1>2, <1>6, <1>7

\* A single row counts for its own pair.
LEMMA NetoSatu ==
  ASSUME NEW y, y.masuk \in Nat, y.keluar \in Nat, NEW b, NEW r
  PROVE  /\ Terukur({y})
         /\ Neto({y}, b, r) = IF y.barang = b /\ y.ruang = r THEN y.masuk - y.keluar ELSE 0
<1>1. Terukur({y})
  BY FS_Singleton DEF Terukur
<1>2. CASE y.barang = b /\ y.ruang = r
  <2>1. Pasangan({y}, b, r) = {y}
    BY <1>2 DEF Pasangan
  <2>2. PICK f : f = [k \in {y} |-> k.masuk - k.keluar]
    OBVIOUS
  <2>3. {y} \ {y} = {} /\ f[y] = y.masuk - y.keluar /\ f[y] \in Int
    BY <2>2
  <2>4. IsFiniteSet({y}) /\ y \in {y} /\ \A x \in {y} : f[x] \in Int
    BY <2>3, FS_Singleton
  <2>5. Neto({y}, b, r) = Jml(f, {y})
    BY <2>1, <2>2 DEF Neto
  <2>6. Jml(f, {y}) = f[y] + Jml(f, {y} \ {y})
    BY <2>4, JmlAmbil
  <2>7. Jml(f, {y} \ {y}) = 0
    BY <2>3, JmlKosong
  <2>8. QED BY <1>1, <1>2, <2>3, <2>5, <2>6, <2>7
<1>3. CASE ~(y.barang = b /\ y.ruang = r)
  <2>1. Pasangan({y}, b, r) = {}
    BY <1>3 DEF Pasangan
  <2>2. QED BY <1>1, <1>3, <2>1, JmlKosong DEF Neto
<1>4. QED BY <1>2, <1>3

\* A row more, a row less.
LEMMA NetoBaru ==
  ASSUME NEW S, Terukur(S), NEW y, y \notin S, y.masuk \in Nat, y.keluar \in Nat, NEW b, NEW r
  PROVE  /\ Terukur(S \cup {y})
         /\ Neto(S \cup {y}, b, r)
              = Neto(S, b, r) + (IF y.barang = b /\ y.ruang = r THEN y.masuk - y.keluar ELSE 0)
<1>1. S \cap {y} = {}
  OBVIOUS
<1>2. /\ Terukur({y})
      /\ Neto({y}, b, r) = IF y.barang = b /\ y.ruang = r THEN y.masuk - y.keluar ELSE 0
  BY NetoSatu
<1>3. Terukur(S \cup {y}) /\ Neto(S \cup {y}, b, r) = Neto(S, b, r) + Neto({y}, b, r)
  BY <1>1, <1>2, NetoGabung
<1>4. QED BY <1>2, <1>3

LEMMA NetoHabis ==
  ASSUME NEW S, Terukur(S), NEW y \in S, NEW b, NEW r
  PROVE  /\ Terukur(S \ {y})
         /\ Neto(S, b, r)
              = Neto(S \ {y}, b, r) + (IF y.barang = b /\ y.ruang = r THEN y.masuk - y.keluar ELSE 0)
<1>1. PICK T : T = S \ {y}
  OBVIOUS
<1>2. Terukur(T) /\ y \notin T /\ T \cup {y} = S /\ y.masuk \in Nat /\ y.keluar \in Nat
  BY <1>1, FS_Subset DEF Terukur
<1>3. QED BY <1>1, <1>2, NetoBaru

\* Rows named by something else, one name for each.
Bernama(I, h, S) ==
  /\ IsFiniteSet(I) /\ S = {h[i] : i \in I}
  /\ \A i, j \in I : h[i] = h[j] => i = j
  /\ \A i \in I : h[i].masuk \in Nat /\ h[i].keluar \in Nat

Terpilih(I, h, b, r, J, g) ==
  /\ J = {i \in I : h[i].barang = b /\ h[i].ruang = r}
  /\ \A i \in J : g[i] = h[i].masuk - h[i].keluar

LEMMA NetoCitra ==
  ASSUME NEW I, NEW h, NEW S, Bernama(I, h, S), NEW b, NEW r, NEW J, NEW g, Terpilih(I, h, b, r, J, g)
  PROVE  Terukur(S) /\ Neto(S, b, r) = Jml(g, J)
<1> USE DEF Bernama, Terpilih
<1>1. J \subseteq I /\ IsFiniteSet(J)
  BY FS_Subset
<1>2. Pasangan(S, b, r) = {h[i] : i \in J}
  BY DEF Pasangan
<1>3. PICK f : f = [k \in S |-> k.masuk - k.keluar]
  OBVIOUS
<1>4. \A i \in J : g[i] \in Int /\ f[h[i]] = g[i]
  BY <1>1, <1>3
<1>5. \A i, j \in J : h[i] = h[j] => i = j
  BY <1>1
<1>6. Jml(f, {h[i] : i \in J}) = Jml(g, J)
  BY <1>1, <1>4, <1>5, JmlCitra
<1>7. Terukur(S)
  BY Citra DEF Terukur
<1>8. \A k \in Pasangan(S, b, r) : f[k] = k.masuk - k.keluar
  BY <1>3 DEF Pasangan
<1>9. Neto(S, b, r) = Jml(f, Pasangan(S, b, r))
  BY <1>7, <1>8, NetoFungsi
<1>10. QED BY <1>2, <1>6, <1>7, <1>9

\* The rows a transaction has to insert, from its first look at the document.
HarusSisip(g) ==
  IF g.aksi = "posting" THEN BarisPosting(g.dok, sistem[g.dok])
  ELSE IF status[g.dok] = "POSTED" THEN BarisBatal(g.dok) ELSE {}

Jejak(S) == {<<x.barang, x.ruang, x.masuk, x.keluar, x.asal>> : x \in S}

\* The month its rows are dated in.
BulanGerak(g) == IF g.aksi = "posting" THEN Isi[g.dok].bulan ELSE BulanIni

Menulis == {"kunci", "sisip", "akhir"} \cup Pemicu

\* What is inserted and what still is to be are together what has to be.
InvTulis(t) ==
  LET g == tugas[t] IN
  pc[t] \in Menulis =>
    /\ IsFiniteSet(tulis[t]) /\ IsFiniteSet(baris[t])
    /\ Jejak(tulis[t]) \cup Jejak(baris[t]) = Jejak(HarusSisip(g))
    /\ Cardinality(tulis[t]) + Cardinality(baris[t]) = Cardinality(HarusSisip(g))
    /\ g.aksi = "posting" =>
         status[g.dok] \notin {"POSTED", "BATAL"}
    /\ pc[t] = "akhir" => baris[t] = {}
    /\ \A x \in tulis[t] \cup baris[t] : x.bulan = BulanGerak(g)
    /\ \A b \in Barang, r \in Ruang :
         Neto(tulis[t], b, r) + Neto(baris[t], b, r) = Neto(HarusSisip(g), b, r)

KInv == IdTerpisah /\ KartuCocokStatus /\ IsFiniteSet(kartu) /\ \A t \in Sesi : InvTulis(t)

-----------------------------------------------------------------------------
(* What a document has to write.                                           *)

LEMMA BarisRencana ==
  ASSUME NEW d \in Dokumen
  PROVE  RencanaPosting(d).baris = BarisPosting(d, sistem[d])
<1>1. CASE Isi[d].jenis = "mutasi"
  BY <1>1 DEF RencanaPosting, BarisPosting, PostingMutasi, Keluaran
<1>2. CASE Isi[d].jenis = "penjualan"
  BY <1>2 DEF RencanaPosting, BarisPosting, PostingPenjualan, Keluaran
<1>3. CASE Isi[d].jenis = "pemakaian"
  BY <1>3 DEF RencanaPosting, BarisPosting, PostingPemakaian, Keluaran
<1>4. CASE Isi[d].jenis = "retur_pembelian"
  BY <1>4 DEF RencanaPosting, BarisPosting, PostingRetur, Keluaran
<1>5. CASE Isi[d].jenis = "stok_opname"
  BY <1>5 DEF RencanaPosting, BarisPosting, PostingOpname, BarisOpname, Keluaran
<1>6. CASE Isi[d].jenis = "saldo_awal"
  BY <1>6 DEF RencanaPosting, BarisPosting, PostingSaldoAwal, Keluaran
<1>7. CASE Isi[d].jenis = "pembelian"
  BY <1>7 DEF RencanaPosting, BarisPosting, PostingPembelian, Keluaran
<1>8. CASE Isi[d].jenis = "penerimaan_susulan"
  BY <1>8 DEF RencanaPosting, BarisPosting, PostingSusulan, Keluaran
<1>9. QED
  BY <1>1, <1>2, <1>3, <1>4, <1>5, <1>6, <1>7, <1>8, TipeIsi DEF Jenis, Masukan, Keluaran

\* Finitely many rows, none of them a reversal, all in the document's month.
LEMMA BarisHingga ==
  ASSUME NEW d \in Dokumen, NEW s
  PROVE  /\ IsFiniteSet(BarisPosting(d, s))
         /\ \A x \in BarisPosting(d, s) : x.asal = Nol /\ x.bulan = Isi[d].bulan
<1> DEFINE D == DOMAIN Isi[d].baris
           awal(i) == s[Isi[d].baris[i].barang]
           q(i) == Isi[d].baris[i].qty
           M == [i \in D |-> Gerak(i, d, i, Isi[d].ruang, q(i), 0)]
           K == [i \in D |-> Gerak(i, d, i, Isi[d].ruang, 0, q(i))]
           M1 == [i \in D |-> Gerak(2 * i, d, i, Isi[d].ruang, 0, q(i))]
           M2 == [i \in D |-> Gerak(2 * i + 1, d, i, Isi[d].tujuan, q(i), 0)]
           O1 == [i \in D |-> Gerak(i, d, i, Isi[d].ruang, q(i) - awal(i), 0)]
           O2 == [i \in D |-> Gerak(i, d, i, Isi[d].ruang, 0, awal(i) - q(i))]
<1>1. IsFiniteSet(D)
  <2>1. PICK n \in Nat : D = 1..n
    BY AsumsiStok DEF AsumsiStok, Dok
  <2>2. QED BY <2>1, FS_Interval
<1>2. \A f : IsFiniteSet({f[i] : i \in D})
  BY <1>1, Citra
<1>3. BarisMasuk(d) = {M[i] : i \in D} /\ BarisKeluar(d) = {K[i] : i \in D}
  BY DEF BarisMasuk, BarisKeluar
<1>4. BarisMutasi(d) = {M1[i] : i \in D} \cup {M2[i] : i \in D}
  BY DEF BarisMutasi
<1>5. BarisOpnameDari(d, s) \subseteq {O1[i] : i \in D} \cup {O2[i] : i \in D}
  BY DEF BarisOpnameDari, TerhitungDari
<1>6. IsFiniteSet(BarisPosting(d, s))
  <2>1. IsFiniteSet(BarisMasuk(d)) /\ IsFiniteSet(BarisKeluar(d))
    BY <1>2, <1>3
  <2>2. IsFiniteSet(BarisMutasi(d))
    BY <1>2, <1>4, FS_Union
  <2>3. IsFiniteSet(BarisOpnameDari(d, s))
    <3>1. IsFiniteSet({O1[i] : i \in D} \cup {O2[i] : i \in D})
      BY <1>2, FS_Union
    <3>2. QED BY <1>5, <3>1, FS_Subset
  <2>4. QED BY <2>1, <2>2, <2>3 DEF BarisPosting
<1> DEFINE Asli(x) == x.asal = Nol /\ x.bulan = Isi[d].bulan
<1>7. \A no, i, r, m, k : Asli(Gerak(no, d, i, r, m, k))
  BY DEF Gerak
<1> HIDE DEF Asli
<1>8. \A x \in BarisPosting(d, s) : Asli(x)
  <2>1. \A i \in D : Asli(M[i]) /\ Asli(K[i]) /\ Asli(M1[i]) /\ Asli(M2[i]) /\ Asli(O1[i]) /\ Asli(O2[i])
    BY <1>7
  <2> HIDE DEF D, M, K, M1, M2, O1, O2
  <2>2. BarisPosting(d, s) \in {BarisMasuk(d), BarisKeluar(d), BarisMutasi(d), BarisOpnameDari(d, s)}
    BY DEF BarisPosting
  <2>3. QED BY <1>3, <1>4, <1>5, <2>1, <2>2
<1>9. QED BY <1>6, <1>8 DEF Asli

\* The reversals of the rows M.
Balikan(M) ==
  {[no |-> k.id, barang |-> k.barang, ruang |-> k.ruang, masuk |-> k.keluar,
    keluar |-> k.masuk, bulan |-> BulanIni, asal |-> k.id] : k \in {x \in M : x.asal = Nol}}

LEMMA BatalBalikan == ASSUME NEW d PROVE BarisBatal(d) = Balikan(Milik(kartu, d))
BY DEF BarisBatal, Balikan, Milik

\* Every row has one.
LEMMA BalikanHingga ==
  ASSUME NEW M, IsFiniteSet(M), IdTunggal(M)
  PROVE  /\ IsFiniteSet(Balikan(M))
         /\ Cardinality(Balikan(M)) = Cardinality({k \in M : k.asal = Nol})
<1> DEFINE A == {k \in M : k.asal = Nol}
           f == [k \in A |-> [no |-> k.id, barang |-> k.barang, ruang |-> k.ruang,
                              masuk |-> k.keluar, keluar |-> k.masuk, bulan |-> BulanIni,
                              asal |-> k.id]]
<1>1. IsFiniteSet(A)
  BY FS_Subset
<1>2. Balikan(M) = {f[k] : k \in A}
  BY DEF Balikan
<1>3. \A k, l \in A : f[k] = f[l] => k = l
  <2> TAKE k, l \in A
  <2> HAVE f[k] = f[l]
  <2>1. f[k].no = k.id /\ f[l].no = l.id
    OBVIOUS
  <2>2. QED BY <2>1 DEF IdTunggal
<1>4. f \in [A -> Balikan(M)]
  BY <1>2
<1> HIDE DEF f
<1>5. f \in Bijection(A, Balikan(M))
  <2>1. f \in Injection(A, Balikan(M))
    BY <1>3, <1>4 DEF Injection, IsInjective
  <2>2. f \in Surjection(A, Balikan(M))
    BY <1>2, <1>4 DEF Surjection
  <2>3. QED BY <2>1, <2>2 DEF Bijection
<1>6. ExistsBijection(A, Balikan(M))
  BY <1>5 DEF ExistsBijection
<1> HIDE DEF A
<1>7. IsFiniteSet(Balikan(M)) /\ Cardinality(Balikan(M)) = Cardinality(A)
  BY <1>1, <1>6, FS_Bijection
<1>8. QED BY <1>7 DEF A

LEMMA CocokPosting ==
  ASSUME NEW T, NEW H, \A x \in H : x.asal = Nol,
         Jejak(T) = Jejak(H), Cardinality(T) = Cardinality(H)
  PROVE  CocokDokumen(T, "POSTED", H)
<1>1. \A k \in T : \E x \in H :
        <<k.barang, k.ruang, k.masuk, k.keluar, k.asal>> = <<x.barang, x.ruang, x.masuk, x.keluar, x.asal>>
  BY DEF Jejak
<1>2. \A x \in H : \E k \in T :
        <<k.barang, k.ruang, k.masuk, k.keluar, k.asal>> = <<x.barang, x.ruang, x.masuk, x.keluar, x.asal>>
  BY DEF Jejak
<1>3. {k \in T : k.asal = Nol} = T
  BY <1>1
<1>4. {<<k.barang, k.ruang, k.masuk, k.keluar>> : k \in T}
        = {<<x.barang, x.ruang, x.masuk, x.keluar>> : x \in H}
  BY <1>1, <1>2
<1>5. QED BY <1>3, <1>4 DEF CocokDokumen

LEMMA CocokBatal ==
  ASSUME NEW M, NEW T, IsFiniteSet(M), IdTunggal(M), \A k \in M : k.id # Nol,
         NEW H, CocokDokumen(M, "POSTED", H), NEW G,
         Jejak(T) = Jejak(Balikan(M)), Cardinality(T) = Cardinality(Balikan(M))
  PROVE  CocokDokumen(M \cup T, "BATAL", G)
<1>1. \A k \in M : k.asal = Nol
  BY DEF CocokDokumen
<1>2. \A x \in Balikan(M) : x.asal # Nol
  BY DEF Balikan
<1>3. \A l \in T : \E x \in Balikan(M) :
        <<l.barang, l.ruang, l.masuk, l.keluar, l.asal>> = <<x.barang, x.ruang, x.masuk, x.keluar, x.asal>>
  BY DEF Jejak
<1>4. {k \in M \cup T : k.asal = Nol} = M /\ (M \cup T) \ M = T
  BY <1>1, <1>2, <1>3
<1>5. Cardinality(T) = Cardinality(M)
  <2>1. {k \in M : k.asal = Nol} = M
    BY <1>1
  <2>2. QED BY <2>1, BalikanHingga
<1>6. \A k \in M : \E l \in T : l.asal = k.id /\ l.masuk = k.keluar /\ l.keluar = k.masuk
                                /\ l.barang = k.barang /\ l.ruang = k.ruang
  <2> TAKE k \in M
  <2>1. PICK x \in Balikan(M) : x.asal = k.id /\ x.masuk = k.keluar /\ x.keluar = k.masuk
                                /\ x.barang = k.barang /\ x.ruang = k.ruang
    <3> DEFINE y == [no |-> k.id, barang |-> k.barang, ruang |-> k.ruang, masuk |-> k.keluar,
                     keluar |-> k.masuk, bulan |-> BulanIni, asal |-> k.id]
    <3>1. y \in Balikan(M)
      BY <1>1 DEF Balikan
    <3>2. QED BY <3>1
  <2>2. PICK l \in T : <<l.barang, l.ruang, l.masuk, l.keluar, l.asal>>
                         = <<x.barang, x.ruang, x.masuk, x.keluar, x.asal>>
    <3>1. \A z \in Balikan(M) : \E m \in T :
            <<m.barang, m.ruang, m.masuk, m.keluar, m.asal>> = <<z.barang, z.ruang, z.masuk, z.keluar, z.asal>>
      BY DEF Jejak
    <3>2. QED BY <3>1
  <2>3. QED BY <2>1, <2>2
<1>7. QED BY <1>4, <1>5, <1>6 DEF CocokDokumen

-----------------------------------------------------------------------------
(* An id is drawn once.                                                    *)

\* Ids are only given up.
LEMMA IdTetap ==
  ASSUME IdTerpisah, UNCHANGED <<kartu, nextId>>,
         \A u \in Sesi : /\ tulis'[u] \subseteq tulis[u]
                         /\ pc'[u] \in Pemicu => pc[u] \in Pemicu /\ idBaru'[u] = idBaru[u]
  PROVE  IdTerpisah'
<1>1. \A u \in Sesi : IdSesi(u)' \subseteq IdSesi(u)
  BY DEF IdSesi
<1>2. \A u \in Sesi : IdTunggal(tulis[u])'
  BY DEF IdTerpisah, IdTunggal
<1>3. IdTunggal(kartu)'
  BY DEF IdTerpisah, IdTunggal
<1>4. \A u \in Sesi : pc'[u] \in Pemicu => \A k \in tulis'[u] : k.id # idBaru'[u]
  BY DEF IdTerpisah
<1>5. \A u, v \in Sesi : u # v => IdSesi(u)' \cap IdSesi(v)' = {}
  BY <1>1 DEF IdTerpisah
<1>6. \A u \in Sesi : \A i \in IdSesi(u)' : 0 < i /\ i < nextId' /\ \A k \in kartu' : k.id # i
  BY <1>1 DEF IdTerpisah
<1>7. QED BY <1>2, <1>3, <1>4, <1>5, <1>6 DEF IdTerpisah

LEMMA IdDiambil ==
  ASSUME IInv, IdTerpisah, NEW t \in Sesi, Sisip(t)
  PROVE  IdTerpisah'
<1>1. /\ pc[t] = "sisip" /\ pc'[t] = "trg_periode" /\ idBaru'[t] = nextId
      /\ nextId' = nextId + 1 /\ nextId \in Nat /\ UNCHANGED <<kartu, tulis>>
      /\ \A u \in Sesi : u # t => pc'[u] = pc[u] /\ idBaru'[u] = idBaru[u]
  BY DEF Sisip, dataVars, IInv, TypeOK
<1>2. /\ IdSesi(t)' = IdSesi(t) \cup {nextId}
      /\ \A u \in Sesi : u # t => IdSesi(u)' = IdSesi(u)
  BY <1>1 DEF IdSesi, Pemicu
<1>3. \A u \in Sesi : \A i \in IdSesi(u) : i < nextId
  BY DEF IdTerpisah
<1>4. \A u \in Sesi : nextId \notin IdSesi(u)
  BY <1>1, <1>3
<1>5. \A u, v \in Sesi : u # v => IdSesi(u)' \cap IdSesi(v)' = {}
  BY <1>2, <1>4 DEF IdTerpisah
<1>6. \A k \in kartu : 0 < k.id /\ k.id < nextId /\ k.id \in Nat
  BY DEF IdTerpisah, IInv, TypeOK, BarisKartu
<1>7. ASSUME NEW u \in Sesi, NEW i \in IdSesi(u)'
      PROVE  0 < i /\ i < nextId' /\ \A k \in kartu' : k.id # i
  <2>1. CASE i = nextId
    BY <1>1, <1>6, <2>1 DEF IdTerpisah
  <2>2. CASE i \in IdSesi(u)
    <3>1. 0 < i /\ i < nextId /\ \A k \in kartu : k.id # i
      BY <2>2 DEF IdTerpisah
    <3>2. i \in Int
      BY <2>2 DEF IdSesi, IInv, TypeOK, BarisKartu
    <3>3. QED BY <1>1, <3>1, <3>2
  <2>3. QED BY <1>2, <1>7, <2>1, <2>2
<1>8. ASSUME NEW u \in Sesi, pc'[u] \in Pemicu PROVE \A k \in tulis'[u] : k.id # idBaru'[u]
  <2>1. CASE u = t
    <3>1. \A k \in tulis[t] : k.id \in IdSesi(t)
      BY DEF IdSesi
    <3>2. QED BY <1>1, <1>4, <2>1, <3>1
  <2>2. CASE u # t
    BY <1>1, <1>8, <2>2 DEF IdTerpisah
  <2>3. QED BY <2>1, <2>2
<1>9. \A u \in Sesi : IdTunggal(tulis[u])'
  BY <1>1 DEF IdTerpisah, IdTunggal
<1>10. 0 < nextId' /\ IdTunggal(kartu)' /\ \A k \in kartu' : 0 < k.id /\ k.id < nextId'
  BY <1>1, <1>6 DEF IdTerpisah, IdTunggal
<1>11. QED BY <1>5, <1>7, <1>8, <1>9, <1>10 DEF IdTerpisah

\* The trigger writes the row under the id drawn for it.
LEMMA IdDipakai ==
  ASSUME IdTerpisah, NEW t \in Sesi, pc[t] \in Pemicu, pc'[t] \notin Pemicu,
         NEW y, y.id = idBaru[t], tulis'[t] = tulis[t] \cup {y},
         \A u \in Sesi : u # t => tulis'[u] = tulis[u] /\ pc'[u] = pc[u],
         UNCHANGED <<kartu, nextId, idBaru>>
  PROVE  IdTerpisah'
<1>1. \A u \in Sesi : IdSesi(u)' = IdSesi(u)
  <2> SUFFICES ASSUME NEW u \in Sesi PROVE IdSesi(u)' = IdSesi(u)
    OBVIOUS
  <2>1. CASE u = t
    BY <2>1 DEF IdSesi
  <2>2. CASE u # t
    BY <2>2 DEF IdSesi
  <2>3. QED BY <2>1, <2>2
<1>2. \A k \in tulis[t] : k.id # y.id
  BY DEF IdTerpisah
<1>3. \A u \in Sesi : IdTunggal(tulis[u])'
  BY <1>2 DEF IdTerpisah, IdTunggal
<1>4. \A u \in Sesi : pc'[u] \in Pemicu => \A k \in tulis'[u] : k.id # idBaru'[u]
  BY DEF IdTerpisah
<1>5. IdTunggal(kartu)'
  BY DEF IdTerpisah, IdTunggal
<1>6. \A u, v \in Sesi : u # v => IdSesi(u)' \cap IdSesi(v)' = {}
  BY <1>1 DEF IdTerpisah
<1>7. \A u \in Sesi : \A i \in IdSesi(u)' : 0 < i /\ i < nextId' /\ \A k \in kartu' : k.id # i
  BY <1>1 DEF IdTerpisah
<1>8. QED BY <1>3, <1>4, <1>5, <1>6, <1>7 DEF IdTerpisah

LEMMA IdMasuk ==
  ASSUME IdTerpisah, NEW t \in Sesi, pc[t] \notin Pemicu, pc'[t] \notin Pemicu,
         kartu' = kartu \cup tulis[t], tulis'[t] = {}, nextId' = nextId,
         \A u \in Sesi : u # t => /\ tulis'[u] = tulis[u] /\ pc'[u] = pc[u]
                                  /\ idBaru'[u] = idBaru[u]
  PROVE  IdTerpisah'
<1>1. IdSesi(t)' = {} /\ \A u \in Sesi : u # t => IdSesi(u)' = IdSesi(u)
  BY DEF IdSesi
<1>2. \A k \in tulis[t] : k.id \in IdSesi(t)
  BY DEF IdSesi
<1>3. \A k \in tulis[t] : 0 < k.id /\ k.id < nextId /\ \A l \in kartu : l.id # k.id
  BY <1>2 DEF IdTerpisah
<1>4. IdTunggal(kartu)'
  BY <1>3 DEF IdTerpisah, IdTunggal
<1>5. \A k \in kartu' : 0 < k.id /\ k.id < nextId'
  BY <1>3 DEF IdTerpisah
<1>6. ASSUME NEW u \in Sesi, NEW i \in IdSesi(u)'
      PROVE  0 < i /\ i < nextId' /\ \A k \in kartu' : k.id # i
  <2>1. u # t /\ i \in IdSesi(u) /\ i \notin IdSesi(t)
    BY <1>1, <1>6 DEF IdTerpisah
  <2>2. QED BY <1>2, <2>1 DEF IdTerpisah
<1>7. \A u \in Sesi : IdTunggal(tulis[u])'
  BY DEF IdTerpisah, IdTunggal
<1>8. \A u \in Sesi : pc'[u] \in Pemicu => \A k \in tulis'[u] : k.id # idBaru'[u]
  BY DEF IdTerpisah
<1>9. \A u, v \in Sesi : u # v => IdSesi(u)' \cap IdSesi(v)' = {}
  BY <1>1 DEF IdTerpisah
<1>10. QED BY <1>4, <1>5, <1>6, <1>7, <1>8, <1>9 DEF IdTerpisah

-----------------------------------------------------------------------------
(* What a transaction has written survives the steps of the others.        *)

\* u's rows and its work are what they were.
Utuh(u) ==
  /\ tugas'[u] = tugas[u] /\ baris'[u] = baris[u] /\ tulis'[u] = tulis[u]
  /\ pc[u] \in Menulis
  /\ pc'[u] = "akhir" => pc[u] = "akhir" \/ baris[u] = {}

\* Of document d nothing changes.
DokUtuh(d) ==
  /\ status'[d] = status[d] /\ sistem'[d] = sistem[d]
  /\ Milik(kartu', d) = Milik(kartu, d)

LEMMA TulisLain ==
  ASSUME NEW u \in Sesi, InvTulis(u), Utuh(u), DokUtuh(tugas[u].dok)
  PROVE  InvTulis(u)'
<1>1. PICK g : g = tugas[u]
  OBVIOUS
<1>2. BarisBatal(g.dok)' = BarisBatal(g.dok)
  <2>1. Milik(kartu', g.dok) = Milik(kartu, g.dok)
    BY <1>1 DEF DokUtuh
  <2>2. BarisBatal(g.dok)' = Balikan(Milik(kartu', g.dok))
    BY DEF BarisBatal, Balikan, Milik
  <2>3. QED BY <2>1, <2>2, BatalBalikan
<1>3. HarusSisip(g)' = HarusSisip(g)
  BY <1>1, <1>2 DEF HarusSisip, DokUtuh
<1>4. HarusSisip(tugas[u])' = HarusSisip(tugas[u])
  <2>1. HarusSisip(tugas[u])' = HarusSisip(g)'
    BY <1>1 DEF HarusSisip, Utuh, BarisBatal
  <2>2. QED BY <1>1, <1>3, <2>1
<1>5. pc[u] \in Menulis /\ tugas'[u] = tugas[u] /\ baris'[u] = baris[u] /\ tulis'[u] = tulis[u]
      /\ (pc'[u] = "akhir" => pc[u] = "akhir" \/ baris[u] = {})
  BY DEF Utuh
<1>6. Jejak(tulis[u])' = Jejak(tulis[u]) /\ Jejak(baris[u])' = Jejak(baris[u])
  BY <1>5 DEF Jejak
<1>7. status'[tugas[u].dok] = status[tugas[u].dok]
  BY DEF DokUtuh
<1>8. BulanGerak(tugas[u])' = BulanGerak(tugas[u])
  BY <1>5 DEF BulanGerak
<1>9. \A b, r : /\ Neto(tulis[u], b, r)' = Neto(tulis[u], b, r)
               /\ Neto(baris[u], b, r)' = Neto(baris[u], b, r)
               /\ Neto(HarusSisip(tugas[u]), b, r)' = Neto(HarusSisip(tugas[u]), b, r)
  BY <1>4, <1>5 DEF Neto, Pasangan
<1>10. QED BY <1>4, <1>5, <1>6, <1>7, <1>8, <1>9 DEF InvTulis

LEMMA CocokLain ==
  ASSUME KartuCocokStatus, NEW d \in Dokumen, DokUtuh(d)
  PROVE  CocokDokumen(Milik(kartu', d), status'[d], BarisPosting(d, sistem'[d]))
<1>1. Milik(kartu', d) = Milik(kartu, d)
  BY DEF DokUtuh
<1>2. CocokDokumen(Milik(kartu, d), status[d], BarisPosting(d, sistem[d]))
  BY DEF KartuCocokStatus, KartuCocok
<1>3. status'[d] = status[d] /\ sistem'[d] = sistem[d]
  BY DEF DokUtuh
<1>4. QED BY <1>1, <1>2, <1>3

\* A step that leaves the documents alone, or changes one that nobody writes for.
LEMMA SatuDokumen ==
  ASSUME KInv, IdTerpisah', IsFiniteSet(kartu'), NEW e,
         \A d \in Dokumen : d # e => DokUtuh(d),
         \A u \in Sesi : \/ pc'[u] \notin Menulis \/ InvTulis(u)'
                         \/ Utuh(u) /\ tugas[u].dok \in Dokumen \ {e},
         e \in Dokumen => CocokDokumen(Milik(kartu', e), status'[e], BarisPosting(e, sistem'[e]))
  PROVE  KInv'
<1>1. ASSUME NEW u \in Sesi PROVE InvTulis(u)'
  <2>1. CASE pc'[u] \notin Menulis
    BY <2>1 DEF InvTulis
  <2>2. CASE Utuh(u) /\ tugas[u].dok \in Dokumen \ {e}
    <3>1. DokUtuh(tugas[u].dok) /\ InvTulis(u)
      BY <2>2 DEF KInv
    <3>2. QED BY <2>2, <3>1, TulisLain
  <2>3. QED BY <2>1, <2>2
<1>2. KartuCocokStatus'
  <2>1. \A d \in Dokumen :
          CocokDokumen(Milik(kartu', d), status'[d], BarisPosting(d, sistem'[d]))
    BY CocokLain DEF KInv
  <2>2. KartuCocok(kartu', status', sistem')
    BY <2>1 DEF KartuCocok
  <2>3. QED BY <2>2 DEF KartuCocokStatus
<1>3. QED BY <1>1, <1>2 DEF KInv

\* A session that writes has a document, which it holds.
LEMMA PunyaDokumen ==
  ASSUME IInv, JInv, NEW u \in Sesi, pc[u] \in Menulis
  PROVE  /\ tugas[u].dok \in Dokumen /\ MemegangX(u, KDok(tugas[u].dok))
         /\ status[tugas[u].dok] # "BELUM" /\ tugas[u].aksi \in {"posting", "batal"}
BY DEF IInv, InvSesi, JInv, SemuaDok, InvDok, Menulis, Pemicu, Luar

\* Nothing but sessions moves, and each that writes goes on with its work.
LEMMA HanyaSesi ==
  ASSUME IInv, JInv, KInv, IdTerpisah', UNCHANGED <<kartu, status, sistem>>,
         \A u \in Sesi : pc'[u] \notin Menulis \/ InvTulis(u)' \/ Utuh(u)
  PROVE  KInv'
<1>1. \A d \in Dokumen : DokUtuh(d)
  BY DEF DokUtuh, Milik
<1>2. PICK e : e \notin Dokumen
  BY AsumsiStok DEF AsumsiStok
<1>3. \A u \in Sesi : \/ pc'[u] \notin Menulis \/ InvTulis(u)'
                      \/ Utuh(u) /\ tugas[u].dok \in Dokumen \ {e}
  <2> TAKE u \in Sesi
  <2>1. Utuh(u) => tugas[u].dok \in Dokumen \ {e}
    BY <1>2, PunyaDokumen DEF Utuh
  <2>2. QED BY <2>1
<1>4. IsFiniteSet(kartu')
  BY DEF KInv
<1>5. QED BY <1>1, <1>2, <1>3, <1>4, SatuDokumen

-----------------------------------------------------------------------------
(* The steps.                                                              *)

LEMMA UsaiKartu ==
  ASSUME IInv, NEW t \in Sesi, Bersih(t)
  PROVE  /\ pc'[t] = "idle" /\ tulis'[t] = {}
         /\ \A u \in Sesi : u # t =>
              /\ pc'[u] = pc[u] /\ tugas'[u] = tugas[u] /\ baris'[u] = baris[u]
              /\ tulis'[u] = tulis[u] /\ idBaru'[u] = idBaru[u]
BY DEF Bersih, Lupa, IInv, TypeOK

LEMMA KartuUsai ==
  ASSUME IInv, JInv, KInv, NEW t \in Sesi, Bersih(t), UNCHANGED <<kartu, status, sistem, nextId>>
  PROVE  KInv'
<1>1. \A u \in Sesi : /\ tulis'[u] \subseteq tulis[u]
                      /\ pc'[u] \in Pemicu => pc[u] \in Pemicu /\ idBaru'[u] = idBaru[u]
  BY UsaiKartu DEF Pemicu
<1>2. IdTerpisah'
  BY <1>1, IdTetap DEF KInv
<1>3. \A u \in Sesi : pc'[u] \notin Menulis \/ Utuh(u)
  BY UsaiKartu DEF Menulis, Pemicu, Utuh
<1>4. QED BY <1>2, <1>3, HanyaSesi

LEMMA KartuGagal ==
  ASSUME IInv, JInv, KInv, NEW t \in Sesi, Gagal(t)
  PROVE  KInv'
BY KartuUsai DEF Gagal, dataVars

\* A step of t that neither draws an id nor writes a row.
LEMMA KartuDiam ==
  ASSUME IInv, JInv, KInv, NEW t \in Sesi, UNCHANGED <<kartu, status, sistem, nextId, tulis>>,
         \A u \in Sesi : u # t => /\ pc'[u] = pc[u] /\ tugas'[u] = tugas[u]
                                  /\ baris'[u] = baris[u] /\ idBaru'[u] = idBaru[u],
         pc'[t] \in Pemicu => pc[t] \in Pemicu /\ idBaru'[t] = idBaru[t],
         pc'[t] \notin Menulis \/ InvTulis(t)' \/ Utuh(t)
  PROVE  KInv'
<1>1. IdTerpisah'
  BY IdTetap DEF KInv
<1>2. \A u \in Sesi : pc'[u] \notin Menulis \/ InvTulis(u)' \/ Utuh(u)
  BY DEF Utuh
<1>3. QED BY <1>1, <1>2, HanyaSesi

LEMMA KartuMulai ==
  ASSUME IInv, JInv, KInv, NEW t \in Sesi, Mulai(t)
  PROVE  KInv'
<1>1. PICK g \in PermintaanMungkin : /\ tugas' = [tugas EXCEPT ![t] = g]
                                    /\ pc' = [pc EXCEPT ![t] = LangkahPertama(g)]
  BY DEF Mulai
<1>2. pc'[t] \in {"dokumen", "opname", "buku"}
  BY <1>1 DEF IInv, TypeOK, LangkahPertama
<1>3. pc'[t] \notin Menulis
  BY <1>2 DEF Menulis, Pemicu
<1>4. UNCHANGED <<kartu, status, sistem, nextId, tulis, baris, idBaru>>
  BY DEF Mulai, dataVars
<1>5. \A u \in Sesi : u # t => pc'[u] = pc[u] /\ tugas'[u] = tugas[u]
  BY <1>1 DEF IInv, TypeOK
<1>6. QED BY <1>3, <1>4, <1>5, KartuDiam DEF Menulis

\* What the plan says is what has to be written, if the handler goes on.
LEMMA RencanaHarus ==
  ASSUME NEW d \in Dokumen, NEW g, g.dok = d, g.aksi \in {"posting", "batal"}, Rencana(g).boleh
  PROVE  /\ Rencana(g).baris = HarusSisip(g)
         /\ g.aksi = "posting" => status[d] \notin {"POSTED", "BATAL"}
<1>1. CASE g.aksi = "posting"
  <2>1. Rencana(g) = RencanaPosting(d)
    BY <1>1 DEF Rencana
  <2>2. status[d] \in {"DRAFT", "DISETUJUI", "DIAJUKAN"}
    <3>1. RencanaPosting(d).boleh
      BY <2>1
    <3>2. \E s \in {"DRAFT", "DISETUJUI", "DIAJUKAN"} : RencanaPosting(d).boleh = Siap(d, s)
      <4>1. RencanaPosting(d) \in {PostingMutasi(d), PostingPenjualan(d), PostingPemakaian(d),
                PostingSaldoAwal(d), PostingOpname(d), PostingPembelian(d), PostingSusulan(d),
                PostingRetur(d)}
        BY DEF RencanaPosting
      <4>2. QED BY <4>1 DEF PostingMutasi, PostingPenjualan, PostingPemakaian,
                  PostingSaldoAwal, PostingOpname, PostingPembelian, PostingSusulan, PostingRetur
    <3>3. QED BY <3>1, <3>2 DEF Siap
  <2>3. QED BY <1>1, <2>1, <2>2, BarisRencana DEF HarusSisip
<1>2. CASE g.aksi = "batal"
  <2>1. Rencana(g) = RencanaBatal(d)
    BY <1>2 DEF Rencana
  <2>2. RencanaBatal(d) \in {BatalMutasi(d), BatalPembelian(d), BatalSusulan(d), BatalSaldoAwal(d), BatalOpname(d)}
    BY DEF RencanaBatal, BatalPenjualan, BatalPemakaian, BatalRetur
  <2>3. CASE status[d] = "POSTED"
    <3>1. RencanaBatal(d).baris = BarisBatal(d)
      BY <2>2, <2>3 DEF BatalMutasi, BatalPembelian, BatalSusulan, BatalSaldoAwal, BatalOpname
    <3>2. QED BY <1>2, <2>1, <2>3, <3>1 DEF HarusSisip
  <2>4. CASE status[d] # "POSTED"
    <3>1. RencanaBatal(d).boleh
      BY <2>1
    <3>2. RencanaBatal(d) \in {BatalSaldoAwal(d), BatalOpname(d)}
      <4>1. BatalMutasi(d).boleh => status[d] = "POSTED"
        BY DEF BatalMutasi
      <4>2. BatalSusulan(d).boleh => status[d] = "POSTED"
        BY DEF BatalSusulan
      <4>3. BatalPembelian(d).boleh => status[d] = "POSTED"
        BY DEF BatalPembelian
      <4>4. QED BY <2>2, <2>4, <3>1, <4>1, <4>2, <4>3
    <3>3. RencanaBatal(d).baris = {}
      BY <2>4, <3>2 DEF BatalSaldoAwal, BatalOpname
    <3>4. QED BY <1>2, <2>1, <2>4, <3>3 DEF HarusSisip
  <2>5. QED BY <2>3, <2>4
<1>3. QED BY <1>1, <1>2

LEMMA HarusHingga ==
  ASSUME KInv, NEW d \in Dokumen, NEW g, g.dok = d
  PROVE  IsFiniteSet(HarusSisip(g))
<1>1. IsFiniteSet(BarisPosting(d, sistem[d]))
  BY BarisHingga
<1>2. IsFiniteSet(Milik(kartu, d)) /\ IdTunggal(Milik(kartu, d))
  <2>1. Milik(kartu, d) \subseteq kartu
    BY DEF Milik
  <2>2. QED BY <2>1, FS_Subset DEF KInv, IdTerpisah, IdTunggal
<1>3. IsFiniteSet(BarisBatal(d))
  BY <1>2, BalikanHingga, BatalBalikan
<1>4. QED BY <1>1, <1>3, FS_EmptySet DEF HarusSisip

\* Rows of the ledger, and rows to insert, can be added up.
LEMMA TerukurSesi ==
  ASSUME IInv, KInv, NEW u \in Sesi, pc[u] \in Menulis
  PROVE  Terukur(tulis[u]) /\ Terukur(baris[u])
<1>1. IsFiniteSet(tulis[u]) /\ IsFiniteSet(baris[u])
  BY DEF KInv, InvTulis
<1>2. tulis[u] \subseteq BarisKartu /\ baris[u] \subseteq BarisBaru
  BY DEF IInv, TypeOK
<1>3. QED BY <1>1, <1>2 DEF Terukur, BarisKartu, BarisBaru

LEMMA HarusBulan ==
  ASSUME NEW d \in Dokumen, NEW g, g.dok = d
  PROVE  \A x \in HarusSisip(g) : x.bulan = BulanGerak(g)
<1>1. \A x \in BarisBatal(d) : x.bulan = BulanIni
  BY DEF BarisBatal
<1>2. \A x \in BarisPosting(d, sistem[d]) : x.bulan = Isi[d].bulan
  BY BarisHingga
<1>3. QED BY <1>1, <1>2 DEF HarusSisip, BulanGerak

LEMMA KartuPeriksa ==
  ASSUME IInv, JInv, KInv, NEW t \in Sesi, PeriksaDokumen(t)
  PROVE  KInv'
<1>1. PICK g : g = tugas[t]
  OBVIOUS
<1>2. CASE /\ Rencana(g).boleh
           /\ pc' = [pc EXCEPT ![t] = "kunci"]
           /\ baris' = [baris EXCEPT ![t] = Rencana(g).baris]
           /\ UNCHANGED <<kunciVars, dataVars, tugas, idBaru, tulis, nextId, mulai>>
  <2>1. /\ pc[t] = "dokumen" /\ pc'[t] = "kunci" /\ baris'[t] = Rencana(g).baris
        /\ tulis'[t] = {} /\ tugas'[t] = g
        /\ UNCHANGED <<kartu, status, sistem, nextId, tulis, tugas, idBaru>>
        /\ \A u \in Sesi : u # t => pc'[u] = pc[u] /\ baris'[u] = baris[u]
    BY <1>1, <1>2 DEF PeriksaDokumen, dataVars, IInv, InvSesi, TypeOK
  <2>2. g.dok \in Dokumen /\ g.aksi \in {"posting", "batal"}
    BY <1>1, <2>1 DEF IInv, InvSesi, JInv, SemuaDok, InvDok, Luar
  <2>3. baris'[t] = HarusSisip(g) /\ (g.aksi = "posting" => status[g.dok] \notin {"POSTED", "BATAL"})
    BY <1>2, <2>1, <2>2, RencanaHarus
  <2>4. IsFiniteSet(HarusSisip(g)) /\ Cardinality(HarusSisip(g)) \in Nat
    BY <2>2, HarusHingga, FS_CardinalityType
  <2>5. HarusSisip(g)' = HarusSisip(g)
    BY <2>1 DEF HarusSisip, BarisBatal
  <2>6. HarusSisip(tugas[t])' = HarusSisip(g)'
    BY <2>1 DEF HarusSisip, BarisBatal
  <2>7. /\ IsFiniteSet(tulis[t])' /\ IsFiniteSet(baris[t])'
        /\ Cardinality(tulis[t])' = 0 /\ Jejak(tulis[t])' = {}
    BY <2>1, <2>3, <2>4, FS_EmptySet DEF Jejak
  <2>8. Jejak(baris[t])' = Jejak(HarusSisip(g)) /\ Cardinality(baris[t])' = Cardinality(HarusSisip(g))
    BY <2>3 DEF Jejak
  <2>9. PICK H : H = HarusSisip(g)
    OBVIOUS
  <2>10. Terukur(H) /\ \A x \in H : x.bulan = BulanGerak(g)
    <3>1. H \subseteq BarisBaru
      BY <2>2, <2>3, <2>9, <1>2, TipeRencana, RencanaHarus DEF Rencana, IInv
    <3>2. Terukur(H)
      BY <2>4, <2>9, <3>1 DEF Terukur, BarisBaru
    <3>3. QED BY <2>2, <2>9, <3>2, HarusBulan
  <2>11. BulanGerak(tugas[t])' = BulanGerak(g)
    BY <2>1 DEF BulanGerak
  <2>12. \A x \in tulis'[t] \cup baris'[t] : x.bulan = BulanGerak(tugas[t])'
    BY <2>1, <2>3, <2>9, <2>10, <2>11
  <2>13. \A b, r : Neto(tulis'[t], b, r) + Neto(baris'[t], b, r) = Neto(H, b, r)
    <3> TAKE b, r
    <3>1. Neto(tulis'[t], b, r) = 0 /\ Neto(baris'[t], b, r) = Neto(H, b, r) /\ Neto(H, b, r) \in Int
      BY <2>1, <2>3, <2>9, <2>10, NetoKosong, NetoBulat
    <3>2. QED BY <3>1
  <2>14. \A b, r : /\ Neto(tulis[t], b, r)' = Neto(tulis'[t], b, r)
                  /\ Neto(baris[t], b, r)' = Neto(baris'[t], b, r)
                  /\ Neto(HarusSisip(tugas[t]), b, r)' = Neto(H, b, r)
    <3>1. HarusSisip(tugas[t])' = H
      BY <2>5, <2>6, <2>9
    <3>2. QED BY <3>1 DEF Neto, Pasangan
  <2>15. InvTulis(t)'
    BY <2>1, <2>3, <2>4, <2>5, <2>6, <2>7, <2>8, <2>12, <2>13, <2>14 DEF InvTulis, Jejak
  <2>16. QED BY <2>1, <2>15, KartuDiam DEF Pemicu
<1>3. QED BY <1>1, <1>2, KartuGagal DEF PeriksaDokumen

LEMMA KartuKunci ==
  ASSUME IInv, JInv, KInv, NEW t \in Sesi,
         AmbilKunci(t) \/ PeriksaAwal(t) \/ TrgPeriode(t) \/ TrgRuang(t) \/ Perbarui(t)
  PROVE  KInv'
<1>1. CASE Gagal(t)
  BY <1>1, KartuGagal
<1>2. ASSUME NEW s, pc' = [pc EXCEPT ![t] = s], pc[t] \in Menulis,
             s \in Pemicu => pc[t] \in Pemicu, s = "akhir" => baris[t] = {},
             UNCHANGED <<kartu, status, sistem, nextId, tulis, tugas, baris, idBaru>>
      PROVE  KInv'
  <2>1. pc'[t] = s /\ \A u \in Sesi : u # t => pc'[u] = pc[u]
    BY <1>2 DEF IInv, TypeOK
  <2>2. Utuh(t)
    BY <1>2, <2>1 DEF Utuh
  <2>3. QED BY <1>2, <2>1, <2>2, KartuDiam
<1>3. CASE AmbilKunci(t)
  <2>1. pc[t] = "kunci" /\ UNCHANGED <<kartu, status, sistem, nextId, tulis, tugas, baris, idBaru, pc>>
    BY <1>3 DEF AmbilKunci, dataVars
  <2>2. Utuh(t) /\ pc'[t] \notin Pemicu
    BY <2>1 DEF Utuh, Menulis, Pemicu
  <2>3. QED BY <2>1, <2>2, KartuDiam
<1>4. CASE PeriksaAwal(t)
  <2>1. SUFFICES ASSUME ~Gagal(t) PROVE KInv'
    BY <1>1
  <2>2. /\ pc[t] = "kunci" /\ pc' = [pc EXCEPT ![t] = "sisip"]
        /\ UNCHANGED <<kartu, status, sistem, nextId, tulis, tugas, baris, idBaru>>
    BY <1>4, <2>1 DEF PeriksaAwal, dataVars
  <2>3. QED BY <1>2, <2>2 DEF Menulis, Pemicu
<1>5. CASE TrgPeriode(t)
  <2>1. SUFFICES ASSUME ~Gagal(t) PROVE KInv'
    BY <1>1
  <2>2. /\ pc[t] = "trg_periode" /\ pc' = [pc EXCEPT ![t] = "trg_ruang"]
        /\ UNCHANGED <<kartu, status, sistem, nextId, tulis, tugas, baris, idBaru>>
    BY <1>5, <2>1 DEF TrgPeriode, dataVars
  <2>3. QED BY <1>2, <2>2 DEF Menulis, Pemicu
<1>6. CASE TrgRuang(t)
  <2>1. SUFFICES ASSUME ~Gagal(t) PROVE KInv'
    BY <1>1
  <2>2. /\ pc[t] = "trg_ruang" /\ pc' = [pc EXCEPT ![t] = "trg_saldo"]
        /\ UNCHANGED <<kartu, status, sistem, nextId, tulis, tugas, baris, idBaru>>
    BY <1>6, <2>1 DEF TrgRuang, dataVars
  <2>3. QED BY <1>2, <2>2 DEF Menulis, Pemicu
<1>7. CASE Perbarui(t)
  <2>1. /\ pc[t] = "sisip" /\ baris[t] = {} /\ pc' = [pc EXCEPT ![t] = "akhir"]
        /\ UNCHANGED <<kartu, status, sistem, nextId, tulis, tugas, baris, idBaru>>
    BY <1>7 DEF Perbarui, dataVars
  <2>2. QED BY <1>2, <2>1 DEF Menulis, Pemicu
<1>8. QED BY <1>3, <1>4, <1>5, <1>6, <1>7

LEMMA KartuSisip ==
  ASSUME IInv, JInv, KInv, NEW t \in Sesi, Sisip(t)
  PROVE  KInv'
<1>1. IdTerpisah'
  BY IdDiambil DEF KInv
<1>2. /\ pc[t] = "sisip" /\ pc'[t] = "trg_periode"
      /\ \A u \in Sesi : u # t => pc'[u] = pc[u]
      /\ UNCHANGED <<kartu, status, sistem, tugas, baris, tulis>>
  BY DEF Sisip, dataVars, IInv, TypeOK
<1>3. \A u \in Sesi : pc'[u] \notin Menulis \/ Utuh(u)
  BY <1>2 DEF Utuh, Menulis, Pemicu
<1>4. QED BY <1>1, <1>2, <1>3, HanyaSesi

\* One row more is written, one less is left.
LEMMA KartuTulis ==
  ASSUME IInv, JInv, KInv, NEW t \in Sesi, TrgSaldo(t)
  PROVE  KInv'
<1>1. PICK x : x = BarisBerikut(t)
  OBVIOUS
<1>2. PICK lalu, akhir : lalu = SaldoTerakhir(kartu \cup tulis[t], x.barang, x.ruang)
                         /\ akhir = lalu + x.masuk - x.keluar
  OBVIOUS
<1>3. PICK y : y = [id |-> idBaru[t], barang |-> x.barang, ruang |-> x.ruang,
               masuk |-> x.masuk, keluar |-> x.keluar, awal |-> lalu, akhir |-> akhir,
               bulan |-> x.bulan, dok |-> tugas[t].dok, asal |-> x.asal]
  OBVIOUS
<1>4. CASE /\ tulis' = [tulis EXCEPT ![t] = @ \cup {y}]
           /\ baris' = [baris EXCEPT ![t] = @ \ {x}]
           /\ pc' = [pc EXCEPT ![t] = "sisip"]
           /\ UNCHANGED <<kunciVars, dataVars, tugas, perlu, idBaru, nextId, mulai>>
  <2>1. /\ pc[t] = "trg_saldo" /\ pc'[t] = "sisip"
        /\ tulis'[t] = tulis[t] \cup {y} /\ baris'[t] = baris[t] \ {x}
        /\ UNCHANGED <<kartu, status, sistem, nextId, idBaru, tugas>>
        /\ \A u \in Sesi : u # t => pc'[u] = pc[u] /\ tulis'[u] = tulis[u] /\ baris'[u] = baris[u]
    BY <1>4 DEF TrgSaldo, dataVars, IInv, TypeOK
  <2>2. x \in baris[t]
    <3>1. Berikut(t) # {}
      BY <2>1 DEF IInv, InvSesi
    <3>2. x \in Berikut(t)
      BY <1>1, <3>1 DEF BarisBerikut
    <3>3. QED BY <3>2 DEF Berikut
  <2>3. y.id = idBaru[t] /\ y \notin tulis[t]
    <3>1. \A k \in tulis[t] : k.id # idBaru[t]
      BY <2>1 DEF KInv, IdTerpisah, Pemicu
    <3>2. QED BY <1>3, <3>1
  <2>4. IdTerpisah'
    BY <2>1, <2>3, IdDipakai DEF KInv, Pemicu
  <2>5. InvTulis(t)
    BY DEF KInv
  <2>6. /\ IsFiniteSet(tulis[t]) /\ IsFiniteSet(baris[t])
        /\ Jejak(tulis[t]) \cup Jejak(baris[t]) = Jejak(HarusSisip(tugas[t]))
        /\ Cardinality(tulis[t]) + Cardinality(baris[t]) = Cardinality(HarusSisip(tugas[t]))
        /\ tugas[t].aksi = "posting" => status[tugas[t].dok] \notin {"POSTED", "BATAL"}
    BY <2>1, <2>5 DEF InvTulis, Menulis, Pemicu
  <2>7. /\ IsFiniteSet(tulis'[t]) /\ IsFiniteSet(baris'[t])
        /\ Cardinality(tulis'[t]) = Cardinality(tulis[t]) + 1
        /\ Cardinality(baris'[t]) = Cardinality(baris[t]) - 1
        /\ Cardinality(tulis[t]) \in Nat /\ Cardinality(baris[t]) \in Nat
    <3>1. /\ IsFiniteSet(tulis[t] \cup {y})
          /\ Cardinality(tulis[t] \cup {y}) = Cardinality(tulis[t]) + 1
      BY <2>3, <2>6, FS_AddElement
    <3>2. /\ IsFiniteSet(baris[t] \ {x})
          /\ Cardinality(baris[t] \ {x}) = Cardinality(baris[t]) - 1
      BY <2>2, <2>6, FS_RemoveElement
    <3>3. Cardinality(tulis[t]) \in Nat /\ Cardinality(baris[t]) \in Nat
      BY <2>6, FS_CardinalityType
    <3>4. QED BY <2>1, <3>1, <3>2, <3>3
  <2>8. Jejak(tulis'[t]) \cup Jejak(baris'[t]) = Jejak(tulis[t]) \cup Jejak(baris[t])
    <3>1. PICK j : j = <<x.barang, x.ruang, x.masuk, x.keluar, x.asal>>
      OBVIOUS
    <3>2. <<y.barang, y.ruang, y.masuk, y.keluar, y.asal>> = j
      BY <1>3, <3>1
    <3>3. Jejak(tulis'[t]) = Jejak(tulis[t]) \cup {j}
      BY <2>1, <3>2 DEF Jejak
    <3>4. Jejak(baris'[t]) \cup {j} = Jejak(baris[t])
      BY <2>1, <2>2, <3>1 DEF Jejak
    <3>5. QED BY <3>3, <3>4
  <2>9. HarusSisip(tugas[t])' = HarusSisip(tugas[t])
    BY <2>1 DEF HarusSisip, BarisBatal
  <2>10. InvTulis(t)'
    <3>1. Jejak(tulis[t])' = Jejak(tulis'[t]) /\ Jejak(baris[t])' = Jejak(baris'[t])
      BY DEF Jejak
    <3>2. Cardinality(tulis'[t]) + Cardinality(baris'[t]) = Cardinality(HarusSisip(tugas[t]))
      BY <2>6, <2>7
    <3>3. BulanGerak(tugas[t])' = BulanGerak(tugas[t])
      BY <2>1 DEF BulanGerak
    <3>4. \A k \in tulis'[t] \cup baris'[t] : k.bulan = BulanGerak(tugas[t])
      <4>1. \A k \in tulis[t] \cup baris[t] : k.bulan = BulanGerak(tugas[t])
        BY <2>1, <2>5 DEF InvTulis, Menulis, Pemicu
      <4>2. y.bulan = x.bulan
        BY <1>3
      <4>3. QED BY <2>1, <2>2, <4>1, <4>2
    <3>5. \A b \in Barang, r \in Ruang :
            Neto(tulis'[t], b, r) + Neto(baris'[t], b, r) = Neto(HarusSisip(tugas[t]), b, r)
      <4> TAKE b \in Barang, r \in Ruang
      <4>1. pc[t] \in Menulis
        BY <2>1 DEF Menulis, Pemicu
      <4>2. Terukur(tulis[t]) /\ Terukur(baris[t])
        BY <4>1, TerukurSesi
      <4>3. y.masuk = x.masuk /\ y.keluar = x.keluar /\ y.barang = x.barang /\ y.ruang = x.ruang
            /\ x.masuk \in Nat /\ x.keluar \in Nat
        BY <1>3, <2>2, <4>2 DEF Terukur
      <4>4. PICK n : n = IF x.barang = b /\ x.ruang = r THEN x.masuk - x.keluar ELSE 0
        OBVIOUS
      <4>5. n \in Int
        BY <4>3, <4>4
      <4>6. Neto(tulis'[t], b, r) = Neto(tulis[t], b, r) + n
        BY <2>1, <2>3, <4>2, <4>3, <4>4, NetoBaru
      <4>7. Neto(baris[t], b, r) = Neto(baris'[t], b, r) + n /\ Terukur(baris'[t])
        BY <2>1, <2>2, <4>2, <4>4, NetoHabis
      <4>8. Neto(tulis[t], b, r) \in Int /\ Neto(baris'[t], b, r) \in Int
        BY <4>2, <4>7, NetoBulat
      <4>9. Neto(tulis[t], b, r) + Neto(baris[t], b, r) = Neto(HarusSisip(tugas[t]), b, r)
        BY <2>5, <4>1 DEF InvTulis
      <4>10. QED BY <4>5, <4>6, <4>7, <4>8, <4>9
    <3>6. \A b, r : /\ Neto(tulis[t], b, r)' = Neto(tulis'[t], b, r)
                   /\ Neto(baris[t], b, r)' = Neto(baris'[t], b, r)
                   /\ Neto(HarusSisip(tugas[t]), b, r)' = Neto(HarusSisip(tugas[t]), b, r)
      BY <2>9 DEF Neto, Pasangan
    <3>7. QED BY <2>1, <2>6, <2>7, <2>8, <2>9, <3>1, <3>2, <3>3, <3>4, <3>5, <3>6, ZenonT(40) DEF InvTulis
  <2>11. \A u \in Sesi : pc'[u] \notin Menulis \/ InvTulis(u)' \/ Utuh(u)
    <3> TAKE u \in Sesi
    <3>1. CASE u = t
      BY <2>10, <3>1
    <3>2. CASE u # t
      BY <2>1, <3>2 DEF Utuh
    <3>3. QED BY <3>1, <3>2
  <2>12. QED BY <2>1, <2>4, <2>11, HanyaSesi
<1>5. QED BY <1>1, <1>2, <1>3, <1>4, KartuGagal DEF TrgSaldo

\* COMMIT: the rows of one document come in together with its status.
LEMMA DokSelesai ==
  ASSUME IInv, JInv, KInv, NEW t \in Sesi, pc[t] = "akhir", NEW g, g = tugas[t],
         status[g.dok] \in Rencana(g).dari, NEW G
  PROVE  CocokDokumen(Milik(kartu, g.dok) \cup tulis[t],
                      IF g.aksi = "posting" THEN "POSTED" ELSE "BATAL",
                      IF g.aksi = "posting" THEN BarisPosting(g.dok, sistem[g.dok]) ELSE G)
<1> DEFINE d == g.dok
           M == Milik(kartu, d)
           T == tulis[t]
<1>1. d \in Dokumen /\ g.aksi \in {"posting", "batal"}
  BY PunyaDokumen DEF Menulis
<1>2. InvTulis(t)
  BY DEF KInv
<1>3. /\ IsFiniteSet(T) /\ baris[t] = {}
      /\ Jejak(T) \cup Jejak(baris[t]) = Jejak(HarusSisip(g))
      /\ Cardinality(T) + Cardinality(baris[t]) = Cardinality(HarusSisip(g))
      /\ g.aksi = "posting" => status[d] \notin {"POSTED", "BATAL"}
  BY <1>2 DEF InvTulis, Menulis
<1>4. Cardinality(T) \in Nat /\ Cardinality(baris[t]) = 0 /\ Jejak(baris[t]) = {}
  BY <1>3, FS_CardinalityType, FS_EmptySet DEF Jejak
<1>5. Jejak(T) = Jejak(HarusSisip(g)) /\ Cardinality(T) = Cardinality(HarusSisip(g))
  BY <1>3, <1>4
<1>6. CocokDokumen(M, status[d], BarisPosting(d, sistem[d]))
  BY <1>1 DEF KInv, KartuCocokStatus, KartuCocok
<1>7. CASE g.aksi = "posting"
  <2>1. M = {}
    BY <1>3, <1>6, <1>7 DEF CocokDokumen
  <2>2. HarusSisip(g) = BarisPosting(d, sistem[d])
    BY <1>7 DEF HarusSisip
  <2>3. CocokDokumen(T, "POSTED", BarisPosting(d, sistem[d]))
    BY <1>1, <1>5, <2>2, BarisHingga, CocokPosting
  <2>4. M \cup T = T
    BY <2>1
  <2>5. QED BY <1>7, <2>3, <2>4
<1>8. CASE g.aksi = "batal" /\ status[d] = "POSTED"
  <2>1. HarusSisip(g) = Balikan(M)
    BY <1>8, BatalBalikan DEF HarusSisip
  <2>2. M \subseteq kartu
    BY DEF Milik
  <2>3. IsFiniteSet(M) /\ IdTunggal(M)
    BY <2>2, FS_Subset DEF KInv, IdTerpisah, IdTunggal
  <2>4. \A k \in M : k.id # Nol
    BY <2>2 DEF KInv, IdTerpisah, Nol
  <2>5. CocokDokumen(M, "POSTED", BarisPosting(d, sistem[d]))
    BY <1>6, <1>8
  <2> HIDE DEF M
  <2>6. CocokDokumen(M \cup T, "BATAL", G)
    BY <1>5, <2>1, <2>3, <2>4, <2>5, CocokBatal
  <2>7. QED BY <1>8, <2>6 DEF M
<1>9. CASE g.aksi = "batal" /\ status[d] # "POSTED"
  <2>1. Cardinality(T) = 0
    BY <1>5, <1>9, FS_EmptySet DEF HarusSisip
  <2>2. T = {}
    BY <1>3, <2>1, FS_EmptySet
  <2>3. status[d] # "BATAL"
    <3>1. status[d] \in RencanaBatal(d).dari
      BY <1>9 DEF Rencana
    <3>2. /\ BatalMutasi(d).dari = {"POSTED"} /\ BatalSusulan(d).dari = {"POSTED"}
          /\ BatalPembelian(d).dari = {"POSTED"}
      BY DEF BatalMutasi, BatalSusulan, BatalPembelian
    <3>3. BatalSaldoAwal(d).dari = StatusDok \ {"BATAL"} /\ BatalOpname(d).dari = StatusDok \ {"BATAL"}
      BY DEF BatalSaldoAwal, BatalOpname, BatalMutasi
    <3>4. RencanaBatal(d) \in {BatalMutasi(d), BatalPembelian(d), BatalSusulan(d), BatalSaldoAwal(d), BatalOpname(d)}
      BY DEF RencanaBatal, BatalPenjualan, BatalPemakaian, BatalRetur
    <3>5. QED BY <3>1, <3>2, <3>3, <3>4
  <2>4. M = {}
    BY <1>6, <1>9, <2>3 DEF CocokDokumen
  <2>5. M \cup T = {}
    BY <2>2, <2>4
  <2>6. CocokDokumen({}, "BATAL", G)
    BY DEF CocokDokumen
  <2>7. QED BY <1>9, <2>5, <2>6
<1>10. QED BY <1>1, <1>7, <1>8, <1>9

LEMMA KartuSelesai ==
  ASSUME IInv, JInv, KInv, NEW t \in Sesi, Selesai(t)
  PROVE  KInv'
<1>1. PICK g : g = tugas[t]
  OBVIOUS
<1>2. PICK s : s = IF g.aksi = "posting" THEN "POSTED" ELSE "BATAL"
  OBVIOUS
<1>3. CASE /\ status[g.dok] \in Rencana(g).dari
           /\ kartu' = kartu \cup tulis[t]
           /\ status' = [status EXCEPT ![g.dok] = s]
           /\ Bersih(t)
           /\ UNCHANGED <<tutup, sistem, nextId, mulai>>
  <2>1. pc[t] = "akhir" /\ pc[t] \in Menulis
    BY DEF Selesai, Menulis
  <2>2. g.dok \in Dokumen /\ MemegangX(t, KDok(g.dok))
    BY <1>1, <2>1, PunyaDokumen
  <2>3. status'[g.dok] = s /\ \A d \in Dokumen : d # g.dok => status'[d] = status[d]
    BY <1>3, <2>2 DEF IInv, TypeOK
  <2>4. \A k \in tulis[t] : k.dok = g.dok
    BY <1>1 DEF IInv, InvSesi, Terlindung
  <2>5. \A d \in Dokumen : d # g.dok => DokUtuh(d)
    BY <1>3, <2>3, <2>4 DEF DokUtuh, Milik
  <2>6. Milik(kartu', g.dok) = Milik(kartu, g.dok) \cup tulis[t]
    BY <1>3, <2>4 DEF Milik
  <2>7. CocokDokumen(Milik(kartu', g.dok), status'[g.dok], BarisPosting(g.dok, sistem'[g.dok]))
    <3>1. CocokDokumen(Milik(kartu, g.dok) \cup tulis[t], s, BarisPosting(g.dok, sistem[g.dok]))
      BY <1>1, <1>2, <1>3, <2>1, DokSelesai
    <3>2. QED BY <1>3, <2>3, <2>6, <3>1
  <2>8. IdTerpisah'
    BY <1>3, <2>1, UsaiKartu, IdMasuk DEF KInv, Pemicu
  <2>9. IsFiniteSet(kartu')
    <3>1. IsFiniteSet(tulis[t])
      BY <2>1 DEF KInv, InvTulis
    <3>2. QED BY <1>3, <3>1, FS_Union DEF KInv
  <2>10. ASSUME NEW u \in Sesi
         PROVE  \/ pc'[u] \notin Menulis \/ InvTulis(u)'
                \/ Utuh(u) /\ tugas[u].dok \in Dokumen \ {g.dok}
    <3>1. CASE u = t
      BY <1>3, <3>1, UsaiKartu DEF Menulis, Pemicu
    <3>2. CASE u # t /\ pc[u] \in Menulis
      <4>1. Utuh(u)
        BY <1>3, <3>2, UsaiKartu DEF Utuh
      <4>2. tugas[u].dok \in Dokumen /\ MemegangX(u, KDok(tugas[u].dok))
        BY <3>2, PunyaDokumen
      <4>3. tugas[u].dok # g.dok
        BY <2>2, <3>2, <4>2, Asing DEF IInv, Memegang, MemegangX
      <4>4. QED BY <4>1, <4>2, <4>3
    <3>3. CASE u # t /\ pc[u] \notin Menulis
      BY <1>3, <3>3, UsaiKartu
    <3>4. QED BY <3>1, <3>2, <3>3
  <2>11. QED BY <2>5, <2>7, <2>8, <2>9, <2>10, SatuDokumen
<1>4. QED BY <1>1, <1>2, <1>3, KartuGagal DEF Selesai

\* A count is created, or moves while it is open: it has no rows, whatever
\* its lines say.
LEMMA KartuBuka ==
  ASSUME IInv, JInv, KInv, NEW t \in Sesi, BukaOpname(t)
  PROVE  KInv'
<1>1. PICK e : e = tugas[t].dok
  OBVIOUS
<1>2. CASE status' = [status EXCEPT ![e] = "DRAFT"] /\ Bersih(t) /\ UNCHANGED <<kartu, sistem, nextId>>
  <2>1. e \in Dokumen /\ status[e] = "BELUM"
    BY <1>1 DEF BukaOpname, JInv, SemuaDok, InvDok
  <2>2. status'[e] = "DRAFT" /\ \A d \in Dokumen : d # e => status'[d] = status[d]
    BY <1>2, <2>1 DEF IInv, TypeOK
  <2>3. \A d \in Dokumen : d # e => DokUtuh(d)
    BY <1>2, <2>2 DEF DokUtuh, Milik
  <2>4. CocokDokumen(Milik(kartu', e), status'[e], BarisPosting(e, sistem'[e]))
    <3>1. CocokDokumen(Milik(kartu, e), status[e], BarisPosting(e, sistem[e]))
      BY <2>1 DEF KInv, KartuCocokStatus, KartuCocok
    <3>2. Milik(kartu, e) = {}
      BY <2>1, <3>1 DEF CocokDokumen
    <3>3. QED BY <1>2, <2>2, <3>2 DEF CocokDokumen
  <2>5. \A u \in Sesi : /\ tulis'[u] \subseteq tulis[u]
                        /\ pc'[u] \in Pemicu => pc[u] \in Pemicu /\ idBaru'[u] = idBaru[u]
    BY <1>2, UsaiKartu DEF Pemicu
  <2>6. IdTerpisah'
    BY <1>2, <2>5, IdTetap DEF KInv
  <2>7. ASSUME NEW u \in Sesi
        PROVE  \/ pc'[u] \notin Menulis \/ InvTulis(u)'
               \/ Utuh(u) /\ tugas[u].dok \in Dokumen \ {e}
    <3>1. CASE u = t
      BY <1>2, <3>1, UsaiKartu DEF Menulis, Pemicu
    <3>2. CASE u # t /\ pc[u] \in Menulis
      <4>1. Utuh(u)
        BY <1>2, <3>2, UsaiKartu DEF Utuh
      <4>2. QED BY <2>1, <3>2, <4>1, PunyaDokumen
    <3>3. CASE u # t /\ pc[u] \notin Menulis
      BY <1>2, <3>3, UsaiKartu
    <3>4. QED BY <3>1, <3>2, <3>3
  <2>8. IsFiniteSet(kartu')
    BY <1>2 DEF KInv
  <2>9. QED BY <2>3, <2>4, <2>6, <2>7, <2>8, SatuDokumen
<1>3. QED BY <1>1, <1>2, KartuGagal DEF BukaOpname

LEMMA KartuOpname ==
  ASSUME IInv, JInv, KInv, NEW e \in Dokumen,
         TarikSaldo(e) \/ ReplaceDetail(e) \/ Ajukan(e) \/ Tolak(e)
  PROVE  KInv'
<1>1. /\ UNCHANGED <<sesiVars, kartu, nextId>> /\ status[e] \in Terbuka /\ BarisBebas(e)
  BY DEF TarikSaldo, ReplaceDetail, Ajukan, Tolak, Terbuka
<1>2. status'[e] \in Terbuka /\ \A d \in Dokumen : d # e => status'[d] = status[d]
  BY <1>1 DEF TarikSaldo, ReplaceDetail, Ajukan, Tolak, Terbuka, IInv, TypeOK
<1>3. \A d \in Dokumen : d # e => sistem'[d] = sistem[d]
  BY DEF TarikSaldo, ReplaceDetail, Ajukan, Tolak, IInv, TypeOK
<1>4. \A d \in Dokumen : d # e => DokUtuh(d)
  BY <1>1, <1>2, <1>3 DEF DokUtuh
<1>5. CocokDokumen(Milik(kartu', e), status'[e], BarisPosting(e, sistem'[e]))
  <2>1. CocokDokumen(Milik(kartu, e), status[e], BarisPosting(e, sistem[e]))
    BY DEF KInv, KartuCocokStatus, KartuCocok
  <2>2. Milik(kartu, e) = {}
    BY <1>1, <2>1 DEF CocokDokumen, Terbuka
  <2>3. QED BY <1>1, <1>2, <2>2 DEF CocokDokumen, Terbuka
<1>6. IdTerpisah'
  BY <1>1, IdTetap DEF KInv, sesiVars
<1>7. \A u \in Sesi : ~MemegangX(u, KDok(e))
  <2> SUFFICES ASSUME NEW u \in Sesi, NEW q \in pegang[u], q.kunci = KDok(e), q.mode = "X"
               PROVE  FALSE
    BY DEF MemegangX
  <2>1. q \in Permintaan
    BY DEF IInv, TypeOK, TipeKunci
  <2>2. q = Eksklusifi(KDok(e))
    BY <2>1 DEF Permintaan, Eksklusifi
  <2>3. QED BY <1>1, <2>2 DEF BarisBebas
<1>8. ASSUME NEW u \in Sesi
      PROVE  \/ pc'[u] \notin Menulis \/ InvTulis(u)'
             \/ Utuh(u) /\ tugas[u].dok \in Dokumen \ {e}
  <2>1. CASE pc[u] \in Menulis
    <3>1. Utuh(u)
      BY <1>1, <2>1 DEF Utuh, sesiVars
    <3>2. QED BY <1>7, <2>1, <3>1, PunyaDokumen
  <2>2. CASE pc[u] \notin Menulis
    BY <1>1, <2>2 DEF sesiVars
  <2>3. QED BY <2>1, <2>2
<1>9. IsFiniteSet(kartu')
  BY <1>1 DEF KInv
<1>10. QED BY <1>4, <1>5, <1>6, <1>8, <1>9, SatuDokumen

LEMMA KartuTetap ==
  ASSUME IInv, JInv, KInv, (\E t \in Sesi : SusunAntrean(t)) \/ UNCHANGED vars
  PROVE  KInv'
<1>1. UNCHANGED <<sesiVars, kartu, status, sistem, nextId>>
  BY DEF SusunAntrean, vars, dataVars
<1>2. IdTerpisah'
  BY <1>1, IdTetap DEF KInv, sesiVars
<1>3. \A u \in Sesi : pc'[u] \notin Menulis \/ Utuh(u)
  BY <1>1 DEF Utuh, sesiVars
<1>4. QED BY <1>1, <1>2, <1>3, HanyaSesi

LEMMA KartuAwalBenar == Init => KInv
<1> SUFFICES ASSUME Init PROVE KInv
  OBVIOUS
<1>1. IsFiniteSet(kartu) /\ KartuCocokStatus
  BY AsumsiKartu DEF AsumsiKartu, Init, KartuCocokStatus
<1>2. \A u \in Sesi : IdSesi(u) = {} /\ tulis[u] = {} /\ pc[u] \notin Pemicu
  BY DEF Init, IdSesi, Pemicu
<1>3. IdTerpisah
  BY <1>2, AsumsiKartu DEF AsumsiKartu, Init, IdTerpisah, IdTunggal
<1>4. \A u \in Sesi : InvTulis(u)
  BY DEF Init, InvTulis, Menulis, Pemicu
<1>5. QED BY <1>1, <1>3, <1>4 DEF KInv

LEMMA KartuInduktif == IInv /\ JInv /\ KInv /\ [Next]_vars => KInv'
<1> SUFFICES ASSUME IInv, JInv, KInv, [Next]_vars PROVE KInv'
  OBVIOUS
<1>1. ASSUME NEW t \in Sesi, TutupBuku(t) \/ BukaBuku(t) PROVE KInv'
  <2>1. CASE Gagal(t)
    BY <2>1, KartuGagal
  <2>2. CASE Bersih(t) /\ UNCHANGED <<kartu, status, sistem, nextId>>
    BY <2>2, KartuUsai
  <2>3. QED BY <1>1, <2>1, <2>2 DEF TutupBuku, BukaBuku
<1>2. ASSUME NEW t \in Sesi, Langkah(t) PROVE KInv'
  BY <1>1, <1>2, KartuPeriksa, KartuKunci, KartuSisip, KartuTulis, KartuSelesai, KartuBuka
     DEF Langkah
<1>3. ASSUME NEW t \in Sesi, BatalkanKorban(t) PROVE KInv'
  BY <1>3, KartuGagal DEF BatalkanKorban
<1>4. QED
  BY <1>2, <1>3, KartuMulai, KartuOpname, KartuTetap DEF Next, Diam

\* However postings and cancellations of one document race, fail half way or
\* are asked for again: its rows in the ledger are none before it is posted,
\* its lines once each when it is POSTED, and every one of them reversed
\* exactly once when it is BATAL.
THEOREM KartuSelaluCocok == Spec => []KartuCocokStatus
<1>1. KInv => KartuCocokStatus
  BY DEF KInv
<1>2. Spec => []KInv
  BY AwalBenar, Induktif, DokumenAwal, DokumenInduktif, KartuAwalBenar, KartuInduktif, PTL DEF Spec
<1>3. QED BY <1>1, <1>2, PTL

-----------------------------------------------------------------------------
(* Documents that lock their pairs before they write.                      *)

\* No purchase, receipt or return: those leave the pair to the trigger.
TerkunciDulu == \A d \in Dokumen : Isi[d].jenis \notin {"pembelian"} \cup Anak

Saldonya(x) == Eksklusifi(KSaldo(x.barang, x.ruang))

\* An opening balance being posted.
AwalDiposting(t) == tugas[t].aksi = "posting" /\ Isi[tugas[t].dok].jenis = "saldo_awal"

\* What a session knows of the pairs it writes.
InvSaldo(t) ==
  LET x == BarisBerikut(t)
      K == kartu \cup tulis[t] IN
  /\ \A k \in tulis[t] : MemegangX(t, KSaldo(k.barang, k.ruang))
  /\ pc[t] = "kunci" => \A y \in baris[t] : Saldonya(y) \in perlu[t] \/ Dipenuhi(t, Saldonya(y))
  /\ pc[t] \in Menulis \ {"kunci"} => \A y \in baris[t] : MemegangX(t, KSaldo(y.barang, y.ruang))
  /\ pc[t] \in Pemicu => \A k \in Pasangan(K, x.barang, x.ruang) : k.id < idBaru[t]
  /\ pc[t] \in Menulis /\ AwalDiposting(t) =>
       \A y, z \in baris[t] : y.barang = z.barang => y = z
  /\ pc[t] \in Menulis \ {"kunci"} /\ AwalDiposting(t) =>
       \A y \in baris[t] : Pasangan(K, y.barang, y.ruang) = {}

SInv == \A t \in Sesi : InvSaldo(t)

LEMMA BarisTerkunci ==
  ASSUME TypeOK, TerkunciDulu, NEW d \in Dokumen, NEW x \in BarisPosting(d, sistem[d])
  PROVE  Saldonya(x) \in KunciJalurStok(d) /\ RencanaPosting(d).kunci = KunciJalurStok(d)
<1>1. Isi[d].jenis \in {"mutasi", "penjualan", "pemakaian", "saldo_awal", "stok_opname"}
  BY TipeIsi DEF TerkunciDulu, Jenis, Masukan, Keluaran, Anak
<1>2. RencanaPosting(d) \in {PostingMutasi(d), PostingPenjualan(d), PostingPemakaian(d),
                             PostingSaldoAwal(d), PostingOpname(d)}
  BY <1>1 DEF RencanaPosting
<1>3. RencanaPosting(d).kunci = KunciJalurStok(d)
  BY <1>2 DEF PostingMutasi, PostingPenjualan, PostingPemakaian, PostingSaldoAwal, PostingOpname
<1>4. \A no, i, r, m, k : /\ Gerak(no, d, i, r, m, k).barang = Isi[d].baris[i].barang
                          /\ Gerak(no, d, i, r, m, k).ruang = r
  BY DEF Gerak
<1>5. Isi[d].jenis # "stok_opname" => Terhitung(d) = DOMAIN Isi[d].baris
  BY DEF Terhitung, TerhitungDari
<1>6. \E i \in Terhitung(d), r \in RuangDok(d) : x.barang = Isi[d].baris[i].barang /\ x.ruang = r
  <2>1. CASE Isi[d].jenis = "mutasi"
    <3>1. x \in BarisMutasi(d)
      BY <2>1 DEF BarisPosting, Keluaran
    <3>2. PICK i \in DOMAIN Isi[d].baris, r \in {Isi[d].ruang, Isi[d].tujuan} :
            x.barang = Isi[d].baris[i].barang /\ x.ruang = r
      <4>1. CASE \E i \in DOMAIN Isi[d].baris :
                   x = Gerak(2 * i, d, i, Isi[d].ruang, 0, Isi[d].baris[i].qty)
        BY <1>4, <4>1
      <4>2. CASE \E i \in DOMAIN Isi[d].baris :
                   x = Gerak(2 * i + 1, d, i, Isi[d].tujuan, Isi[d].baris[i].qty, 0)
        BY <1>4, <4>2
      <4>3. QED BY <3>1, <4>1, <4>2 DEF BarisMutasi
    <3>3. QED BY <1>5, <2>1, <3>2 DEF RuangDok
  <2>2. CASE Isi[d].jenis \in {"penjualan", "pemakaian"}
    BY <1>4, <1>5, <2>2 DEF BarisPosting, Keluaran, BarisKeluar, RuangDok
  <2>3. CASE Isi[d].jenis = "saldo_awal"
    BY <1>4, <1>5, <2>3 DEF BarisPosting, Keluaran, BarisMasuk, RuangDok
  <2>4. CASE Isi[d].jenis = "stok_opname"
    <3>1. x \in BarisOpnameDari(d, sistem[d])
      BY <2>4 DEF BarisPosting, Keluaran
    <3>2. \E i \in Terhitung(d) : \E m, k : x = Gerak(i, d, i, Isi[d].ruang, m, k)
      BY <3>1 DEF BarisOpnameDari, Terhitung
    <3>3. QED BY <1>4, <3>2 DEF RuangDok
  <2>5. QED BY <1>1, <2>1, <2>2, <2>3, <2>4
<1>7. QED BY <1>3, <1>6 DEF KunciJalurStok, Saldonya

LEMMA KunciLengkap ==
  ASSUME TypeOK, TerkunciDulu, NEW d \in Dokumen, NEW g, g.dok = d,
         g.aksi \in {"posting", "batal"}, Rencana(g).boleh, NEW x \in Rencana(g).baris
  PROVE  Saldonya(x) \in Rencana(g).kunci
<1>1. CASE g.aksi = "posting"
  BY <1>1, BarisTerkunci, BarisRencana DEF Rencana
<1>2. CASE g.aksi = "batal"
  <2>1. Rencana(g) = RencanaBatal(d)
    BY <1>2 DEF Rencana
  <2>2. Isi[d].jenis \in {"mutasi", "penjualan", "pemakaian", "saldo_awal", "stok_opname"}
    BY TipeIsi DEF TerkunciDulu, Jenis, Masukan, Keluaran, Anak
  <2>3. RencanaBatal(d) \in {BatalMutasi(d), BatalSaldoAwal(d), BatalOpname(d)}
    BY <2>2 DEF RencanaBatal, BatalPenjualan, BatalPemakaian
  <2>4. /\ BatalMutasi(d).kunci = KunciJalurPembalik(d) /\ BatalMutasi(d).baris = BarisBatal(d)
        /\ \/ BatalSaldoAwal(d).baris = {}
           \/ BatalSaldoAwal(d).kunci = KunciJalurPembalik(d) /\ BatalSaldoAwal(d).baris = BarisBatal(d)
        /\ \/ BatalOpname(d).baris = {}
           \/ KunciSaldoBatal(d) \subseteq BatalOpname(d).kunci /\ BatalOpname(d).baris = BarisBatal(d)
    BY DEF BatalMutasi, BatalSaldoAwal, BatalOpname
  <2>5. KunciSaldoBatal(d) \subseteq Rencana(g).kunci /\ x \in BarisBatal(d)
    BY <2>1, <2>3, <2>4 DEF KunciJalurPembalik
  <2>6. PICK k \in kartu : k.dok = d /\ x.barang = k.barang /\ x.ruang = k.ruang
    BY <2>5 DEF BarisBatal
  <2>7. Saldonya(x) \in KunciSaldoBatal(d)
    BY <2>6 DEF KunciSaldoBatal, Saldonya
  <2>8. QED BY <2>5, <2>7
<1>3. QED BY <1>1, <1>2

\* An opening balance has a product once, in one room.
LEMMA AwalSekali ==
  ASSUME NEW d \in Dokumen, Isi[d].jenis = "saldo_awal", NEW s
  PROVE  /\ \A y, z \in BarisPosting(d, s) : y.barang = z.barang => y = z
         /\ \A y \in BarisPosting(d, s) :
              y.ruang = Isi[d].ruang /\ \E i \in DOMAIN Isi[d].baris : y.barang = Isi[d].baris[i].barang
<1>1. BarisPosting(d, s) = BarisMasuk(d)
  BY DEF BarisPosting, Keluaran
<1>2. \A y \in BarisMasuk(d) : \E i \in DOMAIN Isi[d].baris :
        y = Gerak(i, d, i, Isi[d].ruang, Isi[d].baris[i].qty, 0)
  BY DEF BarisMasuk
<1>3. \A i : LET y == Gerak(i, d, i, Isi[d].ruang, Isi[d].baris[i].qty, 0) IN
              y.barang = Isi[d].baris[i].barang /\ y.ruang = Isi[d].ruang
  BY DEF Gerak
<1>4. \A i, j \in DOMAIN Isi[d].baris : Isi[d].baris[i].barang = Isi[d].baris[j].barang => i = j
  BY AsumsiStok DEF AsumsiStok
<1>5. QED BY <1>1, <1>2, <1>3, <1>4

-----------------------------------------------------------------------------
(* What a session knows of its pairs.                                      *)

LEMMA PasanganGabung ==
  ASSUME NEW K, NEW L, NEW b, NEW r
  PROVE  Pasangan(K \cup L, b, r) = Pasangan(K, b, r) \cup Pasangan(L, b, r)
BY DEF Pasangan

LEMMA AdaBerikut ==
  ASSUME IInv, NEW u \in Sesi, pc[u] \in Pemicu
  PROVE  BarisBerikut(u) \in Berikut(u) /\ BarisBerikut(u) \in baris[u]
<1>1. Berikut(u) # {}
  BY DEF IInv, InvSesi, Pemicu
<1>2. QED BY <1>1 DEF BarisBerikut, Berikut

\* What u knows survives, if of the pairs it holds nothing is committed.
LEMMA SaldoLain ==
  ASSUME IInv, NEW u \in Sesi, InvSaldo(u), Maju(u),
         pc'[u] = pc[u], tugas'[u] = tugas[u], perlu'[u] = perlu[u], baris'[u] = baris[u],
         tulis'[u] = tulis[u], idBaru'[u] = idBaru[u],
         \A b, r : MemegangX(u, KSaldo(b, r)) => Pasangan(kartu', b, r) = Pasangan(kartu, b, r)
  PROVE  InvSaldo(u)'
<1>1. /\ \A k : MemegangX(u, k) => MemegangX(u, k)'
      /\ \A p : Dipenuhi(u, p) => Dipenuhi(u, p)'
  BY DEF Maju, MemegangX, Dipenuhi
<1>2. \A b, r : MemegangX(u, KSaldo(b, r)) =>
        Pasangan(kartu' \cup tulis'[u], b, r) = Pasangan(kartu \cup tulis[u], b, r)
  <2> SUFFICES ASSUME NEW b, NEW r, MemegangX(u, KSaldo(b, r))
               PROVE  Pasangan(kartu' \cup tulis[u], b, r) = Pasangan(kartu \cup tulis[u], b, r)
    OBVIOUS
  <2>1. Pasangan(kartu', b, r) = Pasangan(kartu, b, r)
    OBVIOUS
  <2>2. /\ Pasangan(kartu' \cup tulis[u], b, r) = Pasangan(kartu', b, r) \cup Pasangan(tulis[u], b, r)
        /\ Pasangan(kartu \cup tulis[u], b, r) = Pasangan(kartu, b, r) \cup Pasangan(tulis[u], b, r)
    BY PasanganGabung
  <2>3. QED BY <2>1, <2>2
<1>3. BarisBerikut(u)' = BarisBerikut(u)
  BY DEF BarisBerikut, Berikut
<1>4. \A k \in tulis'[u] : MemegangX(u, KSaldo(k.barang, k.ruang))'
  BY <1>1 DEF InvSaldo
<1>5. pc'[u] = "kunci" => \A y \in baris'[u] : Saldonya(y) \in perlu'[u] \/ Dipenuhi(u, Saldonya(y))'
  BY <1>1 DEF InvSaldo
<1>6. pc'[u] \in Menulis \ {"kunci"} => \A y \in baris'[u] : MemegangX(u, KSaldo(y.barang, y.ruang))'
  BY <1>1 DEF InvSaldo
<1>7. ASSUME pc'[u] \in Pemicu
      PROVE  LET x == BarisBerikut(u)' IN
             \A k \in Pasangan(kartu' \cup tulis'[u], x.barang, x.ruang) : k.id < idBaru'[u]
  <2>1. PICK x : x = BarisBerikut(u)
    OBVIOUS
  <2>2. MemegangX(u, KSaldo(x.barang, x.ruang))
    BY <1>7, <2>1, AdaBerikut DEF InvSaldo, Menulis, Pemicu
  <2>3. \A k \in Pasangan(kartu \cup tulis[u], x.barang, x.ruang) : k.id < idBaru[u]
    BY <1>7, <2>1 DEF InvSaldo
  <2>4. QED BY <1>2, <1>3, <2>1, <2>2, <2>3
<1>8. AwalDiposting(u)' = AwalDiposting(u)
  BY DEF AwalDiposting
<1>9. pc'[u] \in Menulis \ {"kunci"} /\ AwalDiposting(u) =>
        \A y \in baris'[u] : Pasangan(kartu' \cup tulis'[u], y.barang, y.ruang) = {}
  BY ZenonT(30), <1>2 DEF InvSaldo
<1>10. pc'[u] \in Menulis /\ AwalDiposting(u) =>
         \A y, z \in baris'[u] : y.barang = z.barang => y = z
  BY DEF InvSaldo
<1>11. QED BY <1>4, <1>5, <1>6, <1>7, <1>8, <1>9, <1>10 DEF InvSaldo, Saldonya, Pasangan, Pemicu, Menulis, Eksklusifi, KSaldo

-----------------------------------------------------------------------------
(* The steps: what the acting session knows after them.                    *)

\* A step of t that commits nothing.
LEMMA SaldoSatu ==
  ASSUME IInv, SInv, NEW t \in Sesi, UNCHANGED kartu, InvSaldo(t)',
         \A u \in Sesi : u # t =>
           /\ Maju(u) /\ pc'[u] = pc[u] /\ tugas'[u] = tugas[u] /\ perlu'[u] = perlu[u]
           /\ baris'[u] = baris[u] /\ tulis'[u] = tulis[u] /\ idBaru'[u] = idBaru[u]
  PROVE  SInv'
<1>1. \A u \in Sesi : u # t => InvSaldo(u)'
  BY SaldoLain DEF SInv
<1>2. QED BY <1>1 DEF SInv

\* A session that writes nothing knows nothing.
LEMMA SaldoKosong ==
  ASSUME NEW t \in Sesi, pc'[t] \notin Menulis, tulis'[t] = {}
  PROVE  InvSaldo(t)'
BY DEF InvSaldo, Menulis, Pemicu

LEMMA UsaiSaldo ==
  ASSUME IInv, NEW t \in Sesi, Bersih(t)
  PROVE  /\ InvSaldo(t)'
         /\ \A u \in Sesi : u # t =>
              /\ Maju(u) /\ pc'[u] = pc[u] /\ tugas'[u] = tugas[u] /\ perlu'[u] = perlu[u]
              /\ baris'[u] = baris[u] /\ tulis'[u] = tulis[u] /\ idBaru'[u] = idBaru[u]
<1>1. \A u \in Sesi : u # t => Maju(u)
  BY LepasMaju DEF Bersih, IInv, TypeOK
<1>2. /\ pc'[t] = "idle" /\ tulis'[t] = {}
      /\ \A u \in Sesi : u # t =>
           /\ pc'[u] = pc[u] /\ tugas'[u] = tugas[u] /\ perlu'[u] = perlu[u]
           /\ baris'[u] = baris[u] /\ tulis'[u] = tulis[u] /\ idBaru'[u] = idBaru[u]
  BY DEF Bersih, Lupa, IInv, TypeOK
<1>3. InvSaldo(t)'
  BY <1>2, SaldoKosong DEF Menulis, Pemicu
<1>4. QED BY <1>1, <1>2, <1>3

LEMMA SaldoGagal ==
  ASSUME IInv, SInv, NEW t \in Sesi, Bersih(t), UNCHANGED kartu
  PROVE  SInv'
BY UsaiSaldo, SaldoSatu

LEMMA SaldoMulai ==
  ASSUME IInv, SInv, NEW t \in Sesi, Mulai(t)
  PROVE  SInv'
<1>1. PICK g \in PermintaanMungkin : /\ tugas' = [tugas EXCEPT ![t] = g]
                                    /\ pc' = [pc EXCEPT ![t] = LangkahPertama(g)]
                                    /\ Minta(t, KunciPertama(g))
  BY DEF Mulai
<1>2. pc'[t] \in {"dokumen", "opname", "buku"}
  BY <1>1 DEF IInv, TypeOK, LangkahPertama
<1>3. pc'[t] \notin Menulis
  BY <1>2 DEF Menulis, Pemicu
<1>4. UNCHANGED <<kartu, perlu, tulis, baris, idBaru>> /\ tulis'[t] = {}
  BY DEF Mulai, dataVars, IInv, InvSesi
<1>5. \A u \in Sesi : u # t => pc'[u] = pc[u] /\ tugas'[u] = tugas[u]
  BY <1>1 DEF IInv, TypeOK
<1>6. \A u \in Sesi : u # t => Maju(u)
  BY <1>1, MintaApaPun DEF IInv
<1>7. QED BY <1>3, <1>4, <1>5, <1>6, SaldoKosong, SaldoSatu

\* The document is looked at: its locks cover its rows.
LEMMA SaldoPeriksa ==
  ASSUME TerkunciDulu, IInv, JInv, SInv, NEW t \in Sesi, PeriksaDokumen(t)
  PROVE  SInv'
<1>1. PICK g : g = tugas[t]
  OBVIOUS
<1>2. CASE /\ Rencana(g).boleh
           /\ pc' = [pc EXCEPT ![t] = "kunci"]
           /\ baris' = [baris EXCEPT ![t] = Rencana(g).baris]
           /\ perlu' = [perlu EXCEPT ![t] = Rencana(g).kunci]
           /\ UNCHANGED <<kunciVars, dataVars, tugas, idBaru, tulis, nextId, mulai>>
  <2>1. /\ pc[t] = "dokumen" /\ pc'[t] = "kunci" /\ baris'[t] = Rencana(g).baris
        /\ perlu'[t] = Rencana(g).kunci /\ tulis'[t] = {} /\ tugas'[t] = g
        /\ UNCHANGED <<kartu, tulis, tugas, idBaru, pegang, tunggu, depan>>
        /\ \A u \in Sesi : u # t => pc'[u] = pc[u] /\ baris'[u] = baris[u] /\ perlu'[u] = perlu[u]
    BY <1>1, <1>2 DEF PeriksaDokumen, dataVars, kunciVars, IInv, InvSesi, TypeOK
  <2>2. g.dok \in Dokumen /\ g.aksi \in {"posting", "batal"}
    BY <1>1, <2>1 DEF IInv, InvSesi, JInv, SemuaDok, InvDok, Luar
  <2>3. \A y \in Rencana(g).baris : Saldonya(y) \in Rencana(g).kunci
    BY <1>2, <2>2, KunciLengkap DEF IInv
  <2>4. g.aksi = "posting" /\ Isi[g.dok].jenis = "saldo_awal" =>
          \A y, z \in Rencana(g).baris : y.barang = z.barang => y = z
    BY <2>2, AwalSekali, BarisRencana DEF Rencana
  <2>5. InvSaldo(t)'
    BY <2>1, <2>3, <2>4 DEF InvSaldo, AwalDiposting, Pemicu, Saldonya, Eksklusifi, KSaldo
  <2>6. \A u \in Sesi : Maju(u)
    BY <2>1 DEF Maju
  <2>7. QED BY <2>1, <2>5, <2>6, SaldoSatu
<1>3. QED BY <1>1, <1>2, SaldoGagal DEF PeriksaDokumen, Gagal, dataVars

LEMMA SaldoAmbil ==
  ASSUME IInv, SInv, NEW t \in Sesi, AmbilKunci(t)
  PROVE  SInv'
<1>1. PICK p \in perlu[t] : Minta(t, p) /\ perlu' = [perlu EXCEPT ![t] = @ \ {p}]
  BY DEF AmbilKunci
<1>2. /\ pc[t] = "kunci" /\ UNCHANGED <<pc, tugas, kartu, baris, tulis, idBaru>>
      /\ perlu'[t] = perlu[t] \ {p}
      /\ \A u \in Sesi : u # t => perlu'[u] = perlu[u]
  BY <1>1 DEF AmbilKunci, dataVars, IInv, TypeOK
<1>3. /\ \A u \in Sesi : u # t => Maju(u)
      /\ pegang[t] \subseteq pegang'[t] /\ Dipenuhi(t, p)'
  BY <1>1, MintaApaPun DEF IInv
<1>4. Maju(t)
  <2>1. pegang[t] \cup tunggu[t] = pegang[t]
    BY DEF AmbilKunci, Jalan
  <2>2. QED BY <1>3, <2>1 DEF Maju
<1>5. \A q : Dipenuhi(t, q) => Dipenuhi(t, q)'
  BY <1>4 DEF Maju, Dipenuhi
<1>6. \A y \in baris[t] : Saldonya(y) \in perlu'[t] \/ Dipenuhi(t, Saldonya(y))'
  <2> TAKE y \in baris[t]
  <2>1. PICK q : q = Saldonya(y)
    OBVIOUS
  <2>2. q \in perlu[t] \/ Dipenuhi(t, q)
    BY <1>2, <2>1 DEF SInv, InvSaldo
  <2>3. q \in perlu'[t] \/ Dipenuhi(t, q)'
    BY <1>2, <1>3, <1>5, <2>2
  <2>4. QED BY <2>1, <2>3
<1>7. InvSaldo(t) /\ tulis[t] = {}
  BY <1>2 DEF SInv, IInv, InvSesi
<1>8. InvSaldo(t)'
  BY <1>2, <1>6, <1>7 DEF InvSaldo, AwalDiposting, Pemicu
<1>9. QED BY <1>2, <1>3, <1>8, SaldoSatu

\* All locks are held: an opening balance finds its pairs empty.
LEMMA SaldoMasuk ==
  ASSUME IInv, JInv, KInv, SInv, NEW t \in Sesi, PeriksaAwal(t)
  PROVE  SInv'
<1>1. CASE Gagal(t)
  BY <1>1, SaldoGagal DEF Gagal, dataVars
<1>2. CASE ~Gagal(t)
  <2>1. /\ pc[t] = "kunci" /\ Jalan(t) /\ perlu[t] = {} /\ Rencana(tugas[t]).syarat
        /\ pc' = [pc EXCEPT ![t] = "sisip"]
        /\ UNCHANGED <<kunciVars, dataVars, tugas, perlu, baris, idBaru, tulis, nextId, mulai>>
    BY <1>2 DEF PeriksaAwal
  <2>2. /\ pc'[t] = "sisip" /\ tulis[t] = {}
        /\ UNCHANGED <<kartu, tugas, perlu, baris, idBaru, tulis, pegang, tunggu>>
        /\ \A u \in Sesi : u # t => pc'[u] = pc[u]
    BY <2>1 DEF dataVars, kunciVars, IInv, InvSesi, TypeOK
  <2>3. \A y \in baris[t] : MemegangX(t, KSaldo(y.barang, y.ruang))
    <3> TAKE y \in baris[t]
    <3>1. Dipenuhi(t, Saldonya(y))
      BY <2>1 DEF SInv, InvSaldo
    <3>2. QED BY <2>1, <3>1, DipenuhiJalan DEF Saldonya, Eksklusifi
  <2>4. ASSUME AwalDiposting(t) PROVE \A y \in baris[t] : Pasangan(kartu, y.barang, y.ruang) = {}
    <3>1. PICK d : d = tugas[t].dok
      OBVIOUS
    <3>2. d \in Dokumen
      BY <2>1, <3>1, PunyaDokumen DEF Menulis
    <3>3. Rencana(tugas[t]) = PostingSaldoAwal(d)
      BY <2>4, <3>1 DEF AwalDiposting, Rencana, RencanaPosting
    <3>4. BelumPernahBergerak(d)
      <4>1. PostingSaldoAwal(d).syarat
        BY <2>1, <3>3
      <4>2. PostingSaldoAwal(d).syarat =
              (PeriodeBuka(Isi[d].bulan) /\ RuangBebas(d) /\ BelumPernahBergerak(d))
        BY DEF PostingSaldoAwal
      <4>3. QED BY <4>1, <4>2
    <3>5. InvTulis(t)
      BY DEF KInv
    <3>6. Jejak(baris[t]) \subseteq Jejak(BarisPosting(d, sistem[d]))
      BY <2>1, <2>4, <3>1, <3>5 DEF InvTulis, Menulis, HarusSisip, AwalDiposting
    <3> TAKE y \in baris[t]
    <3>7. PICK z \in BarisPosting(d, sistem[d]) :
            <<y.barang, y.ruang, y.masuk, y.keluar, y.asal>> = <<z.barang, z.ruang, z.masuk, z.keluar, z.asal>>
      <4>1. <<y.barang, y.ruang, y.masuk, y.keluar, y.asal>> \in Jejak(baris[t])
        BY DEF Jejak
      <4>2. <<y.barang, y.ruang, y.masuk, y.keluar, y.asal>> \in Jejak(BarisPosting(d, sistem[d]))
        BY <3>6, <4>1
      <4>3. QED BY <4>2 DEF Jejak
    <3>8. z.ruang = Isi[d].ruang /\ \E i \in DOMAIN Isi[d].baris : z.barang = Isi[d].baris[i].barang
      BY <2>4, <3>1, <3>2, AwalSekali DEF AwalDiposting
    <3>9. QED BY <3>4, <3>7, <3>8 DEF BelumPernahBergerak
  <2>5. AwalDiposting(t) => \A y, z \in baris[t] : y.barang = z.barang => y = z
    BY <2>1 DEF SInv, InvSaldo, Menulis
  <2>6. kartu \cup tulis[t] = kartu
    BY <2>2
  <2>7. InvSaldo(t)'
    <3>1. \A y \in baris[t] : MemegangX(t, KSaldo(y.barang, y.ruang))'
      BY <2>2, <2>3 DEF MemegangX, KSaldo
    <3>2. AwalDiposting(t) => \A y \in baris[t] : Pasangan(kartu \cup tulis[t], y.barang, y.ruang) = {}
      BY <2>4, <2>6
    <3>3. AwalDiposting(t)' = AwalDiposting(t)
      BY <2>2 DEF AwalDiposting
    <3>4. pc'[t] = "sisip" /\ pc'[t] \notin Pemicu /\ kartu' = kartu /\ tulis'[t] = tulis[t]
          /\ baris'[t] = baris[t] /\ tulis[t] = {}
      BY <2>2 DEF Pemicu
    <3>5. QED BY <2>5, <3>1, <3>2, <3>3, <3>4 DEF InvSaldo, Pasangan
  <2>8. \A u \in Sesi : Maju(u)
    BY <2>2 DEF Maju
  <2>9. QED BY <2>2, <2>7, <2>8, SaldoSatu
<1>3. QED BY <1>1, <1>2

\* Nothing that t relies on is lost while it goes from lock to lock.
LEMMA SaldoJalan ==
  ASSUME IInv, SInv, NEW t \in Sesi, NEW p, Minta(t, p), UNCHANGED <<kartu, tugas, perlu, baris, tulis>>,
         pc[t] \in Menulis \ {"kunci"}, pc'[t] \in Menulis \ {"kunci"},
         \A u \in Sesi : u # t => pc'[u] = pc[u] /\ idBaru'[u] = idBaru[u],
         NEW x, x = BarisBerikut(t),
         pc'[t] \in Pemicu => \A k \in Pasangan(kartu \cup tulis[t], x.barang, x.ruang) : k.id < idBaru'[t]
  PROVE  SInv'
<1>1. (\A u \in Sesi : u # t => Maju(u)) /\ pegang[t] \subseteq pegang'[t]
  BY MintaApaPun DEF IInv
<1>2. InvSaldo(t)
  BY DEF SInv
<1>3. \A k : MemegangX(t, k) => MemegangX(t, k)'
  BY <1>1 DEF MemegangX
<1>4. BarisBerikut(t)' = x
  BY DEF BarisBerikut, Berikut
<1>5. AwalDiposting(t)' = AwalDiposting(t)
  BY DEF AwalDiposting
<1>6. \A k \in tulis'[t] : MemegangX(t, KSaldo(k.barang, k.ruang))'
  BY <1>2, <1>3 DEF InvSaldo
<1>7. \A y \in baris'[t] : MemegangX(t, KSaldo(y.barang, y.ruang))'
  BY <1>2, <1>3 DEF InvSaldo
<1>8. AwalDiposting(t) =>
        /\ \A y, z \in baris'[t] : y.barang = z.barang => y = z
        /\ \A y \in baris'[t] : Pasangan(kartu' \cup tulis'[t], y.barang, y.ruang) = {}
  BY <1>2 DEF InvSaldo
<1>9. pc'[t] \in Pemicu =>
        \A k \in Pasangan(kartu' \cup tulis'[t], x.barang, x.ruang) : k.id < idBaru'[t]
  OBVIOUS
<1>10. InvSaldo(t)'
  BY <1>4, <1>5, <1>6, <1>7, <1>8, <1>9 DEF InvSaldo, Pasangan, Pemicu, Menulis, KSaldo
<1>11. QED BY <1>1, <1>10, SaldoSatu

LEMMA SaldoLangkah ==
  ASSUME IInv, KInv, SInv, NEW t \in Sesi,
         Sisip(t) \/ TrgPeriode(t) \/ TrgRuang(t) \/ Perbarui(t)
  PROVE  SInv'
<1>1. CASE Gagal(t)
  BY <1>1, SaldoGagal DEF Gagal, dataVars
<1>2. PICK x : x = BarisBerikut(t)
  OBVIOUS
<1>3. CASE Sisip(t)
  <2>1. /\ pc[t] = "sisip" /\ pc'[t] = "trg_periode" /\ idBaru'[t] = nextId
        /\ UNCHANGED <<kartu, tugas, perlu, baris, tulis>>
        /\ \A u \in Sesi : u # t => pc'[u] = pc[u] /\ idBaru'[u] = idBaru[u]
    BY <1>3 DEF Sisip, dataVars, IInv, TypeOK
  <2>2. \A k \in kartu \cup tulis[t] : k.id < nextId
    <3>1. \A k \in tulis[t] : k.id \in IdSesi(t)
      BY DEF IdSesi
    <3>2. QED BY <3>1 DEF KInv, IdTerpisah
  <2>3. \A k \in Pasangan(kartu \cup tulis[t], x.barang, x.ruang) : k.id < idBaru'[t]
    BY <2>1, <2>2 DEF Pasangan
  <2>4. PICK p : Minta(t, p)
    BY <1>3 DEF Sisip
  <2>5. pc[t] \in Menulis \ {"kunci"} /\ pc'[t] \in Menulis \ {"kunci"}
    BY <2>1 DEF Menulis, Pemicu
  <2>6. QED BY <1>2, <2>1, <2>3, <2>4, <2>5, SaldoJalan
<1>4. CASE (TrgPeriode(t) \/ TrgRuang(t)) /\ ~Gagal(t)
  <2>1. /\ pc[t] \in Pemicu /\ pc'[t] \in Pemicu
        /\ UNCHANGED <<kartu, tugas, perlu, baris, tulis, idBaru>>
        /\ \A u \in Sesi : u # t => pc'[u] = pc[u]
    BY <1>4 DEF TrgPeriode, TrgRuang, Pemicu, dataVars, IInv, TypeOK
  <2>2. PICK p : Minta(t, p)
    BY <1>4 DEF TrgPeriode, TrgRuang
  <2>3. \A k \in Pasangan(kartu \cup tulis[t], x.barang, x.ruang) : k.id < idBaru'[t]
    BY <1>2, <2>1 DEF SInv, InvSaldo
  <2>4. pc[t] \in Menulis \ {"kunci"} /\ pc'[t] \in Menulis \ {"kunci"}
    BY <2>1 DEF Menulis, Pemicu
  <2>5. QED BY <1>2, <2>1, <2>2, <2>3, <2>4, SaldoJalan
<1>5. CASE Perbarui(t)
  <2>1. /\ pc[t] = "sisip" /\ pc'[t] = "akhir"
        /\ UNCHANGED <<kartu, tugas, perlu, baris, tulis, idBaru>>
        /\ \A u \in Sesi : u # t => pc'[u] = pc[u]
    BY <1>5 DEF Perbarui, dataVars, IInv, TypeOK
  <2>2. PICK p : Minta(t, p)
    BY <1>5 DEF Perbarui
  <2>3. /\ pc[t] \in Menulis \ {"kunci"} /\ pc'[t] \in Menulis \ {"kunci"}
        /\ pc'[t] \notin Pemicu
    BY <2>1 DEF Menulis, Pemicu
  <2>4. QED BY <1>2, <2>1, <2>2, <2>3, SaldoJalan
<1>6. QED BY <1>1, <1>3, <1>4, <1>5

\* The row the trigger writes: the newest of its pair, built on the last one.
BarisTrigger(t) ==
  LET x == BarisBerikut(t)
      lalu == SaldoTerakhir(kartu \cup tulis[t], x.barang, x.ruang) IN
  [id |-> idBaru[t], barang |-> x.barang, ruang |-> x.ruang, masuk |-> x.masuk,
   keluar |-> x.keluar, awal |-> lalu, akhir |-> lalu + x.masuk - x.keluar,
   bulan |-> x.bulan, dok |-> tugas[t].dok, asal |-> x.asal]

LEMMA SaldoTulis ==
  ASSUME IInv, SInv, NEW t \in Sesi, TrgSaldo(t)
  PROVE  SInv'
<1>1. CASE Gagal(t)
  BY <1>1, SaldoGagal DEF Gagal, dataVars
<1>2. CASE ~Gagal(t)
  <2>1. PICK x, y : x = BarisBerikut(t) /\ y = BarisTrigger(t)
    OBVIOUS
  <2>2. /\ pc[t] = "trg_saldo"
        /\ tulis' = [tulis EXCEPT ![t] = @ \cup {y}]
        /\ baris' = [baris EXCEPT ![t] = @ \ {x}]
        /\ pc' = [pc EXCEPT ![t] = "sisip"]
        /\ UNCHANGED <<kunciVars, dataVars, tugas, perlu, idBaru, nextId, mulai>>
    BY <1>2, <2>1 DEF TrgSaldo, BarisTrigger
  <2>3. /\ pc'[t] = "sisip" /\ tulis'[t] = tulis[t] \cup {y} /\ baris'[t] = baris[t] \ {x}
        /\ UNCHANGED <<kartu, tugas, perlu, idBaru, pegang, tunggu>>
        /\ \A u \in Sesi : u # t => pc'[u] = pc[u] /\ tulis'[u] = tulis[u] /\ baris'[u] = baris[u]
    BY <2>2 DEF dataVars, kunciVars, IInv, TypeOK
  <2>4. x \in baris[t] /\ y.barang = x.barang /\ y.ruang = x.ruang
    BY <2>1, <2>2, AdaBerikut DEF BarisTrigger, Pemicu
  <2>5. InvSaldo(t) /\ pc[t] \in Menulis \ {"kunci"}
    BY <2>2 DEF SInv, Menulis, Pemicu
  <2>6. /\ \A k \in tulis'[t] : MemegangX(t, KSaldo(k.barang, k.ruang))
        /\ \A z \in baris'[t] : MemegangX(t, KSaldo(z.barang, z.ruang))
    BY <2>3, <2>4, <2>5 DEF InvSaldo
  <2>7. ASSUME AwalDiposting(t)
        PROVE  /\ \A w, z \in baris'[t] : w.barang = z.barang => w = z
               /\ \A z \in baris'[t] : Pasangan(kartu \cup tulis'[t], z.barang, z.ruang) = {}
    <3>1. \A w, z \in baris[t] : w.barang = z.barang => w = z
      BY <2>5, <2>7 DEF InvSaldo
    <3>2. \A z \in baris[t] : Pasangan(kartu \cup tulis[t], z.barang, z.ruang) = {}
      BY <2>5, <2>7 DEF InvSaldo
    <3>3. ASSUME NEW z \in baris'[t]
          PROVE  Pasangan(kartu \cup tulis'[t], z.barang, z.ruang) = {}
      <4>1. z \in baris[t] /\ z.barang # y.barang
        BY <2>3, <2>4, <3>1
      <4>2. Pasangan(kartu \cup tulis[t], z.barang, z.ruang) = {}
        BY <3>2, <4>1
      <4>3. QED BY <2>3, <4>1, <4>2 DEF Pasangan
    <3>4. QED BY <2>3, <3>1, <3>3
  <2>8. InvSaldo(t)'
    <3>1. AwalDiposting(t)' = AwalDiposting(t) /\ pc'[t] \notin Pemicu
      BY <2>3 DEF AwalDiposting, Pemicu
    <3>2. /\ \A k \in tulis'[t] : MemegangX(t, KSaldo(k.barang, k.ruang))'
          /\ \A z \in baris'[t] : MemegangX(t, KSaldo(z.barang, z.ruang))'
      BY <2>3, <2>6 DEF MemegangX, KSaldo
    <3>3. QED BY <2>3, <2>7, <3>1, <3>2 DEF InvSaldo, Pasangan
  <2>9. \A u \in Sesi : Maju(u)
    BY <2>3 DEF Maju
  <2>10. QED BY <2>3, <2>8, <2>9, SaldoSatu
<1>3. QED BY <1>1, <1>2

\* COMMIT: of the pairs the others hold nothing comes in.
LEMMA SaldoSelesai ==
  ASSUME IInv, SInv, NEW t \in Sesi, Selesai(t)
  PROVE  SInv'
<1>1. CASE Gagal(t)
  BY <1>1, SaldoGagal DEF Gagal, dataVars
<1>2. CASE ~Gagal(t)
  <2>1. kartu' = kartu \cup tulis[t] /\ Bersih(t)
    BY <1>2 DEF Selesai
  <2>2. InvSaldo(t)' /\ \A u \in Sesi : u # t =>
              /\ Maju(u) /\ pc'[u] = pc[u] /\ tugas'[u] = tugas[u] /\ perlu'[u] = perlu[u]
              /\ baris'[u] = baris[u] /\ tulis'[u] = tulis[u] /\ idBaru'[u] = idBaru[u]
    BY <2>1, UsaiSaldo
  <2>3. ASSUME NEW u \in Sesi, u # t, NEW b, NEW r, MemegangX(u, KSaldo(b, r))
        PROVE  Pasangan(kartu', b, r) = Pasangan(kartu, b, r)
    <3>1. ASSUME NEW k \in tulis[t], k.barang = b, k.ruang = r PROVE FALSE
      <4>1. MemegangX(t, KSaldo(b, r))
        BY <3>1 DEF SInv, InvSaldo
      <4>2. QED BY <2>3, <4>1, Asing DEF IInv, Memegang, MemegangX
    <3>2. QED BY <2>1, <3>1 DEF Pasangan
  <2>4. \A u \in Sesi : u # t => InvSaldo(u)'
    BY <2>2, <2>3, SaldoLain DEF SInv
  <2>5. QED BY <2>2, <2>4 DEF SInv
<1>3. QED BY <1>1, <1>2

LEMMA SaldoDiam ==
  ASSUME IInv, SInv, NEW t \in Sesi, Maju(t), UNCHANGED <<kartu, sesiVars>>
  PROVE  InvSaldo(t)'
BY SaldoLain DEF SInv, sesiVars

LEMMA SaldoAwalBenar == Init => SInv
BY DEF Init, SInv, InvSaldo, Menulis, Pemicu

LEMMA SaldoInduktif ==
  ASSUME TerkunciDulu, IInv, JInv, KInv, SInv, [Next]_vars
  PROVE  SInv'
<1>1. ASSUME NEW t \in Sesi, TutupBuku(t) \/ BukaBuku(t) \/ BukaOpname(t) PROVE SInv'
  <2>1. Bersih(t) /\ UNCHANGED kartu
    BY <1>1 DEF TutupBuku, BukaBuku, BukaOpname, Gagal, dataVars
  <2>2. QED BY <2>1, SaldoGagal
<1>2. ASSUME NEW t \in Sesi, Langkah(t) PROVE SInv'
  BY <1>1, <1>2, SaldoPeriksa, SaldoAmbil, SaldoMasuk, SaldoLangkah, SaldoTulis, SaldoSelesai
     DEF Langkah
<1>3. ASSUME NEW t \in Sesi, BatalkanKorban(t) PROVE SInv'
  BY <1>3, SaldoGagal DEF BatalkanKorban, Gagal, dataVars
<1>4. ASSUME UNCHANGED <<kartu, sesiVars>>, \A u \in Sesi : Maju(u) PROVE SInv'
  BY <1>4, SaldoDiam DEF SInv
<1>5. ASSUME NEW t \in Sesi, SusunAntrean(t) PROVE SInv'
  <2>1. \A u \in Sesi : Maju(u)
    BY <1>5, SusunMaju DEF SusunAntrean, IInv, TypeOK
  <2>2. QED BY <1>4, <1>5, <2>1 DEF SusunAntrean, dataVars
<1>6. ASSUME NEW d \in Dokumen, TarikSaldo(d) \/ ReplaceDetail(d) \/ Ajukan(d) \/ Tolak(d)
      PROVE  SInv'
  <2>1. UNCHANGED <<kartu, sesiVars, kunciVars>>
    BY <1>6 DEF TarikSaldo, ReplaceDetail, Ajukan, Tolak
  <2>2. QED BY <1>4, <2>1 DEF Maju, kunciVars
<1>7. ASSUME UNCHANGED vars PROVE SInv'
  <2>1. UNCHANGED <<kartu, sesiVars, kunciVars>>
    BY <1>7 DEF vars, dataVars
  <2>2. QED BY <1>4, <2>1 DEF Maju, kunciVars
<1>8. QED
  BY <1>2, <1>3, <1>5, <1>6, <1>7, SaldoMulai DEF Next, Diam

-----------------------------------------------------------------------------
(* What a step does to the ledger, and to the rows not committed yet.      *)

LEMMA PerubahanKartu ==
  ASSUME IInv, [Next]_vars
  PROVE  \/ kartu' = kartu /\ \A u \in Sesi : tulis'[u] \in {tulis[u], {}}
         \/ \E t \in Sesi : /\ kartu' = kartu /\ pc[t] = "trg_saldo"
                            /\ tulis'[t] = tulis[t] \cup {BarisTrigger(t)}
                            /\ \A u \in Sesi : u # t => tulis'[u] = tulis[u]
         \/ \E t \in Sesi : /\ kartu' = kartu \cup tulis[t] /\ tulis'[t] = {}
                            /\ \A u \in Sesi : u # t => tulis'[u] = tulis[u]
<1> DEFINE Diamkan == kartu' = kartu /\ \A u \in Sesi : tulis'[u] \in {tulis[u], {}}
<1>1. ASSUME NEW t \in Sesi, Bersih(t), UNCHANGED kartu PROVE Diamkan
  BY <1>1, UsaiSaldo DEF Bersih, Lupa, IInv, TypeOK
<1>2. ASSUME NEW t \in Sesi, Gagal(t) PROVE Diamkan
  BY <1>1, <1>2 DEF Gagal, dataVars
<1>3. ASSUME UNCHANGED <<kartu, tulis>> PROVE Diamkan
  BY <1>3
<1>4. ASSUME NEW t \in Sesi,
             \/ Mulai(t) \/ AmbilKunci(t) \/ Sisip(t) \/ Perbarui(t) \/ SusunAntrean(t)
             \/ PeriksaDokumen(t) \/ PeriksaAwal(t) \/ TrgPeriode(t) \/ TrgRuang(t)
             \/ BatalkanKorban(t)
      PROVE  Diamkan
  <2>1. UNCHANGED <<kartu, tulis>> \/ Gagal(t)
    BY <1>4 DEF Mulai, AmbilKunci, Sisip, Perbarui, SusunAntrean, PeriksaDokumen, PeriksaAwal,
                TrgPeriode, TrgRuang, BatalkanKorban, dataVars, sesiVars
  <2>2. QED BY <1>2, <1>3, <2>1
<1>5. ASSUME NEW t \in Sesi, TutupBuku(t) \/ BukaBuku(t) \/ BukaOpname(t) PROVE Diamkan
  <2>1. Bersih(t) /\ UNCHANGED kartu
    BY <1>5 DEF TutupBuku, BukaBuku, BukaOpname, Gagal, dataVars
  <2>2. QED BY <1>1, <2>1
<1>6. ASSUME \/ \E d \in Dokumen : TarikSaldo(d) \/ ReplaceDetail(d) \/ Ajukan(d) \/ Tolak(d)
             \/ UNCHANGED vars
      PROVE  Diamkan
  <2>1. UNCHANGED <<kartu, tulis>>
    BY <1>6 DEF TarikSaldo, ReplaceDetail, Ajukan, Tolak, sesiVars, vars, dataVars
  <2>2. QED BY <1>3, <2>1
<1>7. ASSUME NEW t \in Sesi, TrgSaldo(t)
      PROVE  \/ Diamkan
             \/ /\ kartu' = kartu /\ pc[t] = "trg_saldo"
                /\ tulis'[t] = tulis[t] \cup {BarisTrigger(t)}
                /\ \A u \in Sesi : u # t => tulis'[u] = tulis[u]
  <2>1. CASE Gagal(t)
    BY <1>2, <2>1
  <2>2. CASE ~Gagal(t)
    <3>1. /\ pc[t] = "trg_saldo" /\ UNCHANGED dataVars
          /\ tulis' = [tulis EXCEPT ![t] = @ \cup {BarisTrigger(t)}]
      BY <1>7, <2>2 DEF TrgSaldo, BarisTrigger
    <3>2. QED BY <3>1 DEF dataVars, IInv, TypeOK
  <2>3. QED BY <2>1, <2>2
<1>8. ASSUME NEW t \in Sesi, Selesai(t)
      PROVE  \/ Diamkan
             \/ /\ kartu' = kartu \cup tulis[t] /\ tulis'[t] = {}
                /\ \A u \in Sesi : u # t => tulis'[u] = tulis[u]
  <2>1. CASE Gagal(t)
    BY <1>2, <2>1
  <2>2. CASE ~Gagal(t)
    <3>1. kartu' = kartu \cup tulis[t] /\ Bersih(t)
      BY <1>8, <2>2 DEF Selesai
    <3>2. QED BY <3>1 DEF Bersih, Lupa, IInv, TypeOK
  <2>3. QED BY <2>1, <2>2
<1> HIDE DEF Diamkan
<1>9. ASSUME NEW t \in Sesi, Mulai(t) \/ Langkah(t) \/ SusunAntrean(t) \/ BatalkanKorban(t)
      PROVE  \/ Diamkan
             \/ /\ kartu' = kartu /\ pc[t] = "trg_saldo"
                /\ tulis'[t] = tulis[t] \cup {BarisTrigger(t)}
                /\ \A u \in Sesi : u # t => tulis'[u] = tulis[u]
             \/ /\ kartu' = kartu \cup tulis[t] /\ tulis'[t] = {}
                /\ \A u \in Sesi : u # t => tulis'[u] = tulis[u]
  BY <1>4, <1>5, <1>7, <1>8, <1>9 DEF Langkah
<1>10. CASE \E t \in Sesi : Mulai(t) \/ Langkah(t) \/ SusunAntrean(t) \/ BatalkanKorban(t)
  BY <1>9, <1>10 DEF Diamkan
<1>11. QED BY <1>6, <1>10 DEF Next, Diam, Diamkan

\* The row the trigger writes is the newest of its pair and starts from the
\* last; that of an opening balance is the only one.
LEMMA BarisTriggerBenar ==
  ASSUME IInv, JInv, KInv, SInv, NEW t \in Sesi, pc[t] = "trg_saldo", NEW y, y = BarisTrigger(t)
  PROVE  /\ y.id \in Nat
         /\ y.awal = SaldoTerakhir(kartu \cup tulis[t], y.barang, y.ruang)
         /\ y.akhir = y.awal + y.masuk - y.keluar
         /\ \A k \in Pasangan(kartu \cup tulis[t], y.barang, y.ruang) : k.id < y.id
         /\ y.dok # Nol /\ y.asal = Nol /\ Isi[y.dok].jenis = "saldo_awal" =>
              Pasangan(kartu \cup tulis[t], y.barang, y.ruang) = {}
<1>1. PICK x : x = BarisBerikut(t)
  OBVIOUS
<1>2. /\ y.id = idBaru[t] /\ y.barang = x.barang /\ y.ruang = x.ruang /\ y.masuk = x.masuk
      /\ y.keluar = x.keluar /\ y.dok = tugas[t].dok /\ y.asal = x.asal
      /\ y.awal = SaldoTerakhir(kartu \cup tulis[t], x.barang, x.ruang)
      /\ y.akhir = SaldoTerakhir(kartu \cup tulis[t], x.barang, x.ruang) + x.masuk - x.keluar
  BY <1>1 DEF BarisTrigger
<1>3. pc[t] \in Pemicu /\ pc[t] \in Menulis \ {"kunci"}
  BY DEF Pemicu, Menulis
<1>4. InvSaldo(t) /\ InvTulis(t)
  BY DEF SInv, KInv
<1>5. \A k \in Pasangan(kartu \cup tulis[t], x.barang, x.ruang) : k.id < idBaru[t]
  BY <1>1, <1>3, <1>4 DEF InvSaldo
<1>6. x \in baris[t]
  BY <1>1, <1>3, AdaBerikut
<1>7. ASSUME x.asal = Nol, Isi[tugas[t].dok].jenis = "saldo_awal"
      PROVE  Pasangan(kartu \cup tulis[t], x.barang, x.ruang) = {}
  <2>1. tugas[t].dok \in Dokumen /\ tugas[t].aksi \in {"posting", "batal"}
    BY <1>3, PunyaDokumen
  <2>2. tugas[t].aksi = "posting"
    <3>1. SUFFICES ASSUME tugas[t].aksi = "batal" PROVE FALSE
      BY <2>1
    <3>2. <<x.barang, x.ruang, x.masuk, x.keluar, x.asal>> \in Jejak(HarusSisip(tugas[t]))
      <4>1. <<x.barang, x.ruang, x.masuk, x.keluar, x.asal>> \in Jejak(baris[t])
        BY <1>6 DEF Jejak
      <4>2. QED BY <1>3, <1>4, <4>1 DEF InvTulis
    <3>3. PICK z \in BarisBatal(tugas[t].dok) : z.asal = x.asal
      BY <3>1, <3>2 DEF Jejak, HarusSisip
    <3>4. PICK k \in kartu : z.asal = k.id
      BY <3>3 DEF BarisBatal
    <3>5. 0 < k.id /\ k.id = 0
      BY <1>7, <3>3, <3>4 DEF KInv, IdTerpisah, Nol
    <3>6. QED BY <3>5
  <2>3. QED BY <1>3, <1>4, <1>6, <1>7, <2>2 DEF InvSaldo, AwalDiposting
<1>8. QED BY <1>2, <1>5, <1>7 DEF IInv, TypeOK

\* Two sessions do not write rows of one pair.
LEMMA TulisTerpisah ==
  ASSUME IInv, SInv, NEW t \in Sesi, NEW u \in Sesi, u # t, NEW k \in tulis[t], NEW l \in tulis[u]
  PROVE  ~(k.barang = l.barang /\ k.ruang = l.ruang)
<1>1. MemegangX(t, KSaldo(k.barang, k.ruang)) /\ MemegangX(u, KSaldo(l.barang, l.ruang))
  BY DEF SInv, InvSaldo
<1>2. QED BY <1>1, Asing DEF IInv, Memegang, MemegangX

-----------------------------------------------------------------------------
(* The chain of a pair.                                                    *)

Rantai(K) ==
  \A k \in K :
    /\ k.akhir = k.awal + k.masuk - k.keluar
    /\ k.awal = SaldoTerakhir({l \in Pasangan(K, k.barang, k.ruang) : l.id < k.id},
                              k.barang, k.ruang)

\* A row newer than those of its pair that starts from the last continues it.
LEMMA RantaiTambah ==
  ASSUME NEW K, \A k \in K : k.id \in Nat, Rantai(K), NEW y, y.id \in Nat,
         y.awal = SaldoTerakhir(K, y.barang, y.ruang), y.akhir = y.awal + y.masuk - y.keluar,
         \A k \in Pasangan(K, y.barang, y.ruang) : k.id < y.id
  PROVE  Rantai(K \cup {y})
<1>1. ASSUME NEW k \in K
      PROVE  {l \in Pasangan(K \cup {y}, k.barang, k.ruang) : l.id < k.id}
               = {l \in Pasangan(K, k.barang, k.ruang) : l.id < k.id}
  <2>1. y.barang = k.barang /\ y.ruang = k.ruang => k.id < y.id
    BY DEF Pasangan
  <2>2. k.id \in Nat
    OBVIOUS
  <2>3. y \in Pasangan(K \cup {y}, k.barang, k.ruang) => ~(y.id < k.id)
    BY <2>1, <2>2 DEF Pasangan
  <2>4. Pasangan(K \cup {y}, k.barang, k.ruang) \ {y} \subseteq Pasangan(K, k.barang, k.ruang)
        /\ Pasangan(K, k.barang, k.ruang) \subseteq Pasangan(K \cup {y}, k.barang, k.ruang)
    BY DEF Pasangan
  <2>5. QED BY <2>3, <2>4
<1>2. {l \in Pasangan(K \cup {y}, y.barang, y.ruang) : l.id < y.id} = Pasangan(K, y.barang, y.ruang)
  BY DEF Pasangan
<1>3. SaldoTerakhir(Pasangan(K, y.barang, y.ruang), y.barang, y.ruang)
        = SaldoTerakhir(K, y.barang, y.ruang)
  <2>1. Pasangan(Pasangan(K, y.barang, y.ruang), y.barang, y.ruang) = Pasangan(K, y.barang, y.ruang)
    BY DEF Pasangan
  <2>2. QED BY <2>1 DEF SaldoTerakhir, Terakhir
<1>4. \A k \in K :
        /\ k.akhir = k.awal + k.masuk - k.keluar
        /\ k.awal = SaldoTerakhir({l \in Pasangan(K \cup {y}, k.barang, k.ruang) : l.id < k.id},
                                  k.barang, k.ruang)
  BY <1>1 DEF Rantai
<1>5. y.awal = SaldoTerakhir({l \in Pasangan(K \cup {y}, y.barang, y.ruang) : l.id < y.id},
                             y.barang, y.ruang)
  BY <1>2, <1>3
<1>6. QED BY <1>4, <1>5 DEF Rantai

\* Chains that extend one history in different pairs go together.
LEMMA RantaiGabung ==
  ASSUME NEW K, NEW T, NEW U, Rantai(K \cup T), Rantai(K \cup U),
         \A k \in T, l \in U : ~(k.barang = l.barang /\ k.ruang = l.ruang)
  PROVE  Rantai(K \cup T \cup U)
<1> SUFFICES ASSUME NEW k \in K \cup T \cup U
             PROVE  /\ k.akhir = k.awal + k.masuk - k.keluar
                    /\ k.awal = SaldoTerakhir({l \in Pasangan(K \cup T \cup U, k.barang, k.ruang) : l.id < k.id},
                                              k.barang, k.ruang)
  BY DEF Rantai
<1>1. CASE Pasangan(U, k.barang, k.ruang) = {}
  <2>1. k \in K \cup T
    BY <1>1 DEF Pasangan
  <2>2. Pasangan(K \cup T \cup U, k.barang, k.ruang) = Pasangan(K \cup T, k.barang, k.ruang)
    BY <1>1 DEF Pasangan
  <2>3. QED BY <2>1, <2>2 DEF Rantai
<1>2. CASE Pasangan(T, k.barang, k.ruang) = {}
  <2>1. k \in K \cup U
    BY <1>2 DEF Pasangan
  <2>2. Pasangan(K \cup T \cup U, k.barang, k.ruang) = Pasangan(K \cup U, k.barang, k.ruang)
    BY <1>2 DEF Pasangan
  <2>3. QED BY <2>1, <2>2 DEF Rantai
<1>3. Pasangan(U, k.barang, k.ruang) = {} \/ Pasangan(T, k.barang, k.ruang) = {}
  BY DEF Pasangan
<1>4. QED BY <1>1, <1>2, <1>3

RantaiInv == Rantai(kartu) /\ \A u \in Sesi : Rantai(kartu \cup tulis[u])

LEMMA IdAlami == ASSUME TypeOK, NEW u \in Sesi PROVE \A k \in kartu \cup tulis[u] : k.id \in Nat
BY DEF TypeOK, BarisKartu

LEMMA RantaiInduktif ==
  ASSUME IInv, JInv, KInv, SInv, RantaiInv, [Next]_vars
  PROVE  RantaiInv'
<1>1. CASE kartu' = kartu /\ \A u \in Sesi : tulis'[u] \in {tulis[u], {}}
  <2>1. \A u \in Sesi : Rantai(kartu \cup tulis'[u])
    <3> TAKE u \in Sesi
    <3>1. tulis'[u] = tulis[u] \/ kartu \cup tulis'[u] = kartu
      BY <1>1
    <3>2. QED BY <3>1 DEF RantaiInv
  <2>2. QED BY <1>1, <2>1 DEF RantaiInv, Rantai
<1>2. ASSUME NEW t \in Sesi, kartu' = kartu, pc[t] = "trg_saldo",
             tulis'[t] = tulis[t] \cup {BarisTrigger(t)},
             \A u \in Sesi : u # t => tulis'[u] = tulis[u]
      PROVE  RantaiInv'
  <2>1. PICK y : y = BarisTrigger(t)
    OBVIOUS
  <2>2. PICK K : K = kartu \cup tulis[t]
    OBVIOUS
  <2>3. Rantai(K) /\ \A k \in K : k.id \in Nat
    BY <2>2, IdAlami DEF RantaiInv, IInv
  <2>4. Rantai(K \cup {y})
    BY <1>2, <2>1, <2>2, <2>3, BarisTriggerBenar, RantaiTambah
  <2>5. kartu \cup tulis'[t] = K \cup {y}
    BY <1>2, <2>1, <2>2
  <2>6. \A u \in Sesi : Rantai(kartu \cup tulis'[u])
    BY <1>2, <2>4, <2>5 DEF RantaiInv
  <2>7. QED BY <1>2, <2>6 DEF RantaiInv, Rantai
<1>3. ASSUME NEW t \in Sesi, kartu' = kartu \cup tulis[t], tulis'[t] = {},
             \A u \in Sesi : u # t => tulis'[u] = tulis[u]
      PROVE  RantaiInv'
  <2>1. Rantai(kartu \cup tulis[t])
    BY DEF RantaiInv
  <2>2. \A u \in Sesi : Rantai(kartu \cup tulis[t] \cup tulis'[u])
    <3> TAKE u \in Sesi
    <3>1. CASE u = t
      <4>1. kartu \cup tulis[t] \cup tulis'[u] = kartu \cup tulis[t]
        BY <1>3, <3>1
      <4>2. QED BY <2>1, <4>1
    <3>2. CASE u # t
      <4>1. Rantai(kartu \cup tulis[t] \cup tulis[u])
        BY <3>2, TulisTerpisah, RantaiGabung DEF RantaiInv
      <4>2. QED BY <1>3, <3>2, <4>1
    <3>3. QED BY <3>1, <3>2
  <2>3. QED BY <1>3, <2>1, <2>2 DEF RantaiInv, Rantai
<1>4. QED BY <1>1, <1>2, <1>3, PerubahanKartu

LEMMA RantaiMula ==
  ASSUME Init, RantaiUtuh
  PROVE  RantaiInv
<1>1. \A u \in Sesi : kartu \cup tulis[u] = kartu
  BY DEF Init
<1>2. Rantai(kartu)
  BY DEF RantaiUtuh, Rantai
<1>3. QED BY <1>1, <1>2 DEF RantaiInv

\* Where no purchase, receipt or return writes, a ledger whose chains are
\* whole keeps them whole: the writers of a pair take turns, and the ids of
\* its rows are drawn in the order the rows are committed.
THEOREM RantaiSelaluUtuh ==
  ASSUME TerkunciDulu
  PROVE  Spec /\ RantaiUtuh => []RantaiUtuh
<1>1. RantaiInv => RantaiUtuh
  BY DEF RantaiInv, Rantai, RantaiUtuh
<1>2. IInv /\ JInv /\ KInv /\ SInv /\ [Next]_vars => SInv'
  BY SaldoInduktif
<1>3. IInv /\ JInv /\ KInv /\ SInv /\ RantaiInv /\ [Next]_vars => RantaiInv'
  BY RantaiInduktif
<1>4. Init /\ RantaiUtuh => RantaiInv
  BY RantaiMula
<1>5. Spec /\ RantaiUtuh => []RantaiInv
  BY <1>2, <1>3, <1>4, AwalBenar, Induktif, DokumenAwal, DokumenInduktif, KartuAwalBenar,
     KartuInduktif, SaldoAwalBenar, PTL DEF Spec
<1>6. QED BY <1>1, <1>5, PTL

-----------------------------------------------------------------------------
(* Opening balances.                                                       *)

Pembuka(k) == k.dok # Nol /\ k.asal = Nol /\ Isi[k.dok].jenis = "saldo_awal"

AwalPertama(K) ==
  \A k \in K : Pembuka(k) => \A l \in Pasangan(K, k.barang, k.ruang) : k.id <= l.id

AwalInv == AwalPertama(kartu) /\ \A u \in Sesi : AwalPertama(kartu \cup tulis[u])

LEMMA AwalTambah ==
  ASSUME NEW K, \A k \in K : k.id \in Nat, AwalPertama(K), NEW y, y.id \in Nat,
         \A k \in Pasangan(K, y.barang, y.ruang) : k.id < y.id,
         Pembuka(y) => Pasangan(K, y.barang, y.ruang) = {}
  PROVE  AwalPertama(K \cup {y})
<1>1. ASSUME NEW k \in K, Pembuka(k), NEW l \in Pasangan(K \cup {y}, k.barang, k.ruang)
      PROVE  k.id <= l.id
  <2>1. CASE l = y
    <3>1. k \in Pasangan(K, y.barang, y.ruang)
      BY <2>1 DEF Pasangan
    <3>2. QED BY <2>1, <3>1
  <2>2. CASE l # y
    <3>1. l \in Pasangan(K, k.barang, k.ruang)
      BY <2>2 DEF Pasangan
    <3>2. QED BY <1>1, <3>1 DEF AwalPertama
  <2>3. QED BY <2>1, <2>2
<1>2. ASSUME Pembuka(y), NEW l \in Pasangan(K \cup {y}, y.barang, y.ruang)
      PROVE  y.id <= l.id
  <2>1. l = y
    BY <1>2 DEF Pasangan
  <2>2. QED BY <2>1
<1>3. QED BY <1>1, <1>2 DEF AwalPertama

LEMMA AwalGabung ==
  ASSUME NEW K, NEW T, NEW U, AwalPertama(K \cup T), AwalPertama(K \cup U),
         \A k \in T, l \in U : ~(k.barang = l.barang /\ k.ruang = l.ruang)
  PROVE  AwalPertama(K \cup T \cup U)
<1> SUFFICES ASSUME NEW k \in K \cup T \cup U, Pembuka(k),
                    NEW l \in Pasangan(K \cup T \cup U, k.barang, k.ruang)
             PROVE  k.id <= l.id
  BY DEF AwalPertama
<1>1. CASE Pasangan(U, k.barang, k.ruang) = {}
  <2>1. k \in K \cup T
    BY <1>1 DEF Pasangan
  <2>2. Pasangan(K \cup T \cup U, k.barang, k.ruang) = Pasangan(K \cup T, k.barang, k.ruang)
    BY <1>1 DEF Pasangan
  <2>3. QED BY <2>1, <2>2 DEF AwalPertama
<1>2. CASE Pasangan(T, k.barang, k.ruang) = {}
  <2>1. k \in K \cup U
    BY <1>2 DEF Pasangan
  <2>2. Pasangan(K \cup T \cup U, k.barang, k.ruang) = Pasangan(K \cup U, k.barang, k.ruang)
    BY <1>2 DEF Pasangan
  <2>3. QED BY <2>1, <2>2 DEF AwalPertama
<1>3. Pasangan(U, k.barang, k.ruang) = {} \/ Pasangan(T, k.barang, k.ruang) = {}
  BY DEF Pasangan
<1>4. QED BY <1>1, <1>2, <1>3

LEMMA AwalInduktif ==
  ASSUME IInv, JInv, KInv, SInv, AwalInv, [Next]_vars
  PROVE  AwalInv'
<1>1. CASE kartu' = kartu /\ \A u \in Sesi : tulis'[u] \in {tulis[u], {}}
  <2>1. \A u \in Sesi : AwalPertama(kartu \cup tulis'[u])
    <3> TAKE u \in Sesi
    <3>1. tulis'[u] = tulis[u] \/ kartu \cup tulis'[u] = kartu
      BY <1>1
    <3>2. QED BY <3>1 DEF AwalInv
  <2>2. QED BY <1>1, <2>1 DEF AwalInv, AwalPertama
<1>2. ASSUME NEW t \in Sesi, kartu' = kartu, pc[t] = "trg_saldo",
             tulis'[t] = tulis[t] \cup {BarisTrigger(t)},
             \A u \in Sesi : u # t => tulis'[u] = tulis[u]
      PROVE  AwalInv'
  <2>1. PICK y : y = BarisTrigger(t)
    OBVIOUS
  <2>2. PICK K : K = kartu \cup tulis[t]
    OBVIOUS
  <2>3. AwalPertama(K) /\ \A k \in K : k.id \in Nat
    BY <2>2, IdAlami DEF AwalInv, IInv
  <2>4. /\ y.id \in Nat /\ \A k \in Pasangan(K, y.barang, y.ruang) : k.id < y.id
        /\ Pembuka(y) => Pasangan(K, y.barang, y.ruang) = {}
    BY <1>2, <2>1, <2>2, BarisTriggerBenar DEF Pembuka
  <2>5. AwalPertama(K \cup {y})
    BY <2>3, <2>4, AwalTambah
  <2>6. kartu \cup tulis'[t] = K \cup {y}
    BY <1>2, <2>1, <2>2
  <2>7. \A u \in Sesi : AwalPertama(kartu \cup tulis'[u])
    BY <1>2, <2>5, <2>6 DEF AwalInv
  <2>8. QED BY <1>2, <2>7 DEF AwalInv, AwalPertama
<1>3. ASSUME NEW t \in Sesi, kartu' = kartu \cup tulis[t], tulis'[t] = {},
             \A u \in Sesi : u # t => tulis'[u] = tulis[u]
      PROVE  AwalInv'
  <2>1. AwalPertama(kartu \cup tulis[t])
    BY DEF AwalInv
  <2>2. \A u \in Sesi : AwalPertama(kartu \cup tulis[t] \cup tulis'[u])
    <3> TAKE u \in Sesi
    <3>1. CASE u = t
      <4>1. kartu \cup tulis[t] \cup tulis'[u] = kartu \cup tulis[t]
        BY <1>3, <3>1
      <4>2. QED BY <2>1, <4>1
    <3>2. CASE u # t
      <4>1. AwalPertama(kartu \cup tulis[t] \cup tulis[u])
        BY <3>2, TulisTerpisah, AwalGabung DEF AwalInv
      <4>2. QED BY <1>3, <3>2, <4>1
    <3>3. QED BY <3>1, <3>2
  <2>3. QED BY <1>3, <2>1, <2>2 DEF AwalInv, AwalPertama
<1>4. QED BY <1>1, <1>2, <1>3, PerubahanKartu

LEMMA AwalMula ==
  ASSUME Init, SaldoAwalPertama
  PROVE  AwalInv
<1>1. \A u \in Sesi : kartu \cup tulis[u] = kartu
  BY DEF Init
<1>2. AwalPertama(kartu)
  BY DEF SaldoAwalPertama, AwalPertama, Pembuka
<1>3. QED BY <1>1, <1>2 DEF AwalInv

\* Under the same condition an opening balance stays the first row of its
\* pair: the handler looks for rows when nobody else can write one.
THEOREM SaldoAwalSelaluPertama ==
  ASSUME TerkunciDulu
  PROVE  Spec /\ SaldoAwalPertama => []SaldoAwalPertama
<1>1. AwalInv => SaldoAwalPertama
  BY DEF AwalInv, AwalPertama, Pembuka, SaldoAwalPertama
<1>2. IInv /\ JInv /\ KInv /\ SInv /\ [Next]_vars => SInv'
  BY SaldoInduktif
<1>3. IInv /\ JInv /\ KInv /\ SInv /\ AwalInv /\ [Next]_vars => AwalInv'
  BY AwalInduktif
<1>4. Init /\ SaldoAwalPertama => AwalInv
  BY AwalMula
<1>5. Spec /\ SaldoAwalPertama => []AwalInv
  BY <1>2, <1>3, <1>4, AwalBenar, Induktif, DokumenAwal, DokumenInduktif, KartuAwalBenar,
     KartuInduktif, SaldoAwalBenar, PTL DEF Spec
<1>6. QED BY <1>1, <1>5, PTL

-----------------------------------------------------------------------------
(* The serial ledger: what the rows a transaction has written add up to is *)
(* what it moves the balances by.                                          *)

\* Rows of other pairs do not matter.
LEMMA SaldoPasangan ==
  ASSUME NEW K, NEW L, NEW b, NEW r, Pasangan(K, b, r) = Pasangan(L, b, r)
  PROVE  SaldoTerakhir(K, b, r) = SaldoTerakhir(L, b, r)
BY DEF SaldoTerakhir, Terakhir

\* A row newer than those of its pair is where the balance of the pair is read.
LEMMA SaldoBaris ==
  ASSUME NEW K, \A k \in K : k.id \in Nat, NEW y, y.id \in Nat,
         \A k \in Pasangan(K, y.barang, y.ruang) : k.id < y.id, NEW b, NEW r
  PROVE  SaldoTerakhir(K \cup {y}, b, r)
           = IF y.barang = b /\ y.ruang = r THEN y.akhir ELSE SaldoTerakhir(K, b, r)
<1>1. CASE y.barang = b /\ y.ruang = r
  <2>1. PICK P : P = Pasangan(K \cup {y}, b, r)
    OBVIOUS
  <2>2. y \in P /\ \A l \in P : l = y \/ l \in Pasangan(K, y.barang, y.ruang)
    BY <1>1, <2>1 DEF Pasangan
  <2>3. \A l \in P : l.id \in Nat /\ (l = y \/ l.id < y.id)
    BY <2>2 DEF Pasangan
  <2>4. \A l \in P : l.id <= y.id
    BY <2>3
  <2>5. \A k \in P : y.id <= k.id => k = y
    BY <2>3
  <2>6. Terakhir(K \cup {y}, b, r) = {k \in P : \A l \in P : l.id <= k.id}
    BY <2>1 DEF Terakhir
  <2>7. {k \in P : \A l \in P : l.id <= k.id} = {y}
    BY <2>2, <2>4, <2>5
  <2>8. (CHOOSE k \in {y} : TRUE) = y
    OBVIOUS
  <2>9. Terakhir(K \cup {y}, b, r) = {y}
    BY <2>6, <2>7
  <2>10. SaldoTerakhir(K \cup {y}, b, r) = y.akhir
    BY <2>8, <2>9 DEF SaldoTerakhir
  <2>11. QED BY <1>1, <2>10
<1>2. CASE ~(y.barang = b /\ y.ruang = r)
  <2>1. Pasangan(K \cup {y}, b, r) = Pasangan(K, b, r)
    BY <1>2 DEF Pasangan
  <2>2. SaldoTerakhir(K \cup {y}, b, r) = SaldoTerakhir(K, b, r)
    BY <2>1, SaldoPasangan
  <2>3. QED BY <1>2, <2>2
<1>3. QED BY <1>1, <1>2

\* What a session's rows leave in a pair is the committed balance and what
\* they add up to.
BukuInv ==
  \A u \in Sesi : \A b \in Barang, r \in Ruang :
    SaldoTerakhir(kartu \cup tulis[u], b, r) = SaldoTerakhir(kartu, b, r) + Neto(tulis[u], b, r)

\* A row starts from the balance its session holds the pair of, so it adds
\* to it what it moves; the rows of others are committed in pairs they hold.
LEMMA BukuInduktif ==
  ASSUME IInv, JInv, KInv, SInv, BukuInv, [Next]_vars
  PROVE  BukuInv'
<1>1. SUFFICES ASSUME NEW u \in Sesi, NEW b \in Barang, NEW r \in Ruang
               PROVE  SaldoTerakhir(kartu' \cup tulis'[u], b, r)
                        = SaldoTerakhir(kartu', b, r) + Neto(tulis'[u], b, r)
  BY DEF BukuInv, Neto, Pasangan, SaldoTerakhir, Terakhir
<1>2. kartu' \subseteq BarisKartu /\ kartu \subseteq BarisKartu
  BY TipeTerjaga DEF IInv, TypeOK, TipeData
<1>3. SaldoTerakhir(kartu', b, r) \in Nat /\ SaldoTerakhir(kartu, b, r) \in Nat
  BY <1>2, TipeSaldo
<1>4. CASE tulis'[u] = {}
  <2>1. kartu' \cup tulis'[u] = kartu'
    BY <1>4
  <2>2. QED BY <1>3, <1>4, <2>1, NetoKosong
<1>5. CASE kartu' = kartu /\ tulis'[u] = tulis[u]
  BY <1>5 DEF BukuInv
<1>6. ASSUME kartu' = kartu, pc[u] = "trg_saldo", tulis'[u] = tulis[u] \cup {BarisTrigger(u)}
      PROVE  SaldoTerakhir(kartu' \cup tulis'[u], b, r)
               = SaldoTerakhir(kartu', b, r) + Neto(tulis'[u], b, r)
  <2>1. PICK y : y = BarisTrigger(u)
    OBVIOUS
  <2>2. PICK K : K = kartu \cup tulis[u]
    OBVIOUS
  <2>3. /\ y.id \in Nat /\ y.awal = SaldoTerakhir(K, y.barang, y.ruang)
        /\ y.akhir = y.awal + y.masuk - y.keluar
        /\ \A k \in Pasangan(K, y.barang, y.ruang) : k.id < y.id
    BY <1>6, <2>1, <2>2, BarisTriggerBenar
  <2>4. \A k \in K : k.id \in Nat
    BY <2>2, IdAlami DEF IInv
  <2>5. y \notin tulis[u]
    <3>1. y \in K => y \in Pasangan(K, y.barang, y.ruang)
      BY DEF Pasangan
    <3>2. QED BY <2>2, <2>3, <3>1
  <2>6. pc[u] \in Menulis /\ pc[u] \in Pemicu
    BY <1>6 DEF Menulis, Pemicu
  <2>7. Terukur(tulis[u]) /\ Terukur(baris[u])
    BY <2>6, TerukurSesi
  <2>8. y.masuk \in Nat /\ y.keluar \in Nat
    <3>1. BarisBerikut(u) \in baris[u]
      BY <2>6, AdaBerikut
    <3>2. QED BY <2>1, <2>7, <3>1 DEF Terukur, BarisTrigger
  <2>9. PICK n : n = IF y.barang = b /\ y.ruang = r THEN y.masuk - y.keluar ELSE 0
    OBVIOUS
  <2>10. n \in Int
    BY <2>8, <2>9
  <2>10a. Neto(tulis[u] \cup {y}, b, r) = Neto(tulis[u], b, r) + n
    <3>1. Neto(tulis[u] \cup {y}, b, r) = Neto(tulis[u], b, r)
            + (IF y.barang = b /\ y.ruang = r THEN y.masuk - y.keluar ELSE 0)
      BY <2>5, <2>7, <2>8, NetoBaru
    <3>2. QED BY <2>9, <3>1
  <2>11. SaldoTerakhir(K, b, r) = SaldoTerakhir(kartu, b, r) + Neto(tulis[u], b, r)
    BY <2>2 DEF BukuInv
  <2>12. SaldoTerakhir(K \cup {y}, b, r)
           = IF y.barang = b /\ y.ruang = r THEN y.akhir ELSE SaldoTerakhir(K, b, r)
    BY <2>3, <2>4, SaldoBaris
  <2>13. Neto(tulis[u], b, r) \in Int
    BY <2>7, NetoBulat
  <2>14. SaldoTerakhir(K \cup {y}, b, r) = SaldoTerakhir(K, b, r) + n
    BY <1>3, <2>3, <2>8, <2>9, <2>11, <2>12, <2>13
  <2>15. kartu' \cup tulis'[u] = K \cup {y} /\ tulis'[u] = tulis[u] \cup {y}
    BY <1>6, <2>1, <2>2
  <2>16. SaldoTerakhir(K \cup {y}, b, r) = SaldoTerakhir(kartu, b, r) + Neto(tulis[u] \cup {y}, b, r)
    BY <1>3, <2>10, <2>10a, <2>11, <2>13, <2>14
  <2>17. QED BY <1>6, <2>15, <2>16
<1>7. ASSUME NEW t \in Sesi, u # t, kartu' = kartu \cup tulis[t], tulis'[u] = tulis[u]
      PROVE  SaldoTerakhir(kartu' \cup tulis'[u], b, r)
               = SaldoTerakhir(kartu', b, r) + Neto(tulis'[u], b, r)
  <2>1. PICK K : K = kartu'
    OBVIOUS
  <2>2. PICK T, U : T = tulis[t] /\ U = tulis[u]
    OBVIOUS
  <2>3. CASE Pasangan(T, b, r) = {}
    <3>1. Pasangan(K, b, r) = Pasangan(kartu, b, r)
          /\ Pasangan(K \cup U, b, r) = Pasangan(kartu \cup U, b, r)
      BY <1>7, <2>1, <2>2, <2>3 DEF Pasangan
    <3>2. SaldoTerakhir(K, b, r) = SaldoTerakhir(kartu, b, r)
          /\ SaldoTerakhir(K \cup U, b, r) = SaldoTerakhir(kartu \cup U, b, r)
      BY <3>1, SaldoPasangan
    <3>3. SaldoTerakhir(kartu \cup U, b, r) = SaldoTerakhir(kartu, b, r) + Neto(U, b, r)
      BY <2>2 DEF BukuInv
    <3>4. QED BY <1>7, <2>1, <2>2, <3>2, <3>3
  <2>4. CASE Pasangan(U, b, r) = {}
    <3>1. Pasangan(K \cup U, b, r) = Pasangan(K, b, r) /\ Pasangan(U, b, r) = Pasangan({}, b, r)
      BY <2>4 DEF Pasangan
    <3>2. SaldoTerakhir(K \cup U, b, r) = SaldoTerakhir(K, b, r)
      BY <3>1, SaldoPasangan
    <3>3. Neto(U, b, r) = 0
      BY <3>1, NetoKosong DEF Neto
    <3>4. QED BY <1>3, <1>7, <2>1, <2>2, <3>2, <3>3
  <2>5. Pasangan(T, b, r) = {} \/ Pasangan(U, b, r) = {}
    <3>1. SUFFICES ASSUME NEW k \in Pasangan(T, b, r), NEW l \in Pasangan(U, b, r) PROVE FALSE
      OBVIOUS
    <3>2. k \in tulis[t] /\ l \in tulis[u] /\ k.barang = l.barang /\ k.ruang = l.ruang
      BY <2>2 DEF Pasangan
    <3>3. QED BY <1>7, <3>2, TulisTerpisah
  <2>6. QED BY <2>3, <2>4, <2>5
<1>8. QED BY <1>4, <1>5, <1>6, <1>7, PerubahanKartu

\* Nobody has written yet.
LEMMA BukuMula == Init => BukuInv
<1> SUFFICES ASSUME Init, NEW u \in Sesi, NEW b \in Barang, NEW r \in Ruang
             PROVE  SaldoTerakhir(kartu \cup tulis[u], b, r)
                      = SaldoTerakhir(kartu, b, r) + Neto(tulis[u], b, r)
  BY DEF BukuInv
<1>1. tulis[u] = {} /\ kartu \cup tulis[u] = kartu
  BY DEF Init
<1>2. SaldoTerakhir(kartu, b, r) \in Nat
  BY AwalBenar, TipeSaldo DEF IInv, TypeOK
<1>3. QED BY <1>1, <1>2, NetoKosong

-----------------------------------------------------------------------------
(* What a document writes is what the serial ledger says it moves.         *)

\* The lines of document d that name product b.
BarisBarang(d, b) == {i \in DOMAIN Isi[d].baris : Isi[d].baris[i].barang = b}

\* A document's lines are finitely many, each with a quantity.
LEMMA BarisAda ==
  ASSUME NEW d \in Dokumen
  PROVE  /\ IsFiniteSet(DOMAIN Isi[d].baris)
         /\ \A i \in DOMAIN Isi[d].baris : i \in Nat /\ Isi[d].baris[i].qty \in Nat
         /\ \A b : IsFiniteSet(BarisBarang(d, b)) /\ BarisBarang(d, b) \subseteq DOMAIN Isi[d].baris
<1>1. PICK n \in Nat : DOMAIN Isi[d].baris = 1..n
  BY AsumsiStok DEF AsumsiStok, Dok
<1>2. IsFiniteSet(DOMAIN Isi[d].baris)
  BY <1>1, FS_Interval
<1>3. QED BY <1>2, TipeIsi, FS_Subset DEF BarisBarang

\* The library's sum of quantities, as a function's.
LEMMA QtyJml ==
  ASSUME NEW d, NEW J, IsFiniteSet(J), NEW g, \A i \in J : g[i] = Isi[d].baris[i].qty
  PROVE  Buku!Jumlah(J, LAMBDA i : Isi[d].baris[i].qty) = Jml(g, J)
<1> DEFINE G == CHOOSE G : G = [s \in SUBSET J |-> IF s = {} THEN 0
                   ELSE Isi[d].baris[CHOOSE x \in s : TRUE].qty + G[s \ {CHOOSE x \in s : TRUE}]]
<1>1. PICK F : Menjumlah(F, g, SUBSET J)
  BY PenjumlahAda
<1>2. \A s \in SUBSET J : s # {} => g[Ambil(s)] = Isi[d].baris[CHOOSE x \in s : TRUE].qty
  BY DEF Ambil
<1>3. F = [s \in SUBSET J |-> IF s = {} THEN 0
             ELSE Isi[d].baris[CHOOSE x \in s : TRUE].qty + F[s \ {CHOOSE x \in s : TRUE}]]
  BY <1>1, <1>2 DEF Ambil, Menjumlah
<1>4. G = [s \in SUBSET J |-> IF s = {} THEN 0
             ELSE Isi[d].baris[CHOOSE x \in s : TRUE].qty + G[s \ {CHOOSE x \in s : TRUE}]]
  BY <1>3
<1>5. Buku!Jumlah(J, LAMBDA i : Isi[d].baris[i].qty) = G[J]
  BY DEF Buku!Jumlah, Buku!MapThenSumSet, Buku!MapThenFoldSet
<1> HIDE DEF G
<1>6. Menjumlah(G, g, SUBSET J)
  BY <1>4, <1>2 DEF Menjumlah, Ambil
<1>7. QED BY <1>5, <1>6, JmlAdalah

\* Rows made of lines, one of each: n numbers them, m and k say how much
\* comes in and goes out.
Barisan(d, I, n, ru, m, k, g, S) ==
  /\ I \subseteq DOMAIN Isi[d].baris
  /\ \A i, j \in I : n[i] = n[j] => i = j
  /\ \A i \in I : m[i] \in Nat /\ k[i] \in Nat /\ g[i] = m[i] - k[i]
  /\ S = {Gerak(n[i], d, i, ru, m[i], k[i]) : i \in I}

\* The lines among I whose row, in room ru, is of the pair of b and r.
BarisDi(d, I, b, r, ru) == IF r = ru THEN I \cap BarisBarang(d, b) ELSE {}

\* Such rows add up, in a pair, to what their lines bring in and take out.
LEMMA NetoBaris ==
  ASSUME NEW d \in Dokumen, NEW I, NEW n, NEW ru, NEW m, NEW k, NEW g, NEW S,
         Barisan(d, I, n, ru, m, k, g, S), NEW b, NEW r
  PROVE  /\ Terukur(S)
         /\ Neto(S, b, r) = Jml(g, BarisDi(d, I, b, r, ru))
<1> USE DEF Barisan
<1>1. PICK h : h = [i \in I |-> Gerak(n[i], d, i, ru, m[i], k[i])]
  OBVIOUS
<1>2. \A i \in I : /\ h[i].no = n[i] /\ h[i].barang = Isi[d].baris[i].barang /\ h[i].ruang = ru
                   /\ h[i].masuk = m[i] /\ h[i].keluar = k[i]
  BY <1>1 DEF Gerak
<1>3. S = {h[i] : i \in I}
  BY <1>1
<1>4. \A i, j \in I : h[i] = h[j] => i = j
  BY <1>2
<1>5. PICK J : J = {i \in I : h[i].barang = b /\ h[i].ruang = r}
  OBVIOUS
<1>6. J = BarisDi(d, I, b, r, ru)
  BY <1>2, <1>5 DEF BarisBarang, BarisDi
<1>7. IsFiniteSet(I)
  BY BarisAda, FS_Subset
<1>8. Bernama(I, h, S)
  BY <1>2, <1>3, <1>4, <1>7 DEF Bernama
<1>9. Terpilih(I, h, b, r, J, g)
  BY <1>2, <1>5 DEF Terpilih
<1>10. Terukur(S) /\ Neto(S, b, r) = Jml(g, J)
  BY <1>8, <1>9, NetoCitra
<1>11. QED BY <1>6, <1>10

\* x in the room the rows are written in, nothing elsewhere.
Bila(r, ru, x) == IF r = ru THEN x ELSE 0

\* Every line comes in to room ru, or goes out of it.
Semua(d, n, ru, M, K) ==
  /\ \A i, j \in DOMAIN Isi[d].baris : n[i] = n[j] => i = j
  /\ M = {Gerak(n[i], d, i, ru, Isi[d].baris[i].qty, 0) : i \in DOMAIN Isi[d].baris}
  /\ K = {Gerak(n[i], d, i, ru, 0, Isi[d].baris[i].qty) : i \in DOMAIN Isi[d].baris}

\* Both kinds add up to the document's quantity of the product.
LEMMA NetoSemua ==
  ASSUME NEW d \in Dokumen, NEW n, NEW ru, NEW M, NEW K, Semua(d, n, ru, M, K),
         NEW b, NEW r, NEW q, \A i \in BarisBarang(d, b) : q[i] = Isi[d].baris[i].qty
  PROVE  /\ Terukur(M) /\ Terukur(K) /\ Jml(q, BarisBarang(d, b)) \in Int
         /\ Neto(M, b, r) = Bila(r, ru, Jml(q, BarisBarang(d, b)))
         /\ Neto(K, b, r) = Bila(r, ru, -Jml(q, BarisBarang(d, b)))
<1> USE DEF Semua
<1>1. PICK D, J : D = DOMAIN Isi[d].baris /\ J = BarisBarang(d, b)
  OBVIOUS
<1>2. PICK w, o, v : /\ w = [i \in D |-> Isi[d].baris[i].qty] /\ o = [i \in D |-> 0]
                     /\ v = [i \in D |-> -Isi[d].baris[i].qty]
  OBVIOUS
<1>3. /\ J \subseteq D /\ D \cap J = J /\ IsFiniteSet(J)
      /\ \A i \in D : Isi[d].baris[i].qty \in Nat
  BY <1>1, BarisAda
<1>4. /\ \A i \in D : w[i] \in Nat /\ o[i] \in Nat
      /\ \A i \in D : w[i] = w[i] - o[i]
      /\ \A i \in D : v[i] = o[i] - w[i]
      /\ \A i \in J : q[i] = w[i] /\ w[i] \in Int
  BY <1>1, <1>2, <1>3
<1>5. M = {Gerak(n[i], d, i, ru, w[i], o[i]) : i \in D}
  BY <1>1, <1>2
<1>6. K = {Gerak(n[i], d, i, ru, o[i], w[i]) : i \in D}
  BY <1>1, <1>2
<1>7. Barisan(d, D, n, ru, w, o, w, M) /\ Barisan(d, D, n, ru, o, w, v, K)
  BY <1>1, <1>4, <1>5, <1>6 DEF Barisan
<1>8. Terukur(M) /\ Neto(M, b, r) = Jml(w, BarisDi(d, D, b, r, ru))
  BY <1>7, NetoBaris
<1>9. Terukur(K) /\ Neto(K, b, r) = Jml(v, BarisDi(d, D, b, r, ru))
  BY <1>7, NetoBaris
<1>10. Jml(q, J) = Jml(w, J)
  BY <1>3, <1>4, JmlSama
<1>11. Jml(w, J) \in Int
  BY <1>3, <1>4, JmlBulat
<1>12. Jml(v, J) = -Jml(w, J)
  <2>1. PICK c \in Int : c = -1
    OBVIOUS
  <2>2. \A i \in J : w[i] \in Int /\ v[i] = c * w[i]
    BY <1>3, <1>4, <2>1
  <2>3. Jml(v, J) = c * Jml(w, J)
    BY <1>3, <2>2, JmlKali
  <2>4. QED BY <1>11, <2>1, <2>3
<1>13. BarisDi(d, D, b, r, ru) = IF r = ru THEN J ELSE {}
  BY <1>1, <1>3 DEF BarisDi
<1>14. QED BY <1>1, <1>8, <1>9, <1>10, <1>11, <1>12, <1>13, JmlKosong DEF Bila

\* What the serial ledger says document d moves, case by case.
EfekKasus(d, p, x) ==
  CASE Isi[d].jenis = "mutasi" -> (IF p[2] = Isi[d].tujuan THEN x ELSE 0)
                                  - (IF p[2] = Isi[d].ruang THEN x ELSE 0)
    [] Isi[d].jenis \in Keluaran -> IF p[2] = Isi[d].ruang THEN -x ELSE 0
    [] Isi[d].jenis = "stok_opname" ->
         IF p[2] = Isi[d].ruang /\ BarisBarang(d, p[1]) # {} /\ sistem[d][p[1]] >= 0
         THEN x - sistem[d][p[1]] ELSE 0
    [] OTHER -> IF p[2] = Isi[d].ruang THEN x ELSE 0

\* The document's effect of the ledger is the case that applies.
LEMMA EfekJml ==
  ASSUME NEW d \in Dokumen, NEW p \in Barang \X Ruang, NEW q,
         \A i \in BarisBarang(d, p[1]) : q[i] = Isi[d].baris[i].qty
  PROVE  Buku!EfekDari(d)[p] = EfekKasus(d, p, Jml(q, BarisBarang(d, p[1])))
<1>1. PICK J : J = {i \in DOMAIN Isi[d].baris : Isi[d].baris[i].barang = p[1]}
  OBVIOUS
<1>2. J = BarisBarang(d, p[1]) /\ IsFiniteSet(J)
  BY <1>1, BarisAda DEF BarisBarang
<1>3. Buku!Jumlah(J, LAMBDA i : Isi[d].baris[i].qty) = Jml(q, J)
  BY <1>2, QtyJml
<1>4. PICK y : y = Buku!Jumlah({i \in DOMAIN Isi[d].baris : Isi[d].baris[i].barang = p[1]},
                               LAMBDA i : Isi[d].baris[i].qty)
  OBVIOUS
<1>5. y = Jml(q, BarisBarang(d, p[1]))
  BY <1>1, <1>2, <1>3, <1>4
<1>5a. y \in Int
  BY <1>2, <1>5, TipeIsi, BarisAda, JmlBulat
<1>6. Buku!Tempat = Barang \X Ruang
  BY DEF Buku!Tempat
<1>7. CASE Isi[d].jenis = "mutasi"
  <2>1. Buku!EfekDari(d)[p] = (IF p[2] = Isi[d].tujuan THEN y ELSE 0)
                              - (IF p[2] = Isi[d].ruang THEN y ELSE 0)
    BY <1>4, <1>6, <1>7 DEF Buku!EfekDari
  <2>2. EfekKasus(d, p, y) = (IF p[2] = Isi[d].tujuan THEN y ELSE 0)
                             - (IF p[2] = Isi[d].ruang THEN y ELSE 0)
    BY <1>5a, <1>7, SMT DEF EfekKasus, Keluaran
  <2>3. QED BY <1>5, <2>1, <2>2
<1>8. CASE Isi[d].jenis \in Keluaran
  <2>1. Buku!EfekDari(d)[p] = IF p[2] = Isi[d].ruang THEN -y ELSE 0
    BY <1>4, <1>6, <1>8 DEF Buku!EfekDari, Keluaran
  <2>2. QED BY <1>5, <1>8, <2>1 DEF EfekKasus, Keluaran
<1>9. CASE Isi[d].jenis = "stok_opname"
  <2>1. Buku!EfekDari(d)[p] = IF p[2] = Isi[d].ruang /\ J # {} /\ sistem[d][p[1]] >= 0
                              THEN y - sistem[d][p[1]] ELSE 0
    BY <1>1, <1>4, <1>6, <1>9 DEF Buku!EfekDari
  <2>2. QED BY <1>2, <1>5, <1>9, <2>1 DEF EfekKasus, Keluaran
<1>10. CASE Isi[d].jenis \notin Keluaran \cup {"mutasi", "stok_opname"}
  <2>1. Buku!EfekDari(d)[p] = IF p[2] = Isi[d].ruang THEN y ELSE 0
    BY <1>4, <1>6, <1>10 DEF Buku!EfekDari, Keluaran
  <2>2. QED BY <1>5, <1>10, <2>1 DEF EfekKasus, Keluaran
<1>11. QED BY <1>7, <1>8, <1>9, <1>10

\* Documents that only bring in, or only take out.
LEMMA NetoMasukKeluar ==
  ASSUME NEW d \in Dokumen, NEW p \in Barang \X Ruang, NEW q,
         \A i \in BarisBarang(d, p[1]) : q[i] = Isi[d].baris[i].qty
  PROVE  /\ Terukur(BarisMasuk(d)) /\ Terukur(BarisKeluar(d))
         /\ Neto(BarisMasuk(d), p[1], p[2]) = Bila(p[2], Isi[d].ruang, Jml(q, BarisBarang(d, p[1])))
         /\ Neto(BarisKeluar(d), p[1], p[2]) = Bila(p[2], Isi[d].ruang, -Jml(q, BarisBarang(d, p[1])))
<1>1. PICK n : n = [i \in DOMAIN Isi[d].baris |-> i]
  OBVIOUS
<1>2. Semua(d, n, Isi[d].ruang, BarisMasuk(d), BarisKeluar(d))
  BY <1>1 DEF Semua, BarisMasuk, BarisKeluar
<1>3. QED BY <1>2, NetoSemua

\* A transfer takes out of one room what it brings in to the other.
LEMMA NetoMutasi ==
  ASSUME NEW d \in Dokumen, NEW p \in Barang \X Ruang, NEW q,
         \A i \in BarisBarang(d, p[1]) : q[i] = Isi[d].baris[i].qty
  PROVE  /\ Terukur(BarisMutasi(d))
         /\ Neto(BarisMutasi(d), p[1], p[2]) = Bila(p[2], Isi[d].tujuan, Jml(q, BarisBarang(d, p[1])))
                                             + Bila(p[2], Isi[d].ruang, -Jml(q, BarisBarang(d, p[1])))
<1>1. PICK D, n, m : /\ D = DOMAIN Isi[d].baris
                     /\ n = [i \in D |-> 2 * i] /\ m = [i \in D |-> 2 * i + 1]
  OBVIOUS
<1>2. PICK A, K : /\ A = {Gerak(n[i], d, i, Isi[d].ruang, Isi[d].baris[i].qty, 0) : i \in DOMAIN Isi[d].baris}
                  /\ K = {Gerak(n[i], d, i, Isi[d].ruang, 0, Isi[d].baris[i].qty) : i \in DOMAIN Isi[d].baris}
  OBVIOUS
<1>3. PICK M, B : /\ M = {Gerak(m[i], d, i, Isi[d].tujuan, Isi[d].baris[i].qty, 0) : i \in DOMAIN Isi[d].baris}
                  /\ B = {Gerak(m[i], d, i, Isi[d].tujuan, 0, Isi[d].baris[i].qty) : i \in DOMAIN Isi[d].baris}
  OBVIOUS
<1>4. \A i \in D : i \in Nat
  BY <1>1, BarisAda
<1>5. Semua(d, n, Isi[d].ruang, A, K)
  BY <1>1, <1>2, <1>4 DEF Semua
<1>6. Semua(d, m, Isi[d].tujuan, M, B)
  BY <1>1, <1>3, <1>4 DEF Semua
<1>7. Terukur(K) /\ Neto(K, p[1], p[2]) = Bila(p[2], Isi[d].ruang, -Jml(q, BarisBarang(d, p[1])))
  BY <1>5, NetoSemua
<1>8. /\ Terukur(M) /\ Jml(q, BarisBarang(d, p[1])) \in Int
      /\ Neto(M, p[1], p[2]) = Bila(p[2], Isi[d].tujuan, Jml(q, BarisBarang(d, p[1])))
  BY <1>6, NetoSemua
<1>9. K \cap M = {}
  <2>1. \A k \in K : \E i \in D : k.no = 2 * i
    BY <1>1, <1>2 DEF Gerak
  <2>2. \A k \in M : \E i \in D : k.no = 2 * i + 1
    BY <1>1, <1>3 DEF Gerak
  <2>3. \A i, j \in D : 2 * i # 2 * j + 1
    BY <1>4
  <2>4. QED BY <2>1, <2>2, <2>3
<1>10. BarisMutasi(d) = K \cup M
  BY <1>1, <1>2, <1>3 DEF BarisMutasi
<1>11. /\ Terukur(K \cup M)
       /\ Neto(K \cup M, p[1], p[2]) = Neto(K, p[1], p[2]) + Neto(M, p[1], p[2])
  BY <1>7, <1>8, <1>9, NetoGabung
<1>12. QED BY <1>7, <1>8, <1>10, <1>11 DEF Bila

\* A sum over the lines that name a product, when only one does.
LEMMA JmlSatu ==
  ASSUME NEW f, NEW x, f[x] \in Int
  PROVE  Jml(f, {x}) = f[x]
<1>1. IsFiniteSet({x}) /\ \A y \in {x} : f[y] \in Int
  BY FS_Singleton
<1>2. x \in {x} /\ {x} \ {x} = {}
  OBVIOUS
<1>3. Jml(f, {x}) = f[x] + Jml(f, {x} \ {x})
  BY <1>1, <1>2, JmlAmbil
<1>4. QED BY <1>2, <1>3, JmlKosong

\* The counted lines of a count, those above what was pulled and those below.
LEMMA NetoOpname ==
  ASSUME TypeOK, NEW d \in Dokumen, Isi[d].jenis = "stok_opname", NEW p \in Barang \X Ruang, NEW q,
         \A i \in BarisBarang(d, p[1]) : q[i] = Isi[d].baris[i].qty
  PROVE  /\ Terukur(BarisOpname(d))
         /\ Neto(BarisOpname(d), p[1], p[2])
              = IF p[2] = Isi[d].ruang /\ BarisBarang(d, p[1]) # {} /\ sistem[d][p[1]] >= 0
                THEN Jml(q, BarisBarang(d, p[1])) - sistem[d][p[1]] ELSE 0
<1>1. PICK D, J, b, r, ru, T : /\ D = DOMAIN Isi[d].baris /\ J = BarisBarang(d, p[1])
                            /\ b = p[1] /\ r = p[2] /\ ru = Isi[d].ruang /\ T = Terhitung(d)
  OBVIOUS
<1>2. PICK s, w, n, o : /\ s = [i \in D |-> sistem[d][Isi[d].baris[i].barang]]
                     /\ w = [i \in D |-> Isi[d].baris[i].qty]
                     /\ n = [i \in D |-> i] /\ o = [i \in D |-> 0]
  OBVIOUS
<1>3. \A i \in D : s[i] \in Int /\ w[i] \in Nat
  <2>1. sistem[d] \in [Barang -> Int]
    BY DEF TypeOK
  <2>2. QED BY <1>1, <1>2, <2>1, TipeIsi
<1>4. PICK g, h : g = [i \in D |-> w[i] - s[i]] /\ h = [i \in D |-> s[i] - w[i]]
  OBVIOUS
<1>5. T = {i \in D : s[i] >= 0}
  BY <1>1, <1>2 DEF Terhitung, TerhitungDari
<1>6. PICK X, Y : X = {i \in T : w[i] > s[i]} /\ Y = {i \in T : w[i] < s[i]}
  OBVIOUS
<1>7. PICK A, B : /\ A = {Gerak(n[i], d, i, ru, g[i], o[i]) : i \in X}
                  /\ B = {Gerak(n[i], d, i, ru, o[i], h[i]) : i \in Y}
  OBVIOUS
<1>8. BarisOpname(d) = A \cup B
  <2>1. A = {Gerak(i, d, i, Isi[d].ruang, Isi[d].baris[i].qty - sistem[d][Isi[d].baris[i].barang], 0) : i \in X}
    BY <1>1, <1>2, <1>4, <1>5, <1>6, <1>7
  <2>2. B = {Gerak(i, d, i, Isi[d].ruang, 0, sistem[d][Isi[d].baris[i].barang] - Isi[d].baris[i].qty) : i \in Y}
    BY <1>1, <1>2, <1>4, <1>5, <1>6, <1>7
  <2>3. /\ X = {j \in TerhitungDari(d, sistem[d]) : Isi[d].baris[j].qty > sistem[d][Isi[d].baris[j].barang]}
        /\ Y = {j \in TerhitungDari(d, sistem[d]) : Isi[d].baris[j].qty < sistem[d][Isi[d].baris[j].barang]}
    BY <1>1, <1>2, <1>5, <1>6 DEF Terhitung
  <2>4. QED BY <2>1, <2>2, <2>3 DEF BarisOpname, BarisOpnameDari
<1>8a. X \subseteq D /\ Y \subseteq D /\ X \cap Y = {}
  BY <1>3, <1>5, <1>6
<1>8b. \A i \in D : n[i] = i /\ o[i] = 0 /\ g[i] = w[i] - s[i] /\ h[i] = s[i] - w[i]
  BY <1>2, <1>4
<1>8c. \A i \in X : w[i] > s[i]
  BY <1>6
<1>8d. \A i \in Y : w[i] < s[i]
  BY <1>6
<1>9. Barisan(d, X, n, ru, g, o, g, A)
  <2>1. \A i \in X : g[i] \in Nat /\ o[i] \in Nat /\ g[i] = g[i] - o[i]
    BY <1>3, <1>8a, <1>8b, <1>8c
  <2>2. \A i, j \in X : n[i] = n[j] => i = j
    BY <1>8a, <1>8b
  <2>3. QED BY <1>1, <1>7, <1>8a, <2>1, <2>2 DEF Barisan
<1>10. Barisan(d, Y, n, ru, o, h, g, B)
  <2>1. \A i \in Y : o[i] \in Nat /\ h[i] \in Nat /\ g[i] = o[i] - h[i]
    BY <1>3, <1>8a, <1>8b, <1>8d
  <2>2. \A i, j \in Y : n[i] = n[j] => i = j
    BY <1>8a, <1>8b
  <2>3. QED BY <1>1, <1>7, <1>8a, <2>1, <2>2 DEF Barisan
<1>11. Terukur(A) /\ Neto(A, b, r) = Jml(g, BarisDi(d, X, b, r, ru))
  BY <1>9, NetoBaris
<1>12. Terukur(B) /\ Neto(B, b, r) = Jml(g, BarisDi(d, Y, b, r, ru))
  BY <1>10, NetoBaris
<1>13. A \cap B = {}
  <2>1. \A k \in A : k.no \in X
    BY <1>7, <1>8a, <1>8b DEF Gerak
  <2>2. \A k \in B : k.no \in Y
    BY <1>7, <1>8a, <1>8b DEF Gerak
  <2>3. QED BY <1>8a, <2>1, <2>2
<1>14. Terukur(A \cup B) /\ Neto(A \cup B, b, r) = Neto(A, b, r) + Neto(B, b, r)
  BY <1>11, <1>12, <1>13, NetoGabung
<1>15. \A i, j \in J : i = j
  <2>1. \A i, j \in D : Isi[d].baris[i].barang = Isi[d].baris[j].barang => i = j
    BY <1>1, AsumsiStok DEF AsumsiStok
  <2>2. QED BY <1>1, <2>1 DEF BarisBarang
<1>16. J \subseteq D /\ \A i \in J : s[i] = sistem[d][b]
  BY <1>1, <1>2 DEF BarisBarang
<1>17. CASE r # ru \/ J = {}
  <2>1. BarisDi(d, X, b, r, ru) = {} /\ BarisDi(d, Y, b, r, ru) = {}
    BY <1>1, <1>17 DEF BarisDi
  <2>2. QED BY <1>1, <1>8, <1>11, <1>12, <1>14, <1>17, <2>1, JmlKosong
<1>18. CASE r = ru /\ J # {}
  <2>1. PICK j : J = {j} /\ j \in D
    BY <1>15, <1>16, <1>18
  <2>2. PICK P, Q : P = X \cap {j} /\ Q = Y \cap {j}
    OBVIOUS
  <2>2a. BarisDi(d, X, b, r, ru) = P /\ BarisDi(d, Y, b, r, ru) = Q
    BY <1>1, <1>18, <2>1, <2>2 DEF BarisDi
  <2>2b. Neto(A \cup B, b, r) = Jml(g, P) + Jml(g, Q)
    BY <1>11, <1>12, <1>14, <2>2a
  <2>3. s[j] = sistem[d][b] /\ s[j] \in Int /\ w[j] \in Nat /\ g[j] = w[j] - s[j] /\ q[j] = w[j]
    BY <1>1, <1>2, <1>3, <1>4, <1>16, <2>1
  <2>4. Jml(q, J) = w[j]
    <3>1. q[j] \in Int
      BY <2>3
    <3>2. Jml(q, {j}) = q[j]
      BY <3>1, JmlSatu
    <3>3. QED BY <2>1, <2>3, <3>2
  <2>5. Jml(g, {j}) = w[j] - s[j] /\ w[j] - s[j] \in Int /\ Jml(g, {}) = 0
    <3>1. g[j] \in Int
      BY <2>3
    <3>2. Jml(g, {j}) = g[j]
      BY <3>1, JmlSatu
    <3>3. Jml(g, {}) = 0
      BY JmlKosong
    <3>4. QED BY <2>3, <3>1, <3>2, <3>3
  <2>6. CASE j \in X
    <3>1. P = {j} /\ Q = {} /\ s[j] >= 0
      BY <1>3, <1>5, <1>6, <2>2, <2>6
    <3>2. Jml(g, P) + Jml(g, Q) = w[j] - s[j]
      BY <2>5, <3>1
    <3>3. QED BY <1>1, <1>8, <1>14, <1>18, <2>2b, <2>3, <2>4, <3>1, <3>2
  <2>7. CASE j \in Y
    <3>1. P = {} /\ Q = {j} /\ s[j] >= 0
      BY <1>3, <1>5, <1>6, <2>2, <2>7
    <3>2. Jml(g, P) + Jml(g, Q) = w[j] - s[j]
      BY <2>5, <3>1
    <3>3. QED BY <1>1, <1>8, <1>14, <1>18, <2>2b, <2>3, <2>4, <3>1, <3>2
  <2>8. CASE j \notin X /\ j \notin Y
    <3>1. P = {} /\ Q = {} /\ (s[j] >= 0 => w[j] = s[j])
      BY <1>3, <1>5, <1>6, <2>1, <2>2, <2>8
    <3>2. Jml(g, P) + Jml(g, Q) = 0
      BY <2>5, <3>1
    <3>3. QED BY <1>1, <1>8, <1>14, <1>18, <2>2b, <2>3, <2>4, <3>1, <3>2
  <2>9. QED BY <2>6, <2>7, <2>8
<1>19. QED BY <1>17, <1>18

\* Of each kind, what posting a document writes is its effect.
LEMMA NetoPosting ==
  ASSUME TypeOK, NEW d \in Dokumen, NEW p \in Barang \X Ruang
  PROVE  /\ Terukur(BarisPosting(d, sistem[d]))
         /\ Neto(BarisPosting(d, sistem[d]), p[1], p[2]) = Buku!EfekDari(d)[p]
<1>1. PICK q : q = [i \in BarisBarang(d, p[1]) |-> Isi[d].baris[i].qty]
  OBVIOUS
<1>2. \A i \in BarisBarang(d, p[1]) : q[i] = Isi[d].baris[i].qty
  BY <1>1
<1>3. PICK x : x = Jml(q, BarisBarang(d, p[1]))
  OBVIOUS
<1>4. x \in Int
  BY <1>2, <1>3, BarisAda, JmlBulat
<1>5. Buku!EfekDari(d)[p] = EfekKasus(d, p, x)
  BY <1>2, <1>3, EfekJml
<1>6. CASE Isi[d].jenis = "mutasi"
  <2>1. /\ Terukur(BarisMutasi(d))
        /\ Neto(BarisMutasi(d), p[1], p[2]) = Bila(p[2], Isi[d].tujuan, x) + Bila(p[2], Isi[d].ruang, -x)
    BY <1>2, <1>3, NetoMutasi
  <2>2. EfekKasus(d, p, x) = Bila(p[2], Isi[d].tujuan, x) + Bila(p[2], Isi[d].ruang, -x)
    BY <1>4, <1>6, SMT DEF EfekKasus, Bila, Keluaran
  <2>3. BarisPosting(d, sistem[d]) = BarisMutasi(d)
    BY <1>6 DEF BarisPosting, Keluaran
  <2>4. QED BY <1>5, <2>1, <2>2, <2>3
<1>7. CASE Isi[d].jenis \in Keluaran
  <2>1. /\ Terukur(BarisKeluar(d))
        /\ Neto(BarisKeluar(d), p[1], p[2]) = Bila(p[2], Isi[d].ruang, -x)
    BY <1>2, <1>3, NetoMasukKeluar
  <2>2. EfekKasus(d, p, x) = Bila(p[2], Isi[d].ruang, -x)
    BY <1>4, <1>7, SMT DEF EfekKasus, Bila, Keluaran
  <2>3. BarisPosting(d, sistem[d]) = BarisKeluar(d)
    BY <1>7 DEF BarisPosting, Keluaran
  <2>4. QED BY <1>5, <2>1, <2>2, <2>3
<1>8. CASE Isi[d].jenis = "stok_opname"
  <2>1. /\ Terukur(BarisOpname(d))
        /\ Neto(BarisOpname(d), p[1], p[2]) =
             IF p[2] = Isi[d].ruang /\ BarisBarang(d, p[1]) # {} /\ sistem[d][p[1]] >= 0
             THEN x - sistem[d][p[1]] ELSE 0
    BY <1>2, <1>3, <1>8, NetoOpname
  <2>2. EfekKasus(d, p, x) =
             IF p[2] = Isi[d].ruang /\ BarisBarang(d, p[1]) # {} /\ sistem[d][p[1]] >= 0
             THEN x - sistem[d][p[1]] ELSE 0
    BY <1>4, <1>8, SMT DEF EfekKasus, Keluaran
  <2>3. BarisPosting(d, sistem[d]) = BarisOpname(d)
    BY <1>8 DEF BarisPosting, BarisOpname, Keluaran
  <2>4. QED BY <1>5, <2>1, <2>2, <2>3
<1>9. CASE Isi[d].jenis \notin Keluaran \cup {"mutasi", "stok_opname"}
  <2>1. /\ Terukur(BarisMasuk(d))
        /\ Neto(BarisMasuk(d), p[1], p[2]) = Bila(p[2], Isi[d].ruang, x)
    BY <1>2, <1>3, NetoMasukKeluar
  <2>2. EfekKasus(d, p, x) = Bila(p[2], Isi[d].ruang, x)
    BY <1>4, <1>9, SMT DEF EfekKasus, Bila, Keluaran
  <2>3. BarisPosting(d, sistem[d]) = BarisMasuk(d)
    BY <1>9 DEF BarisPosting, Keluaran
  <2>4. QED BY <1>5, <2>1, <2>2, <2>3
<1>10. QED BY <1>6, <1>7, <1>8, <1>9

\* Reversals take back what the rows they reverse have moved.
LEMMA NetoBalik ==
  ASSUME NEW M, Terukur(M), IdTunggal(M), \A k \in M : k.asal = Nol, NEW b, NEW r
  PROVE  /\ Terukur(Balikan(M))
         /\ Neto(Balikan(M), b, r) = -Neto(M, b, r)
<1>1. PICK h : h = [k \in M |-> [no |-> k.id, barang |-> k.barang, ruang |-> k.ruang,
                                 masuk |-> k.keluar, keluar |-> k.masuk, bulan |-> BulanIni,
                                 asal |-> k.id]]
  OBVIOUS
<1>2. \A k \in M : /\ h[k].no = k.id /\ h[k].barang = k.barang /\ h[k].ruang = k.ruang
                   /\ h[k].masuk = k.keluar /\ h[k].keluar = k.masuk
  BY <1>1
<1>3. PICK f, g : /\ f = [k \in M |-> k.masuk - k.keluar]
                  /\ g = [k \in M |-> k.keluar - k.masuk]
  OBVIOUS
<1>4. PICK P : P = Pasangan(M, b, r)
  OBVIOUS
<1>5. P \subseteq M /\ IsFiniteSet(P)
  <2>1. P \subseteq M
    BY <1>4 DEF Pasangan
  <2>2. QED BY <1>4, <2>1, PasanganUkur
<1>6. Bernama(M, h, Balikan(M))
  <2>1. Balikan(M) = {h[k] : k \in M}
    <3>1. {k \in M : k.asal = Nol} = M
      OBVIOUS
    <3>2. QED BY <1>1, <3>1 DEF Balikan
  <2>2. \A k, l \in M : h[k] = h[l] => k = l
    <3> SUFFICES ASSUME NEW k \in M, NEW l \in M, h[k] = h[l] PROVE k = l
      OBVIOUS
    <3>1. k.id = l.id
      BY <1>2
    <3>2. QED BY <3>1 DEF IdTunggal
  <2>3. QED BY <1>2, <2>1, <2>2 DEF Bernama, Terukur
<1>7. Terpilih(M, h, b, r, P, g)
  <2>1. P = {k \in M : h[k].barang = b /\ h[k].ruang = r}
    BY <1>2, <1>4 DEF Pasangan
  <2>2. QED BY <1>2, <1>3, <2>1 DEF Terpilih
<1>8. Terukur(Balikan(M)) /\ Neto(Balikan(M), b, r) = Jml(g, P)
  BY <1>6, <1>7, NetoCitra
<1>9. Neto(M, b, r) = Jml(f, P)
  <2>1. \A k \in Pasangan(M, b, r) : f[k] = k.masuk - k.keluar
    BY <1>3, <1>4, <1>5
  <2>2. Neto(M, b, r) = Jml(f, Pasangan(M, b, r))
    BY <2>1, NetoFungsi
  <2>3. QED BY <1>4, <2>2
<1>10. Jml(g, P) = -Jml(f, P)
  <2>1. PICK c \in Int : c = -1
    OBVIOUS
  <2>2. \A k \in P : f[k] \in Int /\ g[k] = c * f[k]
    BY <1>3, <1>5, <2>1 DEF Terukur
  <2>3. Jml(g, P) = c * Jml(f, P)
    BY <1>5, <2>2, JmlKali
  <2>4. Jml(f, P) \in Int
    BY <1>5, <2>2, JmlBulat
  <2>5. QED BY <2>1, <2>3, <2>4
<1>11. QED BY <1>8, <1>9, <1>10

\* What the serial ledger reads off the rows K.
EfekKartu(K) ==
  [d \in Dokumen |-> [p \in Barang \X Ruang |-> Neto(Milik(K, d), p[1], p[2])]]

\* The library's sum over rows, as a function's.
LEMMA GerakJml ==
  ASSUME NEW J, IsFiniteSet(J), NEW g, \A k \in J : g[k] = k.masuk - k.keluar
  PROVE  MapThenSumSet(LAMBDA k : k.masuk - k.keluar, J) = Jml(g, J)
<1> DEFINE G == CHOOSE G : G = [s \in SUBSET J |-> IF s = {} THEN 0
                   ELSE ((CHOOSE x \in s : TRUE).masuk - (CHOOSE x \in s : TRUE).keluar)
                        + G[s \ {CHOOSE x \in s : TRUE}]]
<1>1. PICK F : Menjumlah(F, g, SUBSET J)
  BY PenjumlahAda
<1>2. \A s \in SUBSET J : s # {} =>
        g[Ambil(s)] = (CHOOSE x \in s : TRUE).masuk - (CHOOSE x \in s : TRUE).keluar
  BY DEF Ambil
<1>3. F = [s \in SUBSET J |-> IF s = {} THEN 0
             ELSE ((CHOOSE x \in s : TRUE).masuk - (CHOOSE x \in s : TRUE).keluar)
                  + F[s \ {CHOOSE x \in s : TRUE}]]
  BY <1>1, <1>2 DEF Ambil, Menjumlah
<1>4. G = [s \in SUBSET J |-> IF s = {} THEN 0
             ELSE ((CHOOSE x \in s : TRUE).masuk - (CHOOSE x \in s : TRUE).keluar)
                  + G[s \ {CHOOSE x \in s : TRUE}]]
  BY <1>3, ZenonT(40)
<1>5. MapThenSumSet(LAMBDA k : k.masuk - k.keluar, J) = G[J]
  BY DEF MapThenSumSet, MapThenFoldSet
<1> HIDE DEF G
<1>6. Menjumlah(G, g, SUBSET J)
  BY <1>4, <1>2 DEF Menjumlah, Ambil
<1>7. QED BY <1>5, <1>6, JmlAdalah

\* What the ledger reads as the effects is what the rows add up to.
LEMMA EfekBenar ==
  ASSUME IsFiniteSet(kartu), kartu \subseteq BarisKartu
  PROVE  EfekBuku = EfekKartu(kartu)
<1>1. ASSUME NEW d \in Dokumen, NEW p \in Barang \X Ruang
      PROVE  EfekBuku[d][p] = Neto(Milik(kartu, d), p[1], p[2])
  <2>1. PICK M : M = Milik(kartu, d)
    OBVIOUS
  <2>2. Terukur(M)
    BY <2>1, FS_Subset DEF Terukur, Milik, BarisKartu
  <2>3. PICK P : P = Pasangan(M, p[1], p[2])
    OBVIOUS
  <2>4. PICK g : g = [k \in P |-> k.masuk - k.keluar]
    OBVIOUS
  <2>5. IsFiniteSet(P)
    BY <2>2, <2>3, PasanganUkur
  <2>6. MapThenSumSet(LAMBDA k : k.masuk - k.keluar, P) = Jml(g, P)
    BY <2>4, <2>5, GerakJml
  <2>7. {k \in Pasangan(kartu, p[1], p[2]) : k.dok = d} = P
    BY <2>1, <2>3 DEF Pasangan, Milik
  <2>8. EfekBuku[d][p] = MapThenSumSet(LAMBDA k : k.masuk - k.keluar,
                           {k \in Pasangan(kartu, p[1], p[2]) : k.dok = d})
    BY DEF EfekBuku
  <2>9. EfekBuku[d][p] = MapThenSumSet(LAMBDA k : k.masuk - k.keluar, P)
    BY <2>7, <2>8
  <2>10. Neto(M, p[1], p[2]) = Jml(g, P)
    BY <2>3, <2>4 DEF Neto
  <2>11. QED BY <2>1, <2>6, <2>9, <2>10
<1>2. QED BY <1>1 DEF EfekBuku, EfekKartu

\* In this state,
LEMMA EfekKini ==
  IsFiniteSet(kartu) /\ kartu \subseteq BarisKartu => EfekBuku = EfekKartu(kartu)
BY EfekBenar

\* and in the next.
LEMMA EfekNanti ==
  (IsFiniteSet(kartu) /\ kartu \subseteq BarisKartu => EfekBuku = EfekKartu(kartu))'
BY EfekKini, PTL

\* What the serial ledger sees of the rows.
LEMMA BukuBaca ==
  ASSUME IInv, KInv, IInv', KInv'
  PROVE  /\ EfekBuku = EfekKartu(kartu) /\ EfekBuku' = EfekKartu(kartu')
         /\ \A p \in Barang \X Ruang : SaldoBuku[p] \in Nat
<1>1. IsFiniteSet(kartu) /\ kartu \subseteq BarisKartu
  BY DEF IInv, KInv, TypeOK
<1>2. IsFiniteSet(kartu') /\ kartu' \subseteq BarisKartu
  BY DEF IInv, KInv, TypeOK
<1>3. EfekBuku' = EfekKartu(kartu')
  BY <1>2, EfekNanti DEF EfekKartu, Neto, Milik, Pasangan
<1>4. \A p \in Barang \X Ruang : SaldoBuku[p] \in Nat
  BY <1>1, TipeSaldo DEF SaldoBuku
<1>5. QED BY <1>1, <1>3, <1>4, EfekBenar

\* A step that commits no row leaves the ledger's balances and effects.
LEMMA BukuDiam ==
  ASSUME IInv, KInv, IInv', KInv', kartu' = kartu
  PROVE  SaldoBuku' = SaldoBuku /\ EfekBuku' = EfekBuku
<1>1. SaldoBuku' = SaldoBuku
  BY DEF SaldoBuku, SaldoTerakhir, Terakhir, Pasangan
<1>2. QED BY <1>1, BukuBaca

\* A session that holds its document covers what it moves.
LEMMA PindahBenar ==
  ASSUME IInv, JInv, KInv, BukuInv, IInv', KInv', NEW t \in Sesi, pc[t] = "akhir",
         kartu' = kartu \cup tulis[t],
         NEW e, e = [p \in Barang \X Ruang |-> Neto(tulis[t], p[1], p[2])]
  PROVE  Buku!Pindah(tugas[t].dok, e, BulanGerak(tugas[t]))
<1>1. PICK d, m, T : d = tugas[t].dok /\ m = BulanGerak(tugas[t]) /\ T = tulis[t]
  OBVIOUS
<1>2. Buku!Tempat = Barang \X Ruang
  BY DEF Buku!Tempat
<1>3. \A p \in Barang \X Ruang : SaldoBuku'[p] = SaldoBuku[p] + e[p]
  <2>1. \A p \in Barang \X Ruang :
          SaldoTerakhir(kartu \cup T, p[1], p[2]) = SaldoTerakhir(kartu, p[1], p[2]) + Neto(T, p[1], p[2])
    BY <1>1 DEF BukuInv
  <2>2. \A p \in Barang \X Ruang : SaldoBuku'[p] = SaldoTerakhir(kartu', p[1], p[2])
    BY DEF SaldoBuku, SaldoTerakhir, Terakhir, Pasangan
  <2>3. \A p \in Barang \X Ruang : SaldoBuku[p] = SaldoTerakhir(kartu, p[1], p[2])
    BY DEF SaldoBuku
  <2>4. \A p \in Barang \X Ruang : e[p] = Neto(T, p[1], p[2])
    BY <1>1
  <2>5. kartu' = kartu \cup T
    BY <1>1
  <2>6. QED BY <2>1, <2>2, <2>3, <2>4, <2>5
<1>4. SaldoBuku' = [p \in Buku!Tempat |-> SaldoBuku[p] + e[p]]
  <2>1. SaldoBuku' = [p \in Barang \X Ruang |-> SaldoBuku'[p]]
    BY DEF SaldoBuku
  <2>2. QED BY <1>2, <1>3, <2>1
<1>5. \A p \in Buku!Tempat : SaldoBuku[p] + e[p] >= 0
  <2>1. \A p \in Barang \X Ruang : SaldoBuku'[p] \in Nat
    <3>1. kartu' \subseteq BarisKartu
      BY DEF IInv, TypeOK
    <3>2. \A p \in Barang \X Ruang : SaldoTerakhir(kartu', p[1], p[2]) \in Nat
      BY <3>1, TipeSaldo
    <3>3. QED BY <3>2 DEF SaldoBuku, SaldoTerakhir, Terakhir, Pasangan
  <2>2. QED BY <1>2, <1>3, <2>1
<1>6. \A p \in Barang \X Ruang : e[p] # 0 => \E k \in T : k.ruang = p[2]
  <2>1. SUFFICES ASSUME NEW p \in Barang \X Ruang, \A k \in T : k.ruang # p[2] PROVE e[p] = 0
    OBVIOUS
  <2>2. Pasangan(T, p[1], p[2]) = Pasangan({}, p[1], p[2])
    BY <2>1 DEF Pasangan
  <2>3. Neto(T, p[1], p[2]) = Neto({}, p[1], p[2])
    BY <2>2 DEF Neto
  <2>4. QED BY <1>1, <2>3, NetoKosong
<1>7. \A k \in T : /\ k.bulan = m /\ m \notin tutup
                   /\ OpnameTerbuka(k.ruang) \subseteq {d}
  <2>1. \A k \in T : Terlindung(t, k)
    BY <1>1 DEF IInv, InvSesi
  <2>2. \A k \in T : k.bulan = m
    BY <1>1 DEF KInv, InvTulis, Menulis
  <2>3. QED BY <1>1, <2>1, <2>2 DEF Terlindung
<1>8. e # Buku!Diam0 => m \notin tutup
  <2>1. e # Buku!Diam0 => \E p \in Barang \X Ruang : e[p] # 0
    BY <1>2 DEF Buku!Diam0
  <2>2. QED BY <1>6, <1>7, <2>1
<1>9. \A p \in Buku!Tempat : e[p] # 0 => ~Buku!Dibekukan(p[2], d)
  BY <1>2, <1>6, <1>7 DEF Buku!Dibekukan, OpnameTerbuka, Terbuka
<1>10. QED BY <1>1, <1>4, <1>5, <1>8, <1>9 DEF Buku!Pindah

\* A document's effect is a function of the pairs.
LEMMA EfekFungsi ==
  ASSUME NEW d \in Dokumen
  PROVE  Buku!EfekDari(d) = [p \in Barang \X Ruang |-> Buku!EfekDari(d)[p]]
<1>1. \E f : Buku!EfekDari(d) = [p \in Buku!Tempat |-> f[p]]
  <2>1. CASE Isi[d].jenis = "mutasi"
    <3>1. PICK f : f = [p \in Buku!Tempat |->
            (IF p[2] = Isi[d].tujuan THEN Buku!Jumlah({i \in DOMAIN Isi[d].baris : Isi[d].baris[i].barang = p[1]},
              LAMBDA i : Isi[d].baris[i].qty) ELSE 0)
            - (IF p[2] = Isi[d].ruang THEN Buku!Jumlah({i \in DOMAIN Isi[d].baris : Isi[d].baris[i].barang = p[1]},
              LAMBDA i : Isi[d].baris[i].qty) ELSE 0)]
      OBVIOUS
    <3>2. f = [p \in Buku!Tempat |-> f[p]]
      BY <3>1
    <3>3. Buku!EfekDari(d) = f
      BY <3>1, <2>1 DEF Buku!EfekDari
    <3>4. QED BY <3>2, <3>3
  <2>2. CASE Isi[d].jenis \in Keluaran
    <3>1. PICK f : f = [p \in Buku!Tempat |->
            IF p[2] = Isi[d].ruang THEN -Buku!Jumlah({i \in DOMAIN Isi[d].baris : Isi[d].baris[i].barang = p[1]},
              LAMBDA i : Isi[d].baris[i].qty) ELSE 0]
      OBVIOUS
    <3>2. f = [p \in Buku!Tempat |-> f[p]]
      BY <3>1
    <3>3. Buku!EfekDari(d) = f
      BY <3>1, <2>2 DEF Buku!EfekDari, Keluaran
    <3>4. QED BY <3>2, <3>3
  <2>3. CASE Isi[d].jenis = "stok_opname"
    <3>1. PICK f : f = [p \in Buku!Tempat |->
            IF /\ p[2] = Isi[d].ruang
               /\ {i \in DOMAIN Isi[d].baris : Isi[d].baris[i].barang = p[1]} # {}
               /\ sistem[d][p[1]] >= 0
            THEN Buku!Jumlah({i \in DOMAIN Isi[d].baris : Isi[d].baris[i].barang = p[1]},
              LAMBDA i : Isi[d].baris[i].qty) - sistem[d][p[1]] ELSE 0]
      OBVIOUS
    <3>2. f = [p \in Buku!Tempat |-> f[p]]
      BY <3>1
    <3>3. Buku!EfekDari(d) = f
      BY <3>1, <2>3 DEF Buku!EfekDari
    <3>4. QED BY <3>2, <3>3
  <2>4. CASE Isi[d].jenis \notin Keluaran \cup {"mutasi", "stok_opname"}
    <3>1. PICK f : f = [p \in Buku!Tempat |->
            IF p[2] = Isi[d].ruang THEN Buku!Jumlah({i \in DOMAIN Isi[d].baris : Isi[d].baris[i].barang = p[1]},
              LAMBDA i : Isi[d].baris[i].qty) ELSE 0]
      OBVIOUS
    <3>2. f = [p \in Buku!Tempat |-> f[p]]
      BY <3>1
    <3>3. Buku!EfekDari(d) = f
      BY <3>1, <2>4 DEF Buku!EfekDari, Keluaran
    <3>4. QED BY <3>2, <3>3
  <2>5. QED BY <2>1, <2>2, <2>3, <2>4
<1>2. Buku!Tempat = Barang \X Ruang
  BY DEF Buku!Tempat
<1>3. QED BY <1>1, <1>2

\* Posting accepts the status the serial ledger asks for.
LEMMA DariSiap ==
  ASSUME NEW d \in Dokumen
  PROVE  RencanaPosting(d).dari = {StatusSiap(Isi[d].jenis)}
<1>1. CASE Isi[d].jenis \in {"mutasi", "penjualan"}
  BY <1>1 DEF RencanaPosting, PostingMutasi, PostingPenjualan, StatusSiap
<1>2. CASE Isi[d].jenis = "pemakaian"
  BY <1>2 DEF RencanaPosting, PostingPemakaian, StatusSiap
<1>3. CASE Isi[d].jenis \in {"saldo_awal", "stok_opname", "pembelian", "penerimaan_susulan"}
  BY <1>3 DEF RencanaPosting, PostingSaldoAwal, PostingOpname, PostingPembelian, PostingSusulan, StatusSiap
<1>4. CASE Isi[d].jenis = "retur_pembelian"
  BY <1>4 DEF RencanaPosting, PostingRetur, StatusSiap
<1>5. QED BY <1>1, <1>2, <1>3, <1>4, TipeIsi DEF Jenis, Masukan, Keluaran

\* No cancellation accepts a document that is cancelled.
LEMMA DariBatal ==
  ASSUME NEW d \in Dokumen
  PROVE  "BATAL" \notin RencanaBatal(d).dari
<1>1. /\ BatalMutasi(d).dari = {"POSTED"} /\ BatalSusulan(d).dari = {"POSTED"}
      /\ BatalPembelian(d).dari = {"POSTED"}
  BY DEF BatalMutasi, BatalSusulan, BatalPembelian
<1>2. BatalSaldoAwal(d).dari = StatusDok \ {"BATAL"} /\ BatalOpname(d).dari = StatusDok \ {"BATAL"}
  BY DEF BatalSaldoAwal, BatalOpname, BatalMutasi
<1>3. RencanaBatal(d) \in {BatalMutasi(d), BatalPembelian(d), BatalSusulan(d), BatalSaldoAwal(d), BatalOpname(d)}
  BY DEF RencanaBatal, BatalPenjualan, BatalPemakaian, BatalRetur
<1>4. QED BY <1>1, <1>2, <1>3

\* At the end everything that has to be inserted is.
LEMMA NetoSelesai ==
  ASSUME IInv, JInv, KInv, NEW t \in Sesi, pc[t] = "akhir"
  PROVE  /\ Terukur(tulis[t])
         /\ \A b \in Barang, r \in Ruang : Neto(tulis[t], b, r) = Neto(HarusSisip(tugas[t]), b, r)
<1>1. InvTulis(t) /\ pc[t] \in Menulis
  BY DEF KInv, Menulis
<1>2. baris[t] = {}
  BY <1>1 DEF InvTulis
<1>3. Terukur(tulis[t])
  BY <1>1, TerukurSesi
<1>4. ASSUME NEW b \in Barang, NEW r \in Ruang
      PROVE  Neto(tulis[t], b, r) = Neto(HarusSisip(tugas[t]), b, r)
  <2>1. Neto(tulis[t], b, r) + Neto(baris[t], b, r) = Neto(HarusSisip(tugas[t]), b, r)
    BY <1>1 DEF InvTulis
  <2>2. Neto(baris[t], b, r) = 0
    BY <1>2, NetoKosong
  <2>3. Neto(tulis[t], b, r) \in Int
    BY <1>3, NetoBulat
  <2>4. QED BY <2>1, <2>2, <2>3
<1>5. QED BY <1>3, <1>4

\* F with d's entry replaced.
Ganti(F, d, f) == [F EXCEPT ![d] = f]

\* What the rows S move in each pair.
EfekBaris(S) == [p \in Barang \X Ruang |-> Neto(S, p[1], p[2])]

\* The effects of the other documents stay.
LEMMA EfekLain ==
  ASSUME NEW K, NEW T, NEW d \in Dokumen, \A k \in T : k.dok = d
  PROVE  EfekKartu(K \cup T) = Ganti(EfekKartu(K), d, EfekBaris(Milik(K, d) \cup T))
<1>0. PICK f : f = [p \in Barang \X Ruang |-> Neto(Milik(K, d) \cup T, p[1], p[2])]
  OBVIOUS
<1>1. \A c \in Dokumen : c # d => Milik(K \cup T, c) = Milik(K, c)
  BY DEF Milik
<1>2. Milik(K \cup T, d) = Milik(K, d) \cup T
  BY DEF Milik
<1>3. \A c \in Dokumen : EfekKartu(K \cup T)[c] = [EfekKartu(K) EXCEPT ![d] = f][c]
  <2> TAKE c \in Dokumen
  <2>1. EfekKartu(K \cup T)[c] = [p \in Barang \X Ruang |-> Neto(Milik(K \cup T, c), p[1], p[2])]
        /\ EfekKartu(K)[c] = [p \in Barang \X Ruang |-> Neto(Milik(K, c), p[1], p[2])]
    BY DEF EfekKartu
  <2>2. DOMAIN EfekKartu(K) = Dokumen
    BY DEF EfekKartu
  <2>3. CASE c = d
    BY <1>0, <1>2, <2>1, <2>2, <2>3
  <2>4. CASE c # d
    <3>1. [EfekKartu(K) EXCEPT ![d] = f][c] = EfekKartu(K)[c]
      BY <2>2, <2>4
    <3>2. EfekKartu(K \cup T)[c] = EfekKartu(K)[c]
      BY <1>1, <2>1, <2>4
    <3>3. QED BY <3>1, <3>2
  <2>5. QED BY <2>3, <2>4
<1>4. EfekKartu(K \cup T) = [c \in Dokumen |-> EfekKartu(K \cup T)[c]]
  BY DEF EfekKartu
<1>5. EfekKartu(K) = [c \in Dokumen |-> EfekKartu(K)[c]]
  BY DEF EfekKartu
<1>6. PICK A, B : A = EfekKartu(K \cup T) /\ B = EfekKartu(K)
  OBVIOUS
<1>7. A = [c \in Dokumen |-> A[c]] /\ B = [c \in Dokumen |-> B[c]]
      /\ \A c \in Dokumen : A[c] = [B EXCEPT ![d] = f][c]
  BY <1>3, <1>4, <1>5, <1>6
<1>8. A = [B EXCEPT ![d] = f]
  BY <1>7
<1>9. QED BY <1>0, <1>6, <1>8 DEF EfekBaris, Ganti

\* The commit of a posting is the posting of the ledger,
LEMMA BukuPosting ==
  ASSUME IInv, JInv, KInv, BukuInv, IInv', KInv', NEW t \in Sesi, pc[t] = "akhir",
         tugas[t].aksi = "posting", status[tugas[t].dok] \in Rencana(tugas[t]).dari,
         kartu' = kartu \cup tulis[t], status' = [status EXCEPT ![tugas[t].dok] = "POSTED"],
         UNCHANGED <<tutup, sistem>>
  PROVE  Buku!Posting(tugas[t].dok)
<1>1. PICK d, T : d = tugas[t].dok /\ T = tulis[t]
  OBVIOUS
<1>2. d \in Dokumen
  BY <1>1, PunyaDokumen DEF Menulis
<1>3. status[d] = StatusSiap(Isi[d].jenis)
  BY <1>1, <1>2, DariSiap DEF Rencana
<1>4. \A p \in Barang \X Ruang : Neto(T, p[1], p[2]) = Buku!EfekDari(d)[p]
  <2> TAKE p \in Barang \X Ruang
  <2>1. Neto(T, p[1], p[2]) = Neto(HarusSisip(tugas[t]), p[1], p[2])
    BY <1>1, NetoSelesai
  <2>2. HarusSisip(tugas[t]) = BarisPosting(d, sistem[d])
    BY <1>1 DEF HarusSisip
  <2>3. Neto(BarisPosting(d, sistem[d]), p[1], p[2]) = Buku!EfekDari(d)[p]
    BY <1>2, NetoPosting DEF IInv
  <2>4. QED BY <2>1, <2>2, <2>3
<1>5. PICK e : e = [p \in Barang \X Ruang |-> Neto(T, p[1], p[2])]
  OBVIOUS
<1>6. Buku!EfekDari(d) = e
  BY <1>2, <1>4, <1>5, EfekFungsi
<1>7. Buku!Pindah(d, e, Isi[d].bulan)
  <2>1. BulanGerak(tugas[t]) = Isi[d].bulan
    BY <1>1 DEF BulanGerak
  <2>2. Buku!Pindah(tugas[t].dok, e, BulanGerak(tugas[t]))
    BY <1>1, <1>5, PindahBenar
  <2>3. QED BY <1>1, <2>1, <2>2
<1>8. EfekBuku' = [EfekBuku EXCEPT ![d] = e]
  <2>1. \A k \in T : k.dok = d
    BY <1>1 DEF IInv, InvSesi, Terlindung
  <2>2. status[d] \notin {"POSTED", "BATAL"}
    BY <1>1 DEF KInv, InvTulis, Menulis
  <2>3. Milik(kartu, d) = {}
    BY <1>2, <2>2 DEF KInv, KartuCocokStatus, KartuCocok, CocokDokumen
  <2>4. Milik(kartu, d) \cup T = T
    BY <2>3
  <2>5. e = EfekBaris(Milik(kartu, d) \cup T)
    BY <1>5, <2>4 DEF EfekBaris
  <2>6. EfekKartu(kartu \cup T) = Ganti(EfekKartu(kartu), d, EfekBaris(Milik(kartu, d) \cup T))
    BY <1>2, <2>1, EfekLain
  <2>7. EfekKartu(kartu') = [EfekKartu(kartu) EXCEPT ![d] = e]
    BY <1>1, <2>5, <2>6 DEF Ganti
  <2>8. QED BY <2>7, BukuBaca
<1>9. QED BY <1>1, <1>3, <1>6, <1>7, <1>8 DEF Buku!Posting

\* and that of a cancellation its cancellation.
LEMMA BukuBatal ==
  ASSUME IInv, JInv, KInv, BukuInv, IInv', KInv', NEW t \in Sesi, pc[t] = "akhir",
         tugas[t].aksi = "batal", status[tugas[t].dok] \in Rencana(tugas[t]).dari,
         kartu' = kartu \cup tulis[t], status' = [status EXCEPT ![tugas[t].dok] = "BATAL"],
         UNCHANGED <<tutup, sistem>>
  PROVE  Buku!Batal(tugas[t].dok)
<1>1. PICK d, T, M : d = tugas[t].dok /\ T = tulis[t] /\ M = Milik(kartu, d)
  OBVIOUS
<1>2. d \in Dokumen /\ status[d] # "BELUM"
  BY <1>1, PunyaDokumen DEF Menulis
<1>3. status[d] # "BATAL"
  BY <1>1, <1>2, DariBatal DEF Rencana
<1>4. CocokDokumen(M, status[d], BarisPosting(d, sistem[d]))
  BY <1>1, <1>2 DEF KInv, KartuCocokStatus, KartuCocok
<1>5. M \subseteq kartu /\ Terukur(M) /\ IdTunggal(M)
  <2>1. M \subseteq kartu
    BY <1>1 DEF Milik
  <2>2. kartu \subseteq BarisKartu /\ IsFiniteSet(kartu)
    BY DEF IInv, TypeOK, KInv
  <2>3. Terukur(M)
    BY <2>1, <2>2, FS_Subset DEF Terukur, BarisKartu
  <2>4. QED BY <2>1, <2>3 DEF KInv, IdTerpisah, IdTunggal
<1>6. Terukur(T) /\ M \cap T = {}
  <2>1. Terukur(T)
    BY <1>1, NetoSelesai
  <2>2. \A l \in T : \A k \in kartu : k.id # l.id
    BY <1>1 DEF KInv, IdTerpisah, IdSesi
  <2>3. QED BY <1>5, <2>1, <2>2
<1>7. \A p \in Barang \X Ruang : Neto(M, p[1], p[2]) \in Int /\ Neto(T, p[1], p[2]) = -Neto(M, p[1], p[2])
  <2> TAKE p \in Barang \X Ruang
  <2>1. Neto(M, p[1], p[2]) \in Int
    BY <1>5, NetoBulat
  <2>2. Neto(T, p[1], p[2]) = Neto(HarusSisip(tugas[t]), p[1], p[2])
    BY <1>1, NetoSelesai
  <2>3. CASE status[d] = "POSTED"
    <3>1. HarusSisip(tugas[t]) = Balikan(M)
      BY <1>1, <2>3, BatalBalikan DEF HarusSisip
    <3>2. \A k \in M : k.asal = Nol
      BY <1>4, <2>3 DEF CocokDokumen
    <3>3. Neto(Balikan(M), p[1], p[2]) = -Neto(M, p[1], p[2])
      BY <1>5, <3>2, NetoBalik
    <3>4. QED BY <2>1, <2>2, <3>1, <3>3
  <2>4. CASE status[d] # "POSTED"
    <3>1. HarusSisip(tugas[t]) = {}
      BY <1>1, <2>4 DEF HarusSisip
    <3>2. M = {}
      BY <1>3, <1>4, <2>4 DEF CocokDokumen
    <3>3. Neto(M, p[1], p[2]) = 0 /\ Neto(T, p[1], p[2]) = 0
      BY <2>2, <3>1, <3>2, NetoKosong
    <3>4. \A x, y \in Int : x + y = 0 => y = -x
      OBVIOUS
    <3>5. Neto(T, p[1], p[2]) \in Int /\ Neto(M, p[1], p[2]) + Neto(T, p[1], p[2]) = 0
      BY <3>3
    <3>6. QED BY <2>1, <3>4, <3>5
  <2>5. QED BY <2>3, <2>4
<1>8. PICK e : e = [p \in Barang \X Ruang |-> Neto(T, p[1], p[2])]
  OBVIOUS
<1>9. e = [p \in Buku!Tempat |-> -EfekBuku[d][p]]
  <2>1. \A p \in Barang \X Ruang : EfekBuku[d][p] = Neto(M, p[1], p[2])
    BY <1>1, <1>2, BukuBaca DEF EfekKartu
  <2>2. QED BY <1>7, <1>8, <2>1 DEF Buku!Tempat
<1>10. Buku!Pindah(d, e, BulanIni)
  <2>1. BulanGerak(tugas[t]) = BulanIni
    BY DEF BulanGerak
  <2>2. Buku!Pindah(tugas[t].dok, e, BulanGerak(tugas[t]))
    BY <1>1, <1>8, PindahBenar
  <2>3. QED BY <1>1, <2>1, <2>2
<1>11. EfekBuku' = [EfekBuku EXCEPT ![d] = Buku!Diam0]
  <2>1. \A k \in T : k.dok = d
    BY <1>1 DEF IInv, InvSesi, Terlindung
  <2>2. \A p \in Barang \X Ruang : Neto(M \cup T, p[1], p[2]) = 0
    <3> TAKE p \in Barang \X Ruang
    <3>1. Neto(M \cup T, p[1], p[2]) = Neto(M, p[1], p[2]) + Neto(T, p[1], p[2])
      <4>1. Terukur(M) /\ Terukur(T)
        BY <1>5, <1>6
      <4>2. M \cap T = {}
        BY <1>6
      <4>3. QED BY <4>1, <4>2, NetoGabung
    <3>2. QED BY <1>7, <3>1
  <2>3. Buku!Diam0 = EfekBaris(Milik(kartu, d) \cup T)
    BY <1>1, <2>2 DEF Buku!Diam0, Buku!Tempat, EfekBaris
  <2>4. EfekKartu(kartu \cup T) = Ganti(EfekKartu(kartu), d, EfekBaris(Milik(kartu, d) \cup T))
    BY <1>2, <2>1, EfekLain
  <2>5. EfekKartu(kartu') = [EfekKartu(kartu) EXCEPT ![d] = Buku!Diam0]
    BY <1>1, <2>3, <2>4 DEF Ganti
  <2>6. QED BY <2>5, BukuBaca
<1>12. QED BY <1>1, <1>2, <1>3, <1>9, <1>10, <1>11 DEF Buku!Batal

\* What leaves the data alone is not seen.
LEMMA BukuTetap ==
  ASSUME IInv, KInv, IInv', KInv', UNCHANGED dataVars
  PROVE  UNCHANGED Buku!varsBuku
<1>1. UNCHANGED <<kartu, status, tutup, sistem>>
  BY DEF dataVars
<1>2. SaldoBuku' = SaldoBuku /\ EfekBuku' = EfekBuku
  BY <1>1, BukuDiam
<1>3. QED BY <1>1, <1>2 DEF Buku!varsBuku

\* COMMIT is one step of the ledger.
LEMMA BukuSelesai ==
  ASSUME IInv, JInv, KInv, BukuInv, IInv', KInv', NEW t \in Sesi, Selesai(t)
  PROVE  UNCHANGED Buku!varsBuku \/ Buku!NextBuku
<1>1. CASE Gagal(t)
  BY <1>1, BukuTetap DEF Gagal
<1>2. CASE ~Gagal(t)
  <2>1. PICK g : g = tugas[t]
    OBVIOUS
  <2>2. /\ pc[t] = "akhir" /\ status[g.dok] \in Rencana(g).dari
        /\ kartu' = kartu \cup tulis[t]
        /\ status' = [status EXCEPT ![g.dok] = IF g.aksi = "posting" THEN "POSTED" ELSE "BATAL"]
        /\ UNCHANGED <<tutup, sistem>>
    BY <1>2, <2>1 DEF Selesai
  <2>3. g.dok \in Dokumen /\ g.aksi \in {"posting", "batal"}
    BY <2>1, <2>2, PunyaDokumen DEF Menulis
  <2>4. CASE g.aksi = "posting"
    <3>1. status' = [status EXCEPT ![g.dok] = "POSTED"]
      BY <2>2, <2>4
    <3>2. Buku!Posting(g.dok)
      BY <2>1, <2>2, <2>4, <3>1, BukuPosting
    <3>3. QED BY <2>3, <3>2 DEF Buku!NextBuku
  <2>5. CASE g.aksi = "batal"
    <3>1. status' = [status EXCEPT ![g.dok] = "BATAL"]
      BY <2>2, <2>5
    <3>2. Buku!Batal(g.dok)
      BY <2>1, <2>2, <2>5, <3>1, BukuBatal
    <3>3. QED BY <2>3, <3>2 DEF Buku!NextBuku
  <2>6. QED BY <2>3, <2>4, <2>5
<1>3. QED BY <1>1, <1>2

\* So is closing or reopening a month,
LEMMA BukuPeriode ==
  ASSUME IInv, KInv, IInv', KInv', NEW t \in Sesi, TutupBuku(t) \/ BukaBuku(t)
  PROVE  UNCHANGED Buku!varsBuku \/ Buku!NextBuku
<1>1. CASE Gagal(t)
  BY <1>1, BukuTetap DEF Gagal
<1>2. CASE ~Gagal(t)
  <2>1. PICK m : m = tugas[t].bulan
    OBVIOUS
  <2>2. m \in Bulan
    BY <2>1 DEF IInv, TypeOK, Tugas
  <2>3. /\ tutup' = IF m \in tutup THEN tutup \ {m} ELSE tutup \cup {m}
        /\ UNCHANGED <<kartu, status, sistem>>
    BY <1>2, <2>1 DEF TutupBuku, BukaBuku
  <2>4. SaldoBuku' = SaldoBuku /\ EfekBuku' = EfekBuku
    BY <2>3, BukuDiam
  <2>5. Buku!TutupBuka(m)
    BY <2>3, <2>4 DEF Buku!TutupBuka
  <2>6. QED BY <2>2, <2>5 DEF Buku!NextBuku
<1>3. QED BY <1>1, <1>2

\* opening a count,
LEMMA BukuBukaOpname ==
  ASSUME IInv, JInv, KInv, IInv', KInv', NEW t \in Sesi, BukaOpname(t)
  PROVE  UNCHANGED Buku!varsBuku \/ Buku!NextBuku
<1>1. CASE Gagal(t)
  BY <1>1, BukuTetap DEF Gagal
<1>2. CASE ~Gagal(t)
  <2>1. PICK d : d = tugas[t].dok
    OBVIOUS
  <2>2. pc[t] = "opname" /\ ~RuangBeku(Isi[d].ruang)
        /\ status' = [status EXCEPT ![d] = "DRAFT"] /\ UNCHANGED <<kartu, tutup, sistem>>
    BY <1>2, <2>1 DEF BukaOpname
  <2>3. d \in Dokumen /\ status[d] = "BELUM"
    BY <2>1, <2>2 DEF JInv, SemuaDok, InvDok
  <2>4. Isi[d].jenis = "stok_opname"
    BY <2>3 DEF JInv, DataBaik, BelumKosong
  <2>5. SaldoBuku' = SaldoBuku /\ EfekBuku' = EfekBuku
    BY <2>2, BukuDiam
  <2>6. ~Buku!Dibekukan(Isi[d].ruang, d)
    BY <2>2 DEF Buku!Dibekukan, RuangBeku, OpnameTerbuka, Terbuka
  <2>7. Buku!UbahOpname(d)
    BY <2>2, <2>3, <2>4, <2>5, <2>6 DEF Buku!UbahOpname
  <2>8. QED BY <2>3, <2>7 DEF Buku!NextBuku
<1>3. QED BY <1>1, <1>2

\* and what happens to an open count.
LEMMA BukuOpname ==
  ASSUME IInv, KInv, IInv', KInv', NEW d \in Dokumen, TarikSaldo(d) \/ ReplaceDetail(d) \/ Ajukan(d) \/ Tolak(d)
  PROVE  Buku!NextBuku
<1>1. kartu' = kartu /\ tutup' = tutup /\ Isi[d].jenis = "stok_opname"
  BY DEF TarikSaldo, ReplaceDetail, Ajukan, Tolak
<1>2. SaldoBuku' = SaldoBuku /\ EfekBuku' = EfekBuku
  BY <1>1, BukuDiam
<1>3. CASE Ajukan(d) \/ Tolak(d)
  <2>1. Buku!UbahOpname(d)
    BY <1>1, <1>2, <1>3 DEF Buku!UbahOpname, Ajukan, Tolak
  <2>2. QED BY <2>1 DEF Buku!NextBuku
<1>4. CASE TarikSaldo(d) \/ ReplaceDetail(d)
  <2>1. PICK s : s = [b \in Barang |-> SaldoTerakhir(kartu, b, Isi[d].ruang)]
    OBVIOUS
  <2>2. \A b \in Barang : SaldoBuku[<<b, Isi[d].ruang>>] = s[b]
    BY <2>1, TipeIsi DEF SaldoBuku
  <2>3. \E S \in SUBSET Barang :
          sistem' = [sistem EXCEPT ![d] = [b \in Barang |-> IF b \in S THEN s[b] ELSE -1]]
    <3>1. CASE TarikSaldo(d)
      <4>1. PICK S : S = {b \in Barang : Pasangan(kartu, b, Isi[d].ruang) # {}}
        OBVIOUS
      <4>2. [b \in Barang |-> IF Pasangan(kartu, b, Isi[d].ruang) = {} THEN -1
                              ELSE SaldoTerakhir(kartu, b, Isi[d].ruang)]
              = [b \in Barang |-> IF b \in S THEN s[b] ELSE -1]
        BY <2>1, <4>1
      <4>3. S \in SUBSET Barang
        BY <4>1
      <4>4. QED BY <3>1, <4>2, <4>3 DEF TarikSaldo
    <3>2. CASE ReplaceDetail(d)
      <4>1. PICK S \in SUBSET Barang :
              sistem' = [sistem EXCEPT ![d] = [b \in Barang |->
                           IF b \in S THEN SaldoTerakhir(kartu, b, Isi[d].ruang) ELSE -1]]
        BY <3>2 DEF ReplaceDetail
      <4>2. [b \in Barang |-> IF b \in S THEN SaldoTerakhir(kartu, b, Isi[d].ruang) ELSE -1]
              = [b \in Barang |-> IF b \in S THEN s[b] ELSE -1]
        BY <2>1
      <4>3. QED BY <4>1, <4>2
    <3>3. QED BY <1>4, <3>1, <3>2
  <2>4. PICK S \in SUBSET Barang :
          sistem' = [sistem EXCEPT ![d] = [b \in Barang |-> IF b \in S THEN s[b] ELSE -1]]
    BY <2>3
  <2>5. [b \in Barang |-> IF b \in S THEN s[b] ELSE -1]
          = [b \in Barang |-> IF b \in S THEN SaldoBuku[<<b, Isi[d].ruang>>] ELSE -1]
    BY <2>2
  <2>6. status[d] = "DRAFT" /\ UNCHANGED status
    BY <1>4 DEF TarikSaldo, ReplaceDetail
  <2>7. Buku!TarikSaldo(d)
    BY <1>1, <1>2, <2>4, <2>5, <2>6 DEF Buku!TarikSaldo
  <2>8. QED BY <2>7 DEF Buku!NextBuku
<1>5. QED BY <1>3, <1>4

\* Every step is one step of the ledger or none.
LEMMA BukuLangkah ==
  ASSUME IInv, JInv, KInv, BukuInv, IInv', KInv', [Next]_vars
  PROVE  [Buku!NextBuku]_(Buku!varsBuku)
<1>1. ASSUME NEW t \in Sesi,
             \/ Mulai(t) \/ AmbilKunci(t) \/ Sisip(t) \/ Perbarui(t) \/ SusunAntrean(t)
             \/ PeriksaDokumen(t) \/ PeriksaAwal(t) \/ TrgPeriode(t) \/ TrgRuang(t)
             \/ TrgSaldo(t) \/ BatalkanKorban(t)
      PROVE  UNCHANGED Buku!varsBuku
  <2>1. UNCHANGED dataVars \/ Gagal(t)
    BY <1>1 DEF Mulai, AmbilKunci, Sisip, Perbarui, SusunAntrean, PeriksaDokumen, PeriksaAwal,
                TrgPeriode, TrgRuang, TrgSaldo, BatalkanKorban
  <2>2. QED BY <2>1, BukuTetap DEF Gagal
<1>2. ASSUME NEW t \in Sesi, Mulai(t) \/ Langkah(t) \/ SusunAntrean(t) \/ BatalkanKorban(t)
      PROVE  UNCHANGED Buku!varsBuku \/ Buku!NextBuku
  BY <1>1, <1>2, BukuSelesai, BukuPeriode, BukuBukaOpname DEF Langkah
<1>3. ASSUME UNCHANGED vars PROVE UNCHANGED Buku!varsBuku
  BY <1>3, BukuTetap DEF vars
<1>4. QED BY <1>2, <1>3, BukuOpname DEF Next, Diam

\* The first state is a first state of the ledger.
LEMMA BukuAwal == Init => Buku!InitBuku
<1> SUFFICES ASSUME Init PROVE Buku!InitBuku
  OBVIOUS
<1>1. kartu \subseteq BarisKartu /\ tutup = {}
  BY AwalBenar DEF IInv, TypeOK, Init
<1>2. \A p \in Barang \X Ruang : SaldoBuku[p] \in Nat
  BY <1>1, TipeSaldo DEF SaldoBuku
<1>3. QED BY <1>1, <1>2 DEF Buku!InitBuku, Buku!Tempat

\* Where no purchase, receipt or return writes, the transactions implement
\* the serial ledger: every posting and cancellation takes effect in one step,
\* when it commits, and moves each balance by what its document says, in an
\* open month and in rooms nobody else is counting; nothing else is visible.
THEOREM BukuTerlaksana ==
  ASSUME TerkunciDulu
  PROVE  Spec => ImplementasiBuku
<1>1. IInv /\ JInv /\ KInv /\ SInv /\ [Next]_vars => SInv'
  BY SaldoInduktif
<1>2. IInv /\ JInv /\ KInv /\ SInv /\ BukuInv /\ [Next]_vars => BukuInv'
  BY BukuInduktif
<1>3. Spec => [](IInv /\ JInv /\ KInv /\ SInv /\ BukuInv)
  BY <1>1, <1>2, AwalBenar, Induktif, DokumenAwal, DokumenInduktif, KartuAwalBenar,
     KartuInduktif, SaldoAwalBenar, BukuMula, PTL DEF Spec
<1>4. IInv /\ JInv /\ KInv /\ BukuInv /\ IInv' /\ KInv' /\ [Next]_vars => [Buku!NextBuku]_(Buku!varsBuku)
  BY BukuLangkah
<1>5. QED BY <1>3, <1>4, BukuAwal, PTL DEF Spec, ImplementasiBuku, Buku!SpecBuku

-----------------------------------------------------------------------------
(* The order of the locks.                                                 *)

\* No count that was posted is being cancelled: of the handlers that lock
\* before they write, this is the one that leaves the month to the trigger.
TanpaBatalHitungan ==
  \A t \in Sesi, d \in Dokumen :
    tugas[t].aksi = "batal" /\ tugas[t].dok = d /\ Isi[d].jenis = "stok_opname" => status[d] # "POSTED"

\* A session waits for a key above all it holds, has only keys above those
\* to take, and once it writes it has them all.
InvUrut(t) ==
  /\ \A p \in tunggu[t], q \in pegang[t] : Sebelum(q.kunci, p.kunci)
  /\ pc[t] = "idle" => pegang[t] = {} /\ tunggu[t] = {}
  /\ pc[t] = "dokumen" => \A q \in pegang[t] \cup tunggu[t] : q.kunci = KDok(tugas[t].dok)
  /\ pc[t] = "kunci" =>
       /\ \A p \in perlu[t], q \in pegang[t] \cup tunggu[t] : Sebelum(q.kunci, p.kunci)
       /\ \A y \in baris[t] :
            /\ Bersama(KPeriode(y.bulan)) \in perlu[t] \/ Dipenuhi(t, Bersama(KPeriode(y.bulan)))
            /\ Bersama(KRuang(y.ruang)) \in perlu[t] \/ Dipenuhi(t, Bersama(KRuang(y.ruang)))
  /\ pc[t] \in Menulis \ {"kunci"} =>
       /\ tunggu[t] = {}
       /\ \A y \in baris[t] : Memegang(t, KPeriode(y.bulan)) /\ Memegang(t, KRuang(y.ruang))

UInv == AntreanLurus /\ \A t \in Sesi : InvUrut(t)

\* The keys are numbered, and ordered.
LEMMA KunciBernomor ==
  \A k \in Kunci : k[1] \in Nat /\ k[2] \in Nat /\ k[3] \in Nat /\ k = <<k[1], k[2], k[3]>>
BY AsumsiStok DEF AsumsiStok, Kunci, KDok, KPeriode, KRuang, KSaldo

LEMMA SebelumUrutan ==
  ASSUME NEW k \in Kunci, NEW l \in Kunci, NEW m \in Kunci
  PROVE  ~Sebelum(k, k) /\ (Sebelum(k, l) /\ Sebelum(l, m) => Sebelum(k, m))
BY KunciBernomor DEF Sebelum

\* The sessions are ordered by what they wait for, and by the queues.
Atas == {e \in Sesi \X Sesi :
           \E p \in tunggu[e[1]], q \in tunggu[e[2]] :
             \/ Sebelum(p.kunci, q.kunci)
             \/ p.kunci = q.kunci /\ e[2] \in depan[e[1]]}

LEMMA UrutBebas ==
  ASSUME TypeOK, UInv
  PROVE  TanpaSiklus /\ TanpaDeadlock
<1>1. \A t \in Sesi : \A p \in tunggu[t] \cup pegang[t] : p.kunci \in Kunci
  BY DEF TypeOK, TipeKunci, Permintaan
<1>2. \A t, u \in Sesi : <<t, u>> \in Keras \cup Lunak
                          /\ (\E v \in Sesi : <<u, v>> \in Keras \cup Lunak) => <<t, u>> \in Atas
  <2> SUFFICES ASSUME NEW t \in Sesi, NEW u \in Sesi, <<t, u>> \in Keras \cup Lunak,
                      NEW v \in Sesi, <<u, v>> \in Keras \cup Lunak
               PROVE  <<t, u>> \in Atas
    OBVIOUS
  <2>1. PICK w \in tunggu[u] : TRUE
    BY DEF Keras, Lunak
  <2>2. CASE <<t, u>> \in Keras
    <3>1. PICK p \in tunggu[t], q \in pegang[u] : p.kunci = q.kunci
      BY <2>2 DEF Keras, Bentrok
    <3>2. Sebelum(p.kunci, w.kunci)
      BY <2>1, <3>1 DEF UInv, InvUrut
    <3>3. QED BY <2>1, <3>1, <3>2 DEF Atas
  <2>3. CASE <<t, u>> \in Lunak
    <3>1. u \in depan[t] /\ \E p \in tunggu[t], q \in tunggu[u] : p.kunci = q.kunci
      BY <2>3 DEF Lunak, Bentrok
    <3>2. QED BY <3>1 DEF Atas
  <2>4. QED BY <2>2, <2>3
<1>3. \A t \in Sesi : <<t, t>> \notin Atas
  <2> SUFFICES ASSUME NEW t \in Sesi, <<t, t>> \in Atas PROVE FALSE
    OBVIOUS
  <2>1. t \notin depan[t]
    BY DEF UInv, AntreanLurus
  <2>2. PICK p \in tunggu[t], q \in tunggu[t] : Sebelum(p.kunci, q.kunci)
    BY <2>1 DEF Atas
  <2>3. p = q
    BY DEF UInv, AntreanLurus
  <2>4. QED BY <1>1, <2>2, <2>3, SebelumUrutan
<1>4. \A t, u, v \in Sesi : <<t, u>> \in Atas /\ <<u, v>> \in Atas => <<t, v>> \in Atas
  <2> SUFFICES ASSUME NEW t \in Sesi, NEW u \in Sesi, NEW v \in Sesi,
                      <<t, u>> \in Atas, <<u, v>> \in Atas
               PROVE  <<t, v>> \in Atas
    OBVIOUS
  <2>1. PICK p \in tunggu[t], q \in tunggu[u] :
          Sebelum(p.kunci, q.kunci) \/ (p.kunci = q.kunci /\ u \in depan[t])
    BY DEF Atas
  <2>2. PICK r \in tunggu[u], s \in tunggu[v] :
          Sebelum(r.kunci, s.kunci) \/ (r.kunci = s.kunci /\ v \in depan[u])
    BY DEF Atas
  <2>3. q = r
    BY DEF UInv, AntreanLurus
  <2>4. u \in depan[t] /\ v \in depan[u] => v \in depan[t]
    BY DEF UInv, AntreanLurus
  <2>5. Sebelum(p.kunci, s.kunci) \/ (p.kunci = s.kunci /\ v \in depan[t])
    BY <1>1, <2>1, <2>2, <2>3, <2>4, SebelumUrutan
  <2>6. QED BY <2>5 DEF Atas
<1>5. Siklus(Keras \cup Lunak) = {}
  BY <1>2, <1>3, <1>4, TanpaLingkar
<1>6. \A t, u \in Sesi : <<t, u>> \in Keras /\ (\E v \in Sesi : <<u, v>> \in Keras) => <<t, u>> \in Atas
  BY <1>2
<1>7. Siklus(Keras) = {}
  BY <1>3, <1>4, <1>6, TanpaLingkar
<1>8. QED BY <1>5, <1>7 DEF TanpaSiklus, TanpaDeadlock, Korban

\* A document's rows are in its rooms.
LEMMA RuangBaris ==
  ASSUME NEW d \in Dokumen, NEW s, NEW x \in BarisPosting(d, s)
  PROVE  x.ruang \in RuangDok(d)
<1>1. \A no, i, r, m, k : Gerak(no, d, i, r, m, k).ruang = r
  BY DEF Gerak
<1>2. CASE Isi[d].jenis = "mutasi"
  <2>1. x \in BarisMutasi(d)
    BY <1>2 DEF BarisPosting, Keluaran
  <2>2. CASE \E i \in DOMAIN Isi[d].baris :
               x = Gerak(2 * i, d, i, Isi[d].ruang, 0, Isi[d].baris[i].qty)
    BY <1>1, <2>2 DEF RuangDok
  <2>3. CASE \E i \in DOMAIN Isi[d].baris :
               x = Gerak(2 * i + 1, d, i, Isi[d].tujuan, Isi[d].baris[i].qty, 0)
    BY <1>1, <1>2, <2>3 DEF RuangDok
  <2>4. QED BY <2>1, <2>2, <2>3 DEF BarisMutasi
<1>3. CASE Isi[d].jenis \in Keluaran
  BY <1>1, <1>3 DEF BarisPosting, Keluaran, BarisKeluar, RuangDok
<1>4. CASE Isi[d].jenis = "stok_opname"
  <2>1. x \in BarisOpnameDari(d, s)
    BY <1>4 DEF BarisPosting, Keluaran
  <2>2. \E i, m, k : x = Gerak(i, d, i, Isi[d].ruang, m, k)
    BY <2>1 DEF BarisOpnameDari
  <2>3. QED BY <1>1, <2>2 DEF RuangDok
<1>5. CASE Isi[d].jenis \notin Keluaran \cup {"mutasi", "stok_opname"}
  <2>1. x \in BarisMasuk(d)
    BY <1>5 DEF BarisPosting
  <2>2. QED BY <1>1, <2>1 DEF BarisMasuk, RuangDok
<1>6. QED BY <1>2, <1>3, <1>4, <1>5

\* Cancelling writes in the rooms posting wrote in.
LEMMA RuangBatal ==
  ASSUME KInv, NEW d \in Dokumen, status[d] = "POSTED", NEW x \in BarisBatal(d)
  PROVE  x.ruang \in RuangDok(d) /\ x.bulan = BulanIni
<1>1. PICK k \in kartu : k.dok = d /\ k.asal = Nol /\ x.ruang = k.ruang /\ x.bulan = BulanIni
  BY DEF BarisBatal
<1>2. CocokDokumen(Milik(kartu, d), status[d], BarisPosting(d, sistem[d]))
  BY DEF KInv, KartuCocokStatus, KartuCocok
<1>3. PICK A, H : A = {m \in Milik(kartu, d) : m.asal = Nol} /\ H = BarisPosting(d, sistem[d])
  OBVIOUS
<1>4. {<<m.barang, m.ruang, m.masuk, m.keluar>> : m \in A}
        = {<<y.barang, y.ruang, y.masuk, y.keluar>> : y \in H}
  BY <1>2, <1>3 DEF CocokDokumen
<1>5. k \in A
  BY <1>1, <1>3 DEF Milik
<1>6. <<k.barang, k.ruang, k.masuk, k.keluar>> \in {<<y.barang, y.ruang, y.masuk, y.keluar>> : y \in H}
  BY <1>4, <1>5
<1>7. PICK y \in H : <<k.barang, k.ruang, k.masuk, k.keluar>> = <<y.barang, y.ruang, y.masuk, y.keluar>>
  BY <1>6
<1>8. k.ruang = y.ruang
  BY <1>7
<1>9. y.ruang \in RuangDok(d)
  BY <1>3, RuangBaris
<1>10. QED BY <1>1, <1>8, <1>9

\* What a handler locks before its first insert comes after its document,
\* and has the month and the room of every row.
LEMMA PagarLengkap ==
  ASSUME TypeOK, KInv, TerkunciDulu, NEW d \in Dokumen, NEW g, g.dok = d,
         g.aksi \in {"posting", "batal"}, Rencana(g).boleh,
         g.aksi = "batal" /\ Isi[d].jenis = "stok_opname" => status[d] # "POSTED"
  PROVE  /\ \A p \in Rencana(g).kunci : Sebelum(KDok(d), p.kunci)
         /\ \A x \in Rencana(g).baris :
              /\ Bersama(KPeriode(x.bulan)) \in Rencana(g).kunci
              /\ Bersama(KRuang(x.ruang)) \in Rencana(g).kunci
<1>1. Isi[d].jenis \in {"mutasi", "penjualan", "pemakaian", "saldo_awal", "stok_opname"}
  BY TipeIsi DEF TerkunciDulu, Jenis, Masukan, Keluaran, Anak
<1>2. \A m, r, b : /\ Sebelum(KDok(d), Bersama(KPeriode(m)).kunci)
                   /\ Sebelum(KDok(d), Bersama(KRuang(r)).kunci)
                   /\ Sebelum(KDok(d), Eksklusifi(KRuang(r)).kunci)
                   /\ Sebelum(KDok(d), Eksklusifi(KSaldo(b, r)).kunci)
  BY DEF Sebelum, KDok, KPeriode, KRuang, KSaldo, Bersama, Eksklusifi
<1>3. CASE g.aksi = "posting"
  <2>1. RencanaPosting(d) \in {PostingMutasi(d), PostingPenjualan(d), PostingPemakaian(d),
                               PostingSaldoAwal(d), PostingOpname(d)}
    BY <1>1 DEF RencanaPosting
  <2>2. Rencana(g).kunci = KunciJalurStok(d)
    BY <1>3, <2>1 DEF Rencana, PostingMutasi, PostingPenjualan, PostingPemakaian, PostingSaldoAwal,
                      PostingOpname
  <2>3. Rencana(g).baris = BarisPosting(d, sistem[d])
    BY <1>3, BarisRencana DEF Rencana
  <2>4. \A p \in KunciJalurStok(d) : Sebelum(KDok(d), p.kunci)
    BY <1>2 DEF KunciJalurStok
  <2>5. \A x \in BarisPosting(d, sistem[d]) : x.bulan = Isi[d].bulan /\ x.ruang \in RuangDok(d)
    BY BarisHingga, RuangBaris
  <2>6. QED BY <2>2, <2>3, <2>4, <2>5 DEF KunciJalurStok
<1>4. CASE g.aksi = "batal"
  <2>1. Rencana(g) = RencanaBatal(d)
    BY <1>4 DEF Rencana
  <2>2. CASE Isi[d].jenis = "stok_opname"
    <3>1. Rencana(g).kunci = {Eksklusifi(KRuang(Isi[d].ruang))} /\ Rencana(g).baris = {}
      BY <1>4, <2>1, <2>2 DEF RencanaBatal, BatalOpname
    <3>2. QED BY <1>2, <3>1
  <2>3. CASE status[d] # "POSTED" /\ Isi[d].jenis = "saldo_awal"
    <3>1. Rencana(g).kunci = {} /\ Rencana(g).baris = {}
      BY <2>1, <2>3 DEF RencanaBatal, BatalSaldoAwal
    <3>2. QED BY <3>1
  <2>4. CASE Isi[d].jenis # "stok_opname" /\ (status[d] = "POSTED" \/ Isi[d].jenis # "saldo_awal")
    <3>1. /\ Rencana(g).kunci = KunciJalurPembalik(d) /\ Rencana(g).baris = BarisBatal(d)
          /\ status[d] = "POSTED"
      <4>1. CASE Isi[d].jenis = "saldo_awal"
        BY <2>1, <2>4, <4>1 DEF RencanaBatal, BatalSaldoAwal, BatalMutasi
      <4>2. CASE Isi[d].jenis # "saldo_awal"
        <5>1. RencanaBatal(d) = BatalMutasi(d)
          <6>1. CASE Isi[d].jenis = "mutasi"
            BY <6>1 DEF RencanaBatal
          <6>2. CASE Isi[d].jenis = "penjualan"
            BY <6>2 DEF RencanaBatal, BatalPenjualan
          <6>3. CASE Isi[d].jenis = "pemakaian"
            BY <6>3 DEF RencanaBatal, BatalPemakaian
          <6>4. QED BY <1>1, <2>4, <4>2, <6>1, <6>2, <6>3
        <5>2. Rencana(g) = BatalMutasi(d) /\ Rencana(g).boleh
          BY <2>1, <5>1
        <5>3. /\ BatalMutasi(d).boleh = (status[d] = "POSTED")
              /\ BatalMutasi(d).kunci = KunciJalurPembalik(d)
              /\ BatalMutasi(d).baris = BarisBatal(d)
          BY DEF BatalMutasi
        <5>4. BatalMutasi(d).boleh
          BY <5>2
        <5>5. QED BY <5>2, <5>3, <5>4
      <4>3. QED BY <4>1, <4>2
    <3>2. \A p \in KunciJalurPembalik(d) : Sebelum(KDok(d), p.kunci)
      BY <1>2 DEF KunciJalurPembalik, KunciSaldoBatal
    <3>3. \A x \in BarisBatal(d) : x.ruang \in RuangDok(d) /\ x.bulan = BulanIni
      BY <3>1, RuangBatal
    <3>4. QED BY <3>1, <3>2, <3>3 DEF KunciJalurPembalik
  <2>5. QED BY <2>2, <2>3, <2>4
<1>5. QED BY <1>3, <1>4
-----------------------------------------------------------------------------
\* A session whose request is answered holds it, or waits for nothing else.
LEMMA MintaPilah ==
  ASSUME KunciSah, NEW t \in Sesi, NEW p, Jalan(t), Minta(t, p)
  PROVE  \/ pegang'[t] = pegang[t] /\ tunggu'[t] = {} /\ SudahPunya(t, p)
         \/ pegang'[t] = pegang[t] \cup {p} /\ tunggu'[t] = {} /\ ~SudahPunya(t, p)
         \/ pegang'[t] = pegang[t] /\ tunggu'[t] = {p} /\ ~SudahPunya(t, p)
BY DEF KunciSah, TipeKunci, Jalan, Minta, kunciVars

\* What somebody holds already is not asked for again.
LEMMA MintaPunya ==
  ASSUME KunciSah, NEW t \in Sesi, NEW p, Jalan(t), Minta(t, p), SudahPunya(t, p)
  PROVE  pegang'[t] = pegang[t] /\ tunggu'[t] = {}
BY MintaPilah

\* Who moves up in a queue, or stays, keeps its order.
LEMMA UrutLain ==
  ASSUME AntreanLurus, NEW u \in Sesi, InvUrut(u), Geser(u),
         pc'[u] = pc[u], tugas'[u] = tugas[u], perlu'[u] = perlu[u], baris'[u] = baris[u]
  PROVE  InvUrut(u)'
<1>1. CASE pegang'[u] = pegang[u] /\ tunggu'[u] = tunggu[u]
  BY <1>1 DEF InvUrut, Dipenuhi, Memegang
<1>2. CASE pegang'[u] = pegang[u] \cup tunggu[u] /\ tunggu'[u] = {}
  BY <1>2 DEF InvUrut, Dipenuhi, Memegang
<1>3. QED BY <1>1, <1>2 DEF Geser

\* Only t did something, and its order holds.
LEMMA UrutSatu ==
  ASSUME UInv, NEW t \in Sesi, AntreanLurus', InvUrut(t)',
         \A u \in Sesi : u # t => /\ Geser(u) /\ pc'[u] = pc[u] /\ tugas'[u] = tugas[u]
                                  /\ perlu'[u] = perlu[u] /\ baris'[u] = baris[u]
  PROVE  UInv'
<1>1. ASSUME NEW u \in Sesi, u # t PROVE InvUrut(u)'
  BY <1>1, UrutLain DEF UInv
<1>2. QED BY <1>1 DEF UInv

\* A transaction that is over holds nothing.
LEMMA UrutBersih ==
  ASSUME IInv, UInv, NEW t \in Sesi, Bersih(t)
  PROVE  UInv'
<1>1. KunciSah
  BY DEF IInv, KunciSah, TypeOK
<1>2. /\ AntreanLurus' /\ \A u \in Sesi : u # t => Geser(u)
      /\ pegang'[t] = {} /\ tunggu'[t] = {}
  BY <1>1, LepasLurus DEF Bersih, UInv
<1>3. /\ pc'[t] = "idle" /\ baris'[t] = {}
      /\ \A u \in Sesi : u # t => /\ pc'[u] = pc[u] /\ tugas'[u] = tugas[u]
                                   /\ perlu'[u] = perlu[u] /\ baris'[u] = baris[u]
  BY DEF Bersih, Lupa, IInv, TypeOK
<1>4. InvUrut(t)'
  BY <1>2, <1>3 DEF InvUrut, Menulis, Pemicu
<1>5. QED BY <1>2, <1>3, <1>4, UrutSatu

\* The first lock of a transaction.
LEMMA UrutMulai ==
  ASSUME IInv, UInv, NEW t \in Sesi, Mulai(t)
  PROVE  UInv'
<1>1. KunciSah
  BY DEF IInv, KunciSah, TypeOK
<1>2. PICK g \in PermintaanMungkin : /\ tugas' = [tugas EXCEPT ![t] = g]
                                     /\ pc' = [pc EXCEPT ![t] = LangkahPertama(g)]
                                     /\ Minta(t, KunciPertama(g))
  BY DEF Mulai
<1>3. /\ pc[t] = "idle" /\ Jalan(t) /\ UNCHANGED <<perlu, baris>>
      /\ tugas'[t] = g /\ pc'[t] = LangkahPertama(g)
      /\ \A u \in Sesi : u # t => pc'[u] = pc[u] /\ tugas'[u] = tugas[u]
  BY <1>2 DEF Mulai, IInv, TypeOK
<1>4. AntreanLurus' /\ \A u \in Sesi : u # t => Geser(u)
  BY <1>1, <1>2, <1>3, MintaLurus DEF UInv
<1>5. pegang[t] = {}
  BY <1>3 DEF UInv, InvUrut
<1>6. \A q \in pegang'[t] \cup tunggu'[t] : q = KunciPertama(g)
  BY <1>1, <1>2, <1>3, <1>5, MintaPilah
<1>7. pegang'[t] = {} \/ tunggu'[t] = {}
  BY <1>1, <1>2, <1>3, <1>5, MintaPilah
<1>8. /\ pc'[t] \in {"dokumen", "opname", "buku"}
      /\ pc'[t] = "dokumen" => KunciPertama(g).kunci = KDok(g.dok)
  BY <1>3 DEF LangkahPertama, KunciPertama, Eksklusifi
<1>9. InvUrut(t)'
  BY <1>3, <1>6, <1>7, <1>8 DEF InvUrut, Menulis, Pemicu
<1>10. QED BY <1>3, <1>4, <1>9, UrutSatu

\* The document is looked at: the list of locks covers its rows.
LEMMA UrutPeriksa ==
  ASSUME TerkunciDulu, IInv, JInv, KInv, UInv, TanpaBatalHitungan, NEW t \in Sesi, PeriksaDokumen(t)
  PROVE  UInv'
<1>1. PICK g : g = tugas[t]
  OBVIOUS
<1>2. CASE /\ Rencana(g).boleh
           /\ pc' = [pc EXCEPT ![t] = "kunci"]
           /\ baris' = [baris EXCEPT ![t] = Rencana(g).baris]
           /\ perlu' = [perlu EXCEPT ![t] = Rencana(g).kunci]
           /\ UNCHANGED <<kunciVars, dataVars, tugas, idBaru, tulis, nextId, mulai>>
  <2>1. /\ pc[t] = "dokumen" /\ Jalan(t) /\ pc'[t] = "kunci"
        /\ baris'[t] = Rencana(g).baris /\ perlu'[t] = Rencana(g).kunci
        /\ UNCHANGED kunciVars /\ UNCHANGED <<tugas, pegang, tunggu>>
        /\ \A u \in Sesi : u # t => pc'[u] = pc[u] /\ baris'[u] = baris[u] /\ perlu'[u] = perlu[u]
    BY <1>1, <1>2 DEF PeriksaDokumen, kunciVars, IInv, TypeOK
  <2>2. g.dok \in Dokumen /\ g.aksi \in {"posting", "batal"}
    BY <1>1, <2>1 DEF IInv, InvSesi, JInv, SemuaDok, InvDok, Luar
  <2>3. g.aksi = "batal" /\ Isi[g.dok].jenis = "stok_opname" => status[g.dok] # "POSTED"
    BY <1>1, <2>2 DEF TanpaBatalHitungan
  <2>4. PICK d \in Dokumen : d = g.dok
    BY <2>2
  <2>5. /\ \A p \in Rencana(g).kunci : Sebelum(KDok(d), p.kunci)
        /\ \A x \in Rencana(g).baris :
             /\ Bersama(KPeriode(x.bulan)) \in Rencana(g).kunci
             /\ Bersama(KRuang(x.ruang)) \in Rencana(g).kunci
    BY <1>2, <2>2, <2>3, <2>4, PagarLengkap DEF IInv
  <2>6. tunggu[t] = {} /\ \A q \in pegang[t] : q.kunci = KDok(d)
    BY <1>1, <2>1, <2>4 DEF UInv, InvUrut, Jalan
  <2>7. InvUrut(t)'
    BY <2>1, <2>5, <2>6 DEF InvUrut, Menulis, Pemicu
  <2>8. AntreanLurus' /\ \A u \in Sesi : Geser(u)
    BY <2>1, AntreanDiam DEF UInv
  <2>9. QED BY <2>1, <2>7, <2>8, UrutSatu
<1>3. CASE Gagal(t)
  BY <1>3, UrutBersih DEF Gagal
<1>4. QED BY <1>1, <1>2, <1>3 DEF PeriksaDokumen

\* The next lock is the least of those still to take.
LEMMA UrutAmbil ==
  ASSUME IInv, UInv, NEW t \in Sesi, AmbilKunci(t)
  PROVE  UInv'
<1>1. KunciSah
  BY DEF IInv, KunciSah, TypeOK
<1>2. PICK p \in perlu[t] : /\ \A q \in perlu[t] \ {p} : Sebelum(p.kunci, q.kunci)
                            /\ Minta(t, p)
                            /\ perlu' = [perlu EXCEPT ![t] = @ \ {p}]
  BY DEF AmbilKunci
<1>3. /\ pc[t] = "kunci" /\ pc'[t] = "kunci" /\ Jalan(t) /\ tunggu[t] = {} /\ UNCHANGED <<pc, tugas, baris>>
      /\ perlu'[t] = perlu[t] \ {p}
      /\ \A u \in Sesi : u # t => perlu'[u] = perlu[u]
  BY <1>2 DEF AmbilKunci, Jalan, IInv, TypeOK
<1>4. AntreanLurus' /\ \A u \in Sesi : u # t => Geser(u)
  BY <1>1, <1>2, <1>3, MintaLurus DEF UInv
<1>5. /\ \A q \in pegang'[t] \cup tunggu'[t] : q \in pegang[t] \cup {p}
      /\ \A q \in tunggu'[t] : q = p /\ pegang'[t] = pegang[t]
      /\ pegang[t] \subseteq pegang'[t]
  BY <1>1, <1>2, <1>3, MintaPilah
<1>6. InvUrut(t)
  BY DEF UInv
<1>7. \A q \in pegang[t] : \A r \in perlu[t] : Sebelum(q.kunci, r.kunci)
  BY <1>3, <1>6 DEF InvUrut
<1>8. \A q \in tunggu'[t], r \in pegang'[t] : Sebelum(r.kunci, q.kunci)
  BY <1>5, <1>7
<1>9. \A r \in perlu'[t], q \in pegang'[t] \cup tunggu'[t] : Sebelum(q.kunci, r.kunci)
  BY <1>2, <1>3, <1>5, <1>7
<1>10. Dipenuhi(t, p)'
  BY <1>2, MintaApaPun DEF IInv
<1>11. \A q : Dipenuhi(t, q) => Dipenuhi(t, q)'
  BY <1>3, <1>5 DEF Dipenuhi
<1>12. \A q : q \in perlu[t] \/ Dipenuhi(t, q) => q \in perlu'[t] \/ Dipenuhi(t, q)'
  BY <1>3, <1>10, <1>11
<1>13. \A y \in baris'[t] :
         /\ Bersama(KPeriode(y.bulan)) \in perlu'[t] \/ Dipenuhi(t, Bersama(KPeriode(y.bulan)))'
         /\ Bersama(KRuang(y.ruang)) \in perlu'[t] \/ Dipenuhi(t, Bersama(KRuang(y.ruang)))'
  <2> TAKE y \in baris'[t]
  <2>1. PICK q, r : q = Bersama(KPeriode(y.bulan)) /\ r = Bersama(KRuang(y.ruang))
    OBVIOUS
  <2>2. (q \in perlu[t] \/ Dipenuhi(t, q)) /\ (r \in perlu[t] \/ Dipenuhi(t, r))
    BY <1>3, <1>6, <2>1 DEF InvUrut
  <2>3. (q \in perlu'[t] \/ Dipenuhi(t, q)') /\ (r \in perlu'[t] \/ Dipenuhi(t, r)')
    BY <1>12, <2>2
  <2>4. QED BY <2>1, <2>3
<1>14. InvUrut(t)'
  BY <1>3, <1>8, <1>9, <1>13 DEF InvUrut, Menulis, Pemicu, Bersama, KPeriode, KRuang
<1>15. QED BY <1>3, <1>4, <1>14, UrutSatu

\* A session that writes and gets no new lock has them all.
LEMMA UrutTetap ==
  ASSUME UInv, NEW t \in Sesi, pc[t] \in Menulis \ {"kunci"}, pc'[t] \in Menulis \ {"kunci"},
         pegang'[t] = pegang[t], tunggu'[t] = {}, baris'[t] \subseteq baris[t]
  PROVE  InvUrut(t)'
<1>1. InvUrut(t)
  BY DEF UInv
<1>2. \A y \in baris'[t] : Memegang(t, KPeriode(y.bulan))' /\ Memegang(t, KRuang(y.ruang))'
  BY <1>1 DEF InvUrut, Memegang, KPeriode, KRuang
<1>3. pc'[t] \notin {"idle", "dokumen", "kunci"}
  BY DEF Menulis, Pemicu
<1>4. QED BY <1>2, <1>3 DEF InvUrut

\* All locks of the list are held.
LEMMA UrutMasuk ==
  ASSUME IInv, UInv, NEW t \in Sesi, PeriksaAwal(t)
  PROVE  UInv'
<1>1. CASE Gagal(t)
  BY <1>1, UrutBersih DEF Gagal
<1>2. CASE ~Gagal(t)
  <2>1. /\ pc[t] = "kunci" /\ Jalan(t) /\ perlu[t] = {} /\ pc' = [pc EXCEPT ![t] = "sisip"]
        /\ UNCHANGED <<kunciVars, dataVars, tugas, perlu, baris, idBaru, tulis, nextId, mulai>>
    BY <1>2 DEF PeriksaAwal
  <2>2. /\ pc'[t] = "sisip" /\ tunggu'[t] = {} /\ UNCHANGED <<tugas, perlu, baris, pegang>>
        /\ \A u \in Sesi : u # t => pc'[u] = pc[u]
    BY <2>1 DEF kunciVars, Jalan, IInv, TypeOK
  <2>3. \A y \in baris[t] : Memegang(t, KPeriode(y.bulan)) /\ Memegang(t, KRuang(y.ruang))
    <3> TAKE y \in baris[t]
    <3>1. Dipenuhi(t, Bersama(KPeriode(y.bulan))) /\ Dipenuhi(t, Bersama(KRuang(y.ruang)))
      BY <2>1 DEF UInv, InvUrut
    <3>2. QED BY <2>1, <3>1, DipenuhiJalan DEF Bersama
  <2>4. \A y \in baris'[t] : Memegang(t, KPeriode(y.bulan))' /\ Memegang(t, KRuang(y.ruang))'
    BY <2>2, <2>3 DEF Memegang, KPeriode, KRuang
  <2>5. InvUrut(t)'
    BY <2>2, <2>4 DEF InvUrut
  <2>6. AntreanLurus' /\ \A u \in Sesi : Geser(u)
    BY <2>1, AntreanDiam DEF UInv
  <2>7. QED BY <2>2, <2>5, <2>6, UrutSatu
<1>3. QED BY <1>1, <1>2

\* What a session that writes asks for, it holds.
LEMMA UrutMinta ==
  ASSUME IInv, UInv, NEW t \in Sesi, NEW p, Jalan(t), Minta(t, p), SudahPunya(t, p),
         UNCHANGED <<tugas, perlu, baris>>,
         pc[t] \in Menulis \ {"kunci"}, pc'[t] \in Menulis \ {"kunci"},
         \A u \in Sesi : u # t => pc'[u] = pc[u]
  PROVE  UInv'
<1>1. KunciSah
  BY DEF IInv, KunciSah, TypeOK
<1>2. pegang'[t] = pegang[t] /\ tunggu'[t] = {}
  BY <1>1, MintaPunya
<1>3. AntreanLurus' /\ \A u \in Sesi : u # t => Geser(u)
  BY <1>1, MintaLurus DEF UInv
<1>4. InvUrut(t)'
  BY <1>2, UrutTetap
<1>5. QED BY <1>3, <1>4, UrutSatu

\* A key that is held, in whatever mode, is held for reading,
LEMMA PunyaBersama ==
  ASSUME TypeOK, NEW t \in Sesi, NEW k, Memegang(t, k)
  PROVE  SudahPunya(t, Bersama(k))
<1>1. \A q \in pegang[t] : q.mode \in Mode
  BY DEF TypeOK, TipeKunci, Permintaan
<1>2. QED BY <1>1 DEF Memegang, SudahPunya, Bersama, Mode

\* and one that is held exclusively, for writing.
LEMMA PunyaEksklusif ==
  ASSUME NEW t, NEW k, MemegangX(t, k)
  PROVE  SudahPunya(t, Eksklusifi(k))
BY DEF MemegangX, SudahPunya, Eksklusifi

\* The trigger's locks are held already, and so is the document's row.
LEMMA UrutTulis ==
  ASSUME TerkunciDulu, IInv, JInv, SInv, UInv, NEW t \in Sesi,
         Sisip(t) \/ TrgPeriode(t) \/ TrgRuang(t) \/ Perbarui(t)
  PROVE  UInv'
<1>1. CASE Gagal(t)
  BY <1>1, UrutBersih DEF Gagal
<1>2. PICK x : x = BarisBerikut(t)
  OBVIOUS
<1>4. CASE Sisip(t)
  <2>1. /\ pc[t] = "sisip" /\ pc'[t] = "trg_periode" /\ Jalan(t) /\ UNCHANGED <<tugas, perlu, baris>>
        /\ Minta(t, Bersama(KPeriode(x.bulan))) /\ Berikut(t) # {}
        /\ \A u \in Sesi : u # t => pc'[u] = pc[u]
    BY <1>2, <1>4 DEF Sisip, IInv, TypeOK
  <2>2. x \in baris[t]
    BY <1>2, <2>1 DEF BarisBerikut, Berikut
  <2>3. Memegang(t, KPeriode(x.bulan))
    BY <2>1, <2>2 DEF UInv, InvUrut, Menulis
  <2>4. SudahPunya(t, Bersama(KPeriode(x.bulan)))
    BY <2>3, PunyaBersama DEF IInv
  <2>5. pc[t] \in Menulis \ {"kunci"} /\ pc'[t] \in Menulis \ {"kunci"}
    BY <2>1 DEF Menulis, Pemicu
  <2>6. QED BY <2>1, <2>4, <2>5, UrutMinta
<1>5. CASE TrgPeriode(t) /\ ~Gagal(t)
  <2>1. /\ pc[t] = "trg_periode" /\ pc'[t] = "trg_ruang" /\ Jalan(t) /\ UNCHANGED <<tugas, perlu, baris>>
        /\ Minta(t, Bersama(KRuang(x.ruang)))
        /\ \A u \in Sesi : u # t => pc'[u] = pc[u]
    BY <1>2, <1>5 DEF TrgPeriode, IInv, TypeOK
  <2>2. x \in baris[t]
    BY <1>2, <2>1, AdaBerikut DEF Pemicu
  <2>3. pc[t] \in Menulis \ {"kunci"} /\ pc'[t] \in Menulis \ {"kunci"}
    BY <2>1 DEF Menulis, Pemicu
  <2>4. Memegang(t, KRuang(x.ruang))
    BY <2>2, <2>3 DEF UInv, InvUrut
  <2>5. SudahPunya(t, Bersama(KRuang(x.ruang)))
    BY <2>4, PunyaBersama DEF IInv
  <2>6. QED BY <2>1, <2>3, <2>5, UrutMinta
<1>6. CASE TrgRuang(t) /\ ~Gagal(t)
  <2>1. /\ pc[t] = "trg_ruang" /\ pc'[t] = "trg_saldo" /\ Jalan(t) /\ UNCHANGED <<tugas, perlu, baris>>
        /\ Minta(t, Eksklusifi(KSaldo(x.barang, x.ruang)))
        /\ \A u \in Sesi : u # t => pc'[u] = pc[u]
    BY <1>2, <1>6 DEF TrgRuang, IInv, TypeOK
  <2>2. x \in baris[t]
    BY <1>2, <2>1, AdaBerikut DEF Pemicu
  <2>3. pc[t] \in Menulis \ {"kunci"} /\ pc'[t] \in Menulis \ {"kunci"}
    BY <2>1 DEF Menulis, Pemicu
  <2>4. MemegangX(t, KSaldo(x.barang, x.ruang))
    BY <2>2, <2>3 DEF SInv, InvSaldo
  <2>5. SudahPunya(t, Eksklusifi(KSaldo(x.barang, x.ruang)))
    BY <2>4, PunyaEksklusif
  <2>6. QED BY <2>1, <2>3, <2>5, UrutMinta
<1>7. CASE Perbarui(t)
  <2>1. /\ pc[t] = "sisip" /\ pc'[t] = "akhir" /\ Jalan(t) /\ UNCHANGED <<tugas, perlu, baris>>
        /\ Minta(t, KunciAkhir(tugas[t].dok))
        /\ \A u \in Sesi : u # t => pc'[u] = pc[u]
    BY <1>7 DEF Perbarui, IInv, TypeOK
  <2>2. pc[t] \in Menulis \ {"kunci"} /\ pc'[t] \in Menulis \ {"kunci"}
    BY <2>1 DEF Menulis, Pemicu
  <2>3. tugas[t].dok \in Dokumen /\ MemegangX(t, KDok(tugas[t].dok))
    BY <2>2, PunyaDokumen
  <2>4. KunciAkhir(tugas[t].dok) = Eksklusifi(KDok(tugas[t].dok))
    BY <2>3 DEF KunciAkhir, TerkunciDulu
  <2>5. SudahPunya(t, KunciAkhir(tugas[t].dok))
    BY <2>3, <2>4, PunyaEksklusif
  <2>6. QED BY <2>1, <2>2, <2>5, UrutMinta
<1>8. QED BY <1>1, <1>4, <1>5, <1>6, <1>7

\* A row less to insert, and no lock.
LEMMA UrutSaldo ==
  ASSUME IInv, UInv, NEW t \in Sesi, TrgSaldo(t)
  PROVE  UInv'
<1>1. CASE Gagal(t)
  BY <1>1, UrutBersih DEF Gagal
<1>2. CASE ~Gagal(t)
  <2>1. PICK x : x = BarisBerikut(t)
    OBVIOUS
  <2>2. /\ pc[t] = "trg_saldo" /\ Jalan(t) /\ pc' = [pc EXCEPT ![t] = "sisip"]
        /\ baris' = [baris EXCEPT ![t] = @ \ {x}]
        /\ UNCHANGED <<kunciVars, dataVars, tugas, perlu, idBaru, nextId, mulai>>
    BY <1>2, <2>1 DEF TrgSaldo
  <2>3. /\ pc'[t] = "sisip" /\ baris'[t] \subseteq baris[t] /\ pegang'[t] = pegang[t] /\ tunggu'[t] = {}
        /\ UNCHANGED kunciVars
        /\ \A u \in Sesi : u # t => /\ pc'[u] = pc[u] /\ tugas'[u] = tugas[u]
                                     /\ perlu'[u] = perlu[u] /\ baris'[u] = baris[u]
    BY <2>2 DEF kunciVars, Jalan, IInv, TypeOK
  <2>4. pc[t] \in Menulis \ {"kunci"} /\ pc'[t] \in Menulis \ {"kunci"}
    BY <2>2, <2>3 DEF Menulis, Pemicu
  <2>5. InvUrut(t)'
    BY <2>3, <2>4, UrutTetap
  <2>6. AntreanLurus' /\ \A u \in Sesi : Geser(u)
    BY <2>3, AntreanDiam DEF UInv
  <2>7. QED BY <2>3, <2>5, <2>6, UrutSatu
<1>3. QED BY <1>1, <1>2

\* Nothing but the queues moves.
LEMMA UrutGeser ==
  ASSUME UInv, UNCHANGED sesiVars, AntreanLurus', \A u \in Sesi : Geser(u)
  PROVE  UInv'
<1>1. \A u \in Sesi : pc'[u] = pc[u] /\ tugas'[u] = tugas[u] /\ perlu'[u] = perlu[u] /\ baris'[u] = baris[u]
  BY DEF sesiVars
<1>2. ASSUME NEW u \in Sesi PROVE InvUrut(u)'
  BY <1>1, UrutLain DEF UInv
<1>3. QED BY <1>2 DEF UInv

\* At first nobody holds or waits for anything,
LEMMA UrutAwal == Init => UInv
<1> SUFFICES ASSUME Init PROVE UInv
  OBVIOUS
<1>1. AntreanLurus
  BY AntreanAwal DEF Init
<1>2. \A t \in Sesi : pegang[t] = {} /\ tunggu[t] = {} /\ pc[t] = "idle"
  BY DEF Init, InitKunci
<1>3. QED BY <1>1, <1>2 DEF UInv, InvUrut, Menulis, Pemicu

\* and every step keeps the order.
LEMMA UrutInduktif ==
  ASSUME TerkunciDulu, IInv, JInv, KInv, SInv, UInv, TanpaBatalHitungan, [Next]_vars
  PROVE  UInv'
<1>1. KunciSah
  BY DEF IInv, KunciSah, TypeOK
<1>2. ASSUME NEW t \in Sesi,
             Selesai(t) \/ TutupBuku(t) \/ BukaBuku(t) \/ BukaOpname(t) \/ BatalkanKorban(t)
      PROVE  UInv'
  <2>1. Bersih(t)
    BY <1>2 DEF Selesai, TutupBuku, BukaBuku, BukaOpname, BatalkanKorban, Gagal
  <2>2. QED BY <2>1, UrutBersih
<1>3. ASSUME NEW t \in Sesi, Langkah(t) PROVE UInv'
  BY <1>2, <1>3, UrutPeriksa, UrutAmbil, UrutMasuk, UrutTulis, UrutSaldo DEF Langkah
<1>4. ASSUME NEW t \in Sesi, SusunAntrean(t) PROVE UInv'
  BY <1>1, <1>4, SusunLurus, UrutGeser DEF SusunAntrean, UInv
<1>5. ASSUME UNCHANGED <<kunciVars, sesiVars>> PROVE UInv'
  BY <1>5, AntreanDiam, UrutGeser DEF UInv
<1>6. ASSUME NEW d \in Dokumen, TarikSaldo(d) \/ ReplaceDetail(d) \/ Ajukan(d) \/ Tolak(d) PROVE UInv'
  BY <1>5, <1>6 DEF TarikSaldo, ReplaceDetail, Ajukan, Tolak
<1>7. UNCHANGED vars => UInv'
  BY <1>5 DEF vars
<1>8. QED BY <1>2, <1>3, <1>4, <1>6, <1>7, UrutMulai DEF Next, Diam

\* Where no purchase, receipt or return writes and no posted count is being
\* cancelled, everybody locks the document, the months, the rooms and the
\* pairs in one order: nobody ever waits in a circle, not even one that only
\* the order of a queue closes and only deadlock_timeout resolves, and nobody
\* is ever the victim of a deadlock, whatever the number of sessions.
THEOREM TidakPernahMelingkar ==
  ASSUME TerkunciDulu
  PROVE  Spec /\ []TanpaBatalHitungan => [](TanpaSiklus /\ TanpaDeadlock)
<1>1. IInv /\ JInv /\ KInv /\ SInv /\ [Next]_vars => SInv'
  BY SaldoInduktif
<1>2. IInv /\ JInv /\ KInv /\ SInv /\ UInv /\ TanpaBatalHitungan /\ [Next]_vars => UInv'
  BY UrutInduktif
<1>3. IInv /\ UInv => TanpaSiklus /\ TanpaDeadlock
  BY UrutBebas DEF IInv
<1>4. Spec /\ []TanpaBatalHitungan => [](IInv /\ JInv /\ KInv /\ SInv /\ UInv)
  BY <1>1, <1>2, AwalBenar, Induktif, DokumenAwal, DokumenInduktif, KartuAwalBenar,
     KartuInduktif, SaldoAwalBenar, UrutAwal, PTL DEF Spec
<1>5. QED BY <1>3, <1>4, PTL

\* So it is where nothing is counted at all: transfers, sales, uses and
\* opening balances, with months closed and opened between them.
COROLLARY TanpaHitunganTidakMelingkar ==
  ASSUME TerkunciDulu, \A d \in Dokumen : Isi[d].jenis # "stok_opname"
  PROVE  Spec => [](TanpaSiklus /\ TanpaDeadlock)
<1>1. TanpaBatalHitungan
  BY DEF TanpaBatalHitungan
<1>2. QED BY <1>1, TidakPernahMelingkar, PTL
=============================================================================
