-------------------------- MODULE MCLayanan_proof --------------------------
(***************************************************************************)
(* The types of all components at once: a behaviour of MCLayanan is one of *)
(* the component its initial state picks, which no step changes, so it is  *)
(* enough that each component keeps its own.                               *)
(***************************************************************************)
EXTENDS MCLayanan, Nilai_proof, Piutang_proof, Layanan_proof

LEMMA BagianTetap ==
  ASSUME NEW b
  PROVE  ~(bagian = b) /\ [NextLayanan]_varsLayanan => ~(bagian = b)'
BY DEF NextLayanan, varsLayanan

\* Every variable of every component keeps its type, and its rows the CHECKs,
\* unique indexes and exclusion constraint TypeOKLayanan names, for any
\* requests, workers, rows and bounds.
THEOREM TipeSelaluBenar == SpecLayanan => []TypeOKLayanan
<1>1. SpecLayanan => [](bagian = "piutang" => TypeOKPiutang)
  <2>1. bagian = "piutang" /\ InitLayanan => InitPiutang
    BY DEF InitLayanan
  <2>2. bagian = "piutang" /\ [NextLayanan]_varsLayanan =>
          [NextPiutang]_varsPiutang /\ (bagian = "piutang")'
    BY DEF NextLayanan, varsLayanan
  <2>3. ~(bagian = "piutang") /\ [NextLayanan]_varsLayanan => ~(bagian = "piutang")'
    BY BagianTetap
  <2>4. QED BY <2>1, <2>2, <2>3, TipePiutangSelalu, PTL DEF SpecLayanan, SpecPiutang
<1>2. SpecLayanan => [](bagian = "nilai" => TypeOKNilai)
  <2>1. bagian = "nilai" /\ InitLayanan => InitNilai
    BY DEF InitLayanan
  <2>2. bagian = "nilai" /\ [NextLayanan]_varsLayanan =>
          [NextNilai]_varsNilai /\ (bagian = "nilai")'
    BY DEF NextLayanan, varsLayanan
  <2>3. ~(bagian = "nilai") /\ [NextLayanan]_varsLayanan => ~(bagian = "nilai")'
    BY BagianTetap
  <2>4. QED BY <2>1, <2>2, <2>3, TipeNilaiSelalu, PTL DEF SpecLayanan, SpecNilai
<1>3. SpecLayanan => [](bagian = "alokasi" => TypeOKAlokasi)
  <2>1. bagian = "alokasi" /\ InitLayanan => InitAlokasi
    BY DEF InitLayanan
  <2>2. bagian = "alokasi" /\ [NextLayanan]_varsLayanan =>
          [NextAlokasi]_varsAlokasi /\ (bagian = "alokasi")'
    BY DEF NextLayanan, varsLayanan
  <2>3. ~(bagian = "alokasi") /\ [NextLayanan]_varsLayanan => ~(bagian = "alokasi")'
    BY BagianTetap
  <2>4. QED BY <2>1, <2>2, <2>3, TipeAlokasiSelalu, PTL DEF SpecLayanan, SpecAlokasi
<1>4. SpecLayanan => [](bagian = "lampiran" => TypeOKLampiran)
  <2>1. bagian = "lampiran" /\ InitLayanan => InitLampiran
    BY DEF InitLayanan
  <2>2. bagian = "lampiran" /\ [NextLayanan]_varsLayanan =>
          [NextLampiran]_varsLampiran /\ (bagian = "lampiran")'
    BY DEF NextLayanan, varsLayanan
  <2>3. ~(bagian = "lampiran") /\ [NextLayanan]_varsLayanan => ~(bagian = "lampiran")'
    BY BagianTetap
  <2>4. QED BY <2>1, <2>2, <2>3, TipeLampiranSelalu, PTL DEF SpecLayanan, SpecLampiran
<1>5. SpecLayanan => [](bagian = "presensi" => TypeOKPresensi)
  <2>1. bagian = "presensi" /\ InitLayanan => InitPresensi
    BY DEF InitLayanan
  <2>2. bagian = "presensi" /\ [NextLayanan]_varsLayanan =>
          [NextPresensi]_varsPresensi /\ (bagian = "presensi")'
    BY DEF NextLayanan, varsLayanan
  <2>3. ~(bagian = "presensi") /\ [NextLayanan]_varsLayanan => ~(bagian = "presensi")'
    BY BagianTetap
  <2>4. QED BY <2>1, <2>2, <2>3, TipePresensiSelalu, PTL DEF SpecLayanan, SpecPresensi
<1>6. SpecLayanan => [](bagian = "harga" => TypeOKHarga)
  <2>1. bagian = "harga" /\ InitLayanan => InitHarga
    BY DEF InitLayanan
  <2>2. bagian = "harga" /\ [NextLayanan]_varsLayanan =>
          [NextHarga]_varsHarga /\ (bagian = "harga")'
    BY DEF NextLayanan, varsLayanan
  <2>3. ~(bagian = "harga") /\ [NextLayanan]_varsLayanan => ~(bagian = "harga")'
    BY BagianTetap
  <2>4. QED BY <2>1, <2>2, <2>3, TipeHargaSelalu, PTL DEF SpecLayanan, SpecHarga
<1>7. SpecLayanan => [](bagian = "akses" => TypeOKAkses)
  <2>1. bagian = "akses" /\ InitLayanan => InitAkses
    BY DEF InitLayanan
  <2>2. bagian = "akses" /\ [NextLayanan]_varsLayanan =>
          [NextAkses]_varsAkses /\ (bagian = "akses")'
    BY DEF NextLayanan, varsLayanan
  <2>3. ~(bagian = "akses") /\ [NextLayanan]_varsLayanan => ~(bagian = "akses")'
    BY BagianTetap
  <2>4. QED BY <2>1, <2>2, <2>3, TipeAksesSelalu, PTL DEF SpecLayanan, SpecAkses
<1>8. SpecLayanan => [](bagian = "throttle" => TypeOKThrottle)
  <2>1. bagian = "throttle" /\ InitLayanan => InitThrottle
    BY DEF InitLayanan
  <2>2. bagian = "throttle" /\ [NextLayanan]_varsLayanan =>
          [NextThrottle]_varsThrottle /\ (bagian = "throttle")'
    BY DEF NextLayanan, varsLayanan
  <2>3. ~(bagian = "throttle") /\ [NextLayanan]_varsLayanan => ~(bagian = "throttle")'
    BY BagianTetap
  <2>4. QED BY <2>1, <2>2, <2>3, TipeThrottleSelalu, PTL DEF SpecLayanan, SpecThrottle
<1>9. SpecLayanan => [](bagian = "master" => TypeOKMaster)
  <2>1. bagian = "master" /\ InitLayanan => InitMaster
    BY DEF InitLayanan
  <2>2. bagian = "master" /\ [NextLayanan]_varsLayanan =>
          [NextMaster]_varsMaster /\ (bagian = "master")'
    BY DEF NextLayanan, varsLayanan
  <2>3. ~(bagian = "master") /\ [NextLayanan]_varsLayanan => ~(bagian = "master")'
    BY BagianTetap
  <2>4. QED BY <2>1, <2>2, <2>3, TipeMasterSelalu, PTL DEF SpecLayanan, SpecMaster
<1>10. SpecLayanan => [](bagian = "produk" => TypeOKProduk /\ SatuanDasarAda)
  <2>1. bagian = "produk" /\ InitLayanan => InitProduk
    BY DEF InitLayanan
  <2>2. bagian = "produk" /\ [NextLayanan]_varsLayanan =>
          [NextProduk]_varsProduk /\ (bagian = "produk")'
    BY DEF NextLayanan, varsLayanan
  <2>3. ~(bagian = "produk") /\ [NextLayanan]_varsLayanan => ~(bagian = "produk")'
    BY BagianTetap
  <2>4. QED
    BY <2>1, <2>2, <2>3, TipeProdukSelalu, SatuanDasarSelaluAda, PTL DEF SpecLayanan, SpecProduk
<1>11. SpecLayanan => [](bagian = "utang" => TypeOKUtang)
  <2>1. bagian = "utang" /\ InitLayanan => InitUtang
    BY DEF InitLayanan
  <2>2. bagian = "utang" /\ [NextLayanan]_varsLayanan =>
          [NextUtang]_varsUtang /\ (bagian = "utang")'
    BY DEF NextLayanan, varsLayanan
  <2>3. ~(bagian = "utang") /\ [NextLayanan]_varsLayanan => ~(bagian = "utang")'
    BY BagianTetap
  <2>4. QED BY <2>1, <2>2, <2>3, TipeUtangSelalu, PTL DEF SpecLayanan, SpecUtang
<1>12. SpecLayanan => [](bagian = "laporan" => TypeOKLaporan)
  <2>1. bagian = "laporan" /\ InitLayanan => InitLaporan
    BY DEF InitLayanan
  <2>2. bagian = "laporan" /\ [NextLayanan]_varsLayanan =>
          [NextLaporan]_varsLaporan /\ (bagian = "laporan")'
    BY DEF NextLayanan, varsLayanan
  <2>3. ~(bagian = "laporan") /\ [NextLayanan]_varsLayanan => ~(bagian = "laporan")'
    BY BagianTetap
  <2>4. QED BY <2>1, <2>2, <2>3, TipeLaporanSelalu, PTL DEF SpecLayanan, SpecLaporan
<1>13. QED
  BY <1>1, <1>2, <1>3, <1>4, <1>5, <1>6, <1>7, <1>8, <1>9, <1>10, <1>11, <1>12, PTL
    DEF TypeOKLayanan
=============================================================================
