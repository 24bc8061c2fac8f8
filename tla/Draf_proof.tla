----------------------------- MODULE Draf_proof -----------------------------
(***************************************************************************)
(* Proofs about Draf.  IInv says of the rows what the properties say of    *)
(* them and that no counter is behind a number of its series; and of each  *)
(* session which lock it has, or still asks for, before it does what it is *)
(* about to do: its document's row (Terkunci), the row of its series       *)
(* (SeriBenar), the purchase (IndukBenar), the memberships of the goods it *)
(* brings in (MasukBenar) and of those it takes out (CabutBenar).          *)
(*                                                                         *)
(* A step of one session is Aman: what it changes, it has locked.  So the  *)
(* others may go on believing what they read (LainBenar), and it is left   *)
(* to show for each commit that the rows are right after it (DataBenar')   *)
(* and that its document goes on from where it was (Lanjut).               *)
(***************************************************************************)
EXTENDS Draf, Dasar_proof

\* t holds a lock on k, of whatever strength.
Dipegang(t, k) == \E q \in pegang[t] : q.kunci = k

AksiDok == {"ubah", "ganti", "posting", "batal", "ajukan", "tolak", "setujui"}

\* What a session was asked to do with a document there is, of kind j.
SahAksi(g, j) ==
  /\ g.dok \in Dok
  /\ g.aksi = "ubah" => g.patch \in Patch[j]
  /\ g.aksi = "ganti" => g.baris \in PilihanBaris
  /\ g.aksi \in {"posting", "batal"} => j \in Berstok
  /\ g.aksi \in {"ajukan", "tolak"} => j # "mutasi"
  /\ g.aksi \in {"tolak", "setujui"} => g.orang \in Orang
  /\ g.aksi = "setujui" => j = "pemakaian"

\* ... with a new one.
SahBuat(g) ==
  /\ g.dok \in Dok /\ g.jenis \in Jenis /\ g.isi \in Isian[g.jenis] /\ g.baris \in PilihanBaris
  /\ dok[g.dok].status = "TIADA" /\ dok[g.dok].jenis = g.jenis

SahKatalog(g) == g.barang \in Barang /\ g.unit \subseteq Unit

TipeDapat == [kode : Kode \cup {TanpaKode}, nomor : Nat, baru : SUBSET Unit, unit : SUBSET Unit]

\* Rows and sessions are what they should be.
TipeData ==
  /\ dok \in [Dok -> KepalaDok] /\ hitung \in [Jenis \X Unit -> Nat]
  /\ kode \in [Unit -> Kode \cup {TanpaKode}] /\ katalog \subseteq Barang \X Unit
  /\ stok \in [Barang \X Ruang -> Nat] /\ pernah \subseteq Barang \X Ruang
  /\ indukPosted \in BOOLEAN /\ mulai \in 0..MaksMulai

TipeSesi ==
  /\ pc \in [Sesi -> {"idle", "baca", "ambil", "periksa", "cabut"}]
  /\ DOMAIN tugas = Sesi /\ DOMAIN salinan = Sesi
  /\ perlu \in [Sesi -> Seq(PermintaanDraf)] /\ dapat \in [Sesi -> TipeDapat]

\* What a session does fits where it is.
Kerja(t) ==
  LET g == tugas[t] IN
  /\ pc[t] = "idle" => g = Menganggur /\ dapat[t] = Hampa
  /\ pc[t] # "idle" => g.aksi \in AksiDok \cup {"buat", "katalog"}
  /\ pc[t] \in {"idle", "baca"} => perlu[t] = <<>>
  /\ pc[t] = "cabut" => g.aksi = "katalog"
  /\ g.aksi = "buat" => pc[t] \in {"ambil", "periksa"} /\ SahBuat(g)
  /\ g.aksi = "katalog" => SahKatalog(g)
  /\ g.aksi \in AksiDok => SahAksi(g, dok[g.dok].jenis) /\ dok[g.dok].status # "TIADA"

Berbeda == \A t, u \in Sesi : t # u /\ tugas[t].aksi = "buat" /\ tugas[u].aksi = "buat" =>
                                tugas[t].dok # tugas[u].dok

\* The status is the one the handler asks for.
StatusBenar(g, b) ==
  /\ g.aksi \in {"ubah", "ganti", "ajukan"} => b.status = "DRAFT"
  /\ g.aksi \in {"tolak", "setujui"} => b.status = "DIAJUKAN"
  /\ g.aksi = "posting" => b.status = SebelumPosting(b.jenis)
  /\ g.aksi = "batal" => BolehBatal(b)

\* What a session holds where it is, and what it read is still so.
Terkunci(t) ==
  LET g == tugas[t] IN
  /\ pc[t] \in {"idle", "ambil", "cabut"} => Jalan(t)
  /\ g.aksi = "katalog" /\ pc[t] = "baca" => Jalan(t)
  /\ pc[t] = "periksa" =>
       /\ perlu[t] # <<>> /\ Dipenuhi(t, Head(perlu[t]))
       /\ Head(perlu[t]).kunci[1] = "document_counter" => dapat[t].kode \in Kode
  /\ g.aksi \in AksiDok /\ pc[t] = "baca" => Dipenuhi(t, Eks(KDok(g.dok)))
  /\ g.aksi \in AksiDok /\ pc[t] \in {"ambil", "periksa"} =>
       MemegangX(t, KDok(g.dok)) /\ salinan[t] = dok[g.dok] /\ StatusBenar(g, dok[g.dok])

\* The request for the series is still to come, or the number is drawn.
SeriBenar(t) ==
  LET g == tugas[t]
      u == UnitRuang[g.isi.ruang]
      p == Eks(KSeri(g.jenis, u)) IN
  /\ \A q \in ToSet(perlu[t]) : q.kunci[1] = "document_counter" => g.aksi = "buat" /\ q = p
  /\ g.aksi = "buat" =>
       \/ p \in ToSet(perlu[t])
       \/ MemegangX(t, p.kunci) /\ dapat[t].kode \in Kode /\ dapat[t].nomor = hitung[<<g.jenis, u>>] + 1

IndukBenar(t) ==
  LET g == tugas[t] IN
  pc[t] \in {"ambil", "periksa"} /\ g.aksi \in {"buat", "ganti"} /\ dok[g.dok].jenis \in Anak =>
    Eks(KInduk) \in ToSet(perlu[t]) \/ (MemegangX(t, KInduk) /\ indukPosted)

\* What a posting brings in, the unit may have.
MasukBenar(t) ==
  LET b == salinan[t] IN
  pc[t] \in {"ambil", "periksa"} /\ tugas[t].aksi = "posting" =>
    \A i \in Bergerak(b) : \A r \in MasukKe(b) :
      LET k == KKatalog(b.baris[i].barang, UnitRuang[r]) IN
      Bagi(k) \in ToSet(perlu[t]) \/ (Dipegang(t, k) /\ <<k[2], k[3]>> \in katalog)

\* What a session takes out of the catalog, nobody can bring in.
CabutBenar(t) ==
  LET g == tugas[t] IN
  g.aksi = "katalog" =>
    /\ \A q \in ToSet(perlu[t]) : q.mode = "X" /\ q.kunci[1] = "product_unit_kerja" /\ q.kunci[2] = g.barang
    /\ \A u \in dapat[t].unit : MemegangX(t, KKatalog(g.barang, u))
    /\ pc[t] = "cabut" => \A u \in dapat[t].unit : \A r \in Ruang :
         UnitRuang[r] = u /\ stok[<<g.barang, r>>] > 0 => <<g.barang, u>> \in DibawaBatal

NomorBeda == \A d, e \in Bernomor : d # e => Tercetak(dok[d].nomor) # Tercetak(dok[e].nomor)

HitungDiAtas ==
  \A d \in Bernomor : dok[d].nomor.urut <= hitung[<<dok[d].nomor.awalan, dok[d].nomor.unit>>]

Ditolak == \A d \in Dok : dok[d].status = "DITOLAK" => dok[d].jenis = "pemakaian"

DataBenar ==
  /\ TipeData /\ NomorBeda /\ HitungDiAtas /\ Ditolak
  /\ DisetujuiOrangLain /\ HanyaBatalMembocorkan

SesiBenar(t) ==
  Kerja(t) /\ Terkunci(t) /\ SeriBenar(t) /\ IndukBenar(t) /\ MasukBenar(t) /\ CabutBenar(t)

\* The inductive invariant.
IInv ==
  /\ DataBenar /\ TipeSesi /\ TipeKunci(PermintaanDraf) /\ KunciSah
  /\ Berbeda /\ \A t \in Sesi : SesiBenar(t)

-----------------------------------------------------------------------------
(* Lines.                                                                  *)
LEMMA AngkaBaris ==
  ASSUME NEW p \in BarisIsian
  PROVE  /\ FaktorBaris(p) \in Nat
         /\ \A n \in Nat : Dasar(p, n) \in Nat
         /\ SahBaris(p) => Dasar(p, p.jumlah) \in Nat \ {0}
         /\ p.jumlah \in Nat /\ p.terima \in Nat /\ p.harga \in Nat /\ p.diskon \in Nat
         /\ p.jumlah * p.harga \in Nat /\ p.barang \in Barang
<1>1. /\ p.jumlah \in Nat /\ p.terima \in Nat /\ p.harga \in Nat /\ p.diskon \in Nat
      /\ p.barang \in Barang /\ p.satuan \in Satuan
  BY DEF BarisIsian
<1>2. FaktorBaris(p) \in Nat
  <2>1. Faktor \in [Barang -> [Satuan -> Nat]]
    BY AsumsiDraf DEF AsumsiDraf
  <2>2. Faktor[p.barang] \in [Satuan -> Nat]
    BY <1>1, <2>1
  <2>3. QED BY <1>1, <2>2 DEF FaktorBaris
<1>3. \A n \in Nat : n * FaktorBaris(p) \in Nat
  BY <1>2
<1>4. \A n \in Nat : Dasar(p, n) \in Nat
  BY <1>3 DEF Dasar
<1>5. ASSUME SahBaris(p) PROVE Dasar(p, p.jumlah) # 0
  <2> DEFINE x == p.jumlah * FaktorBaris(p)
  <2>1. x > 0
    BY <1>1, <1>2, <1>5 DEF SahBaris
  <2>2. x \in Nat /\ x % 2 = 0
    BY <1>1, <1>3, <1>5 DEF SahBaris, Bulat
  <2> HIDE DEF x
  <2>3. x \div 2 # 0
    BY <2>1, <2>2
  <2>4. QED BY <2>3 DEF Dasar, x
<1>6. p.jumlah * p.harga \in Nat
  BY <1>1
<1>7. QED BY <1>1, <1>2, <1>4, <1>5, <1>6

LEMMA UangAlami == ASSUME NEW n \in Nat PROVE Uang(n) \in Nat
BY DEF Uang

LEMMA PolosSah ==
  ASSUME NEW p \in BarisIsian, SahBaris(p)
  PROVE  Polos(p) \in BarisDok
BY AngkaBaris DEF Polos, BarisDok

\* What is typed becomes lines that can be stored.
LEMMA SiapkanPolosSah ==
  ASSUME NEW m \in PilihanBaris
  PROVE  SiapkanMutasi(m) \subseteq Seq(BarisDok) /\ SiapkanPemakaian(m) \subseteq Seq(BarisDok)
<1>1. m \in Seq(BarisIsian) /\ DOMAIN m = 1..Len(m) /\ Len(m) \in Nat
  BY AsumsiDraf DEF AsumsiDraf
<1>2. ASSUME \A i \in DOMAIN m : SahBaris(m[i])
      PROVE  [i \in DOMAIN m |-> Polos(m[i])] \in Seq(BarisDok)
  <2>1. \A i \in 1..Len(m) : Polos(m[i]) \in BarisDok
    BY <1>1, <1>2, PolosSah
  <2>2. QED BY <1>1, <2>1
<1>3. QED BY <1>2 DEF SiapkanMutasi, SiapkanPemakaian, Siapkan, Bila

LEMMA SiapkanPembelianSah ==
  ASSUME NEW m \in PilihanBaris
  PROVE  SiapkanPembelian(m) \subseteq Seq(BarisDok)
<1> DEFINE Sah(p) == /\ SahBaris(p) /\ p.terima \in 0..p.jumlah /\ Bulat(p, p.terima)
                     /\ 2 * p.diskon <= p.jumlah * p.harga
<1> DEFINE Baris(p) == [Polos(p) EXCEPT !.terima = Dasar(p, p.terima),
                                        !.nilai = Uang(p.jumlah * p.harga - 2 * p.diskon)]
<1>1. m \in Seq(BarisIsian) /\ DOMAIN m = 1..Len(m) /\ Len(m) \in Nat
  BY AsumsiDraf DEF AsumsiDraf
<1>2. ASSUME NEW p \in BarisIsian, Sah(p) PROVE Baris(p) \in BarisDok
  <2>1. p.jumlah * p.harga - 2 * p.diskon \in Nat
    <3>1. p.jumlah * p.harga \in Nat /\ p.diskon \in Nat
      BY AngkaBaris
    <3>2. QED BY <1>2, <3>1
  <2>2. Polos(p) \in BarisDok /\ Dasar(p, p.terima) \in Nat
    BY <1>2, PolosSah, AngkaBaris
  <2>3. Uang(p.jumlah * p.harga - 2 * p.diskon) \in Nat
    BY <2>1, UangAlami
  <2>4. QED BY <2>2, <2>3 DEF BarisDok
<1>3. ASSUME \A i \in DOMAIN m : Sah(m[i])
      PROVE  [i \in DOMAIN m |-> Baris(m[i])] \in Seq(BarisDok)
  <2> HIDE DEF Sah, Baris
  <2>1. \A i \in 1..Len(m) : Baris(m[i]) \in BarisDok
    BY <1>1, <1>2, <1>3
  <2>2. QED BY <1>1, <2>1
<1>4. SiapkanPembelian(m) \subseteq {[i \in DOMAIN m |-> Baris(m[i])] : x \in {y \in {1} : \A i \in DOMAIN m : Sah(m[i])}}
  BY DEF SiapkanPembelian, Siapkan, Bila
<1>5. QED
  <2> HIDE DEF Sah, Baris
  <2>1. QED BY <1>3, <1>4

LEMMA SiapkanSaldoAwalSah ==
  ASSUME NEW m \in PilihanBaris
  PROVE  SiapkanSaldoAwal(m) \subseteq Seq(BarisDok)
<1> DEFINE Sah(p) == SahBaris(p) /\ Uang(p.jumlah * p.harga) > 0
<1> DEFINE Baris(p) == [Polos(p) EXCEPT !.nilai = Uang(p.jumlah * p.harga)]
<1>1. m \in Seq(BarisIsian) /\ DOMAIN m = 1..Len(m) /\ Len(m) \in Nat
  BY AsumsiDraf DEF AsumsiDraf
<1>2. ASSUME NEW p \in BarisIsian, Sah(p) PROVE Baris(p) \in BarisDok
  <2>1. Polos(p) \in BarisDok /\ Uang(p.jumlah * p.harga) \in Nat
    BY <1>2, PolosSah, AngkaBaris, UangAlami
  <2>2. QED BY <2>1 DEF BarisDok
<1>3. ASSUME \A i \in DOMAIN m : Sah(m[i])
      PROVE  [i \in DOMAIN m |-> Baris(m[i])] \in Seq(BarisDok)
  <2> HIDE DEF Sah, Baris
  <2>1. \A i \in 1..Len(m) : Baris(m[i]) \in BarisDok
    BY <1>1, <1>2, <1>3
  <2>2. QED BY <1>1, <2>1
<1>4. QED BY <1>3 DEF SiapkanSaldoAwal, Siapkan, Bila

LEMMA SiapkanAnakSah ==
  ASSUME NEW m \in PilihanBaris
  PROVE  SiapkanSusulan(m) \subseteq Seq(BarisDok) /\ SiapkanRetur(m) \subseteq Seq(BarisDok)
<1> DEFINE Baris(p) == [Polos(p) EXCEPT !.nilai = Dasar(p, p.jumlah) * Induk[p.barang].hpp]
<1>1. m \in Seq(BarisIsian) /\ DOMAIN m = 1..Len(m) /\ Len(m) \in Nat
  BY AsumsiDraf DEF AsumsiDraf
<1>2. ASSUME NEW p \in BarisIsian, SahBaris(p) PROVE Baris(p) \in BarisDok
  <2>1. Polos(p) \in BarisDok /\ Dasar(p, p.jumlah) \in Nat /\ p.barang \in Barang
    BY <1>2, PolosSah, AngkaBaris
  <2>2. Induk[p.barang].hpp \in Nat
    BY <2>1, AsumsiDraf DEF AsumsiDraf
  <2>3. Dasar(p, p.jumlah) * Induk[p.barang].hpp \in Nat
    BY <2>1, <2>2
  <2>4. QED BY <2>1, <2>3 DEF BarisDok
<1>3. ASSUME \A i \in DOMAIN m : SahBaris(m[i])
      PROVE  [i \in DOMAIN m |-> Baris(m[i])] \in Seq(BarisDok)
  <2> HIDE DEF Baris
  <2>1. \A i \in 1..Len(m) : Baris(m[i]) \in BarisDok
    BY <1>1, <1>2, <1>3
  <2>2. QED BY <1>1, <2>1
<1>4. QED BY <1>3 DEF SiapkanSusulan, SiapkanRetur, SiapkanAnak, Siapkan, Bila

\* The value of lines is a whole amount.
LEMMA JumlahNilaiAlami ==
  ASSUME NEW s \in Seq(BarisDok)
  PROVE  JumlahNilai(s) \in Nat
<1> DEFINE f == [i \in DOMAIN s |-> s[i].nilai]
<1> DEFINE G == CHOOSE G : G = [T \in SUBSET DOMAIN s |-> IF T = {} THEN 0
                   ELSE s[CHOOSE x \in T : TRUE].nilai + G[T \ {CHOOSE x \in T : TRUE}]]
<1>0. DOMAIN s = 1..Len(s) /\ Len(s) \in Nat /\ \A i \in DOMAIN s : s[i].nilai \in Nat
  <2>1. DOMAIN s = 1..Len(s) /\ Len(s) \in Nat /\ \A i \in DOMAIN s : s[i] \in BarisDok
    OBVIOUS
  <2>2. QED BY <2>1 DEF BarisDok
<1>1. IsFiniteSet(DOMAIN s)
  BY <1>0, FS_Interval
<1>2. PICK F : Menjumlah(F, f, SUBSET DOMAIN s)
  BY <1>1, PenjumlahAda
<1>3. \A T \in SUBSET DOMAIN s : T # {} => f[Ambil(T)] = s[CHOOSE x \in T : TRUE].nilai
  <2>1. \A i \in DOMAIN s : f[i] = s[i].nilai
    OBVIOUS
  <2>2. QED BY <2>1, Ambilan DEF Ambil
<1>4. F = [T \in SUBSET DOMAIN s |-> IF T = {} THEN 0
             ELSE s[CHOOSE x \in T : TRUE].nilai + F[T \ {CHOOSE x \in T : TRUE}]]
  BY <1>2, <1>3 DEF Ambil, Menjumlah
<1>5. G = [T \in SUBSET DOMAIN s |-> IF T = {} THEN 0
             ELSE s[CHOOSE x \in T : TRUE].nilai + G[T \ {CHOOSE x \in T : TRUE}]]
  BY <1>4
<1>6. JumlahNilai(s) = G[DOMAIN s]
  BY DEF JumlahNilai, FoldSeq, FoldFunction, FoldFunctionOnSet, MapThenFoldSet
<1>7. \A i \in DOMAIN s : f[i] \in Nat
  BY <1>0
<1> HIDE DEF G, f
<1>8. Menjumlah(G, f, SUBSET DOMAIN s)
  BY ZenonT(30), <1>3, <1>5 DEF Menjumlah, Ambil
<1>9. Jml(f, DOMAIN s) = G[DOMAIN s]
  BY <1>1, <1>8, JmlAdalah
<1>10. QED BY <1>1, <1>6, <1>7, <1>9, JmlAlami

-----------------------------------------------------------------------------
(* Documents.  Lanjut(b, x): a handler that is held to the status it asks  *)
(* for may leave x where it read b.                                        *)
Isi(x) == <<x.nomor, x.ruang, x.tujuan, x.pemohon, x.diskon, x.total, x.kurang,
            [i \in DOMAIN x.baris |-> [x.baris[i] EXCEPT !.setuju = 0]]>>

SetujuSah(b) ==
  b.jenis = "pemakaian" /\ b.status \in {"DISETUJUI", "POSTED", "BATAL"} =>
    /\ b.penyetuju \notin {NULL, b.pemohon}
    /\ \A i \in DOMAIN b.baris : b.baris[i].setuju \in 0..b.baris[i].dasar

Tetap(b, x) ==
  /\ Isi(x) = Isi(b)
  /\ b.status \in {"BATAL", "DITOLAK"} => x = b
  /\ b.status = "POSTED" => x.status \in {"POSTED", "BATAL"}
  /\ b.status = "DISETUJUI" => x.baris = b.baris

Lanjut(b, x) ==
  /\ x \in KepalaDok /\ x.jenis = b.jenis /\ x.nomor = b.nomor /\ x.status # "TIADA"
  /\ x.status = "DITOLAK" => b.status = "DITOLAK" \/ b.jenis = "pemakaian"
  /\ b.status # "DRAFT" => Tetap(b, x)
  /\ SetujuSah(b) => SetujuSah(x)

LEMMA TerapkanSah ==
  ASSUME NEW j \in Jenis, NEW p \in Patch[j], NEW b \in KepalaDok
  PROVE  /\ Terapkan(p, b) \in KepalaDok
         /\ Terapkan(p, b).jenis = b.jenis /\ Terapkan(p, b).status = b.status
         /\ Terapkan(p, b).nomor = b.nomor /\ Terapkan(p, b).baris = b.baris
         /\ Terapkan(p, b).penyetuju = b.penyetuju
<1>1. /\ DOMAIN p \subseteq {"ruang", "tujuan", "pemohon", "diskon"}
      /\ \A kolom \in DOMAIN p : p[kolom] \in TipeKolom[kolom]
  BY AsumsiDraf DEF AsumsiDraf, TipeKolom
<1>2. /\ "ruang" \in DOMAIN p => p["ruang"] \in Ruang
      /\ "tujuan" \in DOMAIN p => p["tujuan"] \in Ruang
      /\ "pemohon" \in DOMAIN p => p["pemohon"] \in Orang
      /\ "diskon" \in DOMAIN p => p["diskon"] \in Nat
  BY <1>1 DEF TipeKolom
<1>3. b = [jenis |-> b.jenis, status |-> b.status, nomor |-> b.nomor, ruang |-> b.ruang,
           tujuan |-> b.tujuan, pemohon |-> b.pemohon, penyetuju |-> b.penyetuju,
           diskon |-> b.diskon, total |-> b.total, kurang |-> b.kurang, baris |-> b.baris]
  BY DEF KepalaDok
<1> DEFINE x == Terapkan(p, b)
<1>4. x = [jenis |-> b.jenis, status |-> b.status, nomor |-> b.nomor, ruang |-> x.ruang,
           tujuan |-> x.tujuan, pemohon |-> x.pemohon, penyetuju |-> b.penyetuju,
           diskon |-> x.diskon, total |-> b.total, kurang |-> b.kurang, baris |-> b.baris]
  BY <1>1, <1>3 DEF Terapkan
<1>5. x.ruang \in Ruang /\ x.tujuan \in Ruang /\ x.pemohon \in Orang /\ x.diskon \in Nat
  BY <1>2, <1>3 DEF Terapkan, KepalaDok
<1> HIDE DEF x
<1>6. QED BY <1>4, <1>5 DEF KepalaDok, x

LEMMA SinkronkanSah ==
  ASSUME NEW b \in KepalaDok, NEW x \in SinkronkanHeader(b)
  PROVE  /\ x \in KepalaDok /\ x.jenis = b.jenis /\ x.status = b.status /\ x.nomor = b.nomor
         /\ x.baris = b.baris /\ x.penyetuju = b.penyetuju
<1>1. b.baris \in Seq(BarisDok) /\ b.diskon \in Nat
  BY DEF KepalaDok
<1>2. b.diskon <= JumlahNilai(b.baris)
      /\ x = [b EXCEPT !.total = JumlahNilai(b.baris) - b.diskon,
                       !.kurang = \E i \in DOMAIN b.baris : b.baris[i].terima # b.baris[i].dasar]
  BY DEF SinkronkanHeader, Bila
<1>3. JumlahNilai(b.baris) - b.diskon \in Nat
  BY <1>1, <1>2, JumlahNilaiAlami
<1>4. QED BY <1>2, <1>3 DEF KepalaDok

LEMMA TotalAnakSah ==
  ASSUME NEW b \in KepalaDok
  PROVE  /\ TotalAnak(b) \in KepalaDok /\ TotalAnak(b).jenis = b.jenis
         /\ TotalAnak(b).status = b.status /\ TotalAnak(b).nomor = b.nomor
         /\ TotalAnak(b).baris = b.baris
<1>1. b.baris \in Seq(BarisDok)
  BY DEF KepalaDok
<1>2. JumlahNilai(b.baris) \in Nat
  BY <1>1, JumlahNilaiAlami
<1>3. QED BY <1>2 DEF TotalAnak, KepalaDok

\* A draft may become any other draft with the same number.
LEMMA DrafLanjut ==
  ASSUME NEW b \in KepalaDok, b.status = "DRAFT", NEW x \in KepalaDok,
         x.jenis = b.jenis, x.status = "DRAFT", x.nomor = b.nomor
  PROVE  Lanjut(b, x)
BY DEF Lanjut, SetujuSah

LEMMA BarisGantiSah ==
  ASSUME NEW b \in KepalaDok, NEW s \in Seq(BarisDok)
  PROVE  LET x == [b EXCEPT !.baris = s] IN
         x \in KepalaDok /\ x.jenis = b.jenis /\ x.status = b.status /\ x.nomor = b.nomor
BY DEF KepalaDok

LEMMA UbahLanjut ==
  ASSUME NEW t, NEW g, NEW b \in KepalaDok, b.status = "DRAFT", g.patch \in Patch[b.jenis],
         NEW x \in HasilUbah(t, g, b)
  PROVE  Lanjut(b, x) /\ x.baris = b.baris
<1> DEFINE e == Terapkan(g.patch, b)
<1>1. b.jenis \in Jenis
  BY DEF KepalaDok
<1>2. /\ e \in KepalaDok /\ e.jenis = b.jenis /\ e.status = b.status
      /\ e.nomor = b.nomor /\ e.baris = b.baris
  BY <1>1, TerapkanSah
<1> HIDE DEF e
<1>3. CASE b.jenis = "pembelian"
  <2>1. x \in SinkronkanHeader(e)
    BY <1>3 DEF HasilUbah, UbahPembelian, e
  <2>2. x \in KepalaDok /\ x.jenis = b.jenis /\ x.status = "DRAFT" /\ x.nomor = b.nomor /\ x.baris = b.baris
    BY <1>2, <2>1, SinkronkanSah
  <2>3. QED BY <2>2, DrafLanjut
<1>4. CASE b.jenis # "pembelian"
  <2>1. x = e
    BY <1>1, <1>4 DEF HasilUbah, UbahMutasi, UbahPemakaian, UbahSaldoAwal, UbahSusulan, UbahRetur,
                      Bila, e, Jenis, Anak, Berstok
  <2>2. QED BY <1>2, <2>1, DrafLanjut
<1>5. QED BY <1>3, <1>4

LEMMA GantiLanjut ==
  ASSUME NEW t, NEW g, NEW b \in KepalaDok, b.status = "DRAFT", g.baris \in PilihanBaris,
         NEW x \in HasilGanti(t, g, b)
  PROVE  Lanjut(b, x)
<1> DEFINE Ganti(s) == [b EXCEPT !.baris = s]
<1>1. b.jenis \in Jenis
  BY DEF KepalaDok
<1>2. \A s \in Seq(BarisDok) : /\ Ganti(s) \in KepalaDok /\ Ganti(s).jenis = b.jenis
                               /\ Ganti(s).status = b.status /\ Ganti(s).nomor = b.nomor
  BY BarisGantiSah
<1>3. CASE b.jenis = "pembelian"
  <2>1. PICK s \in SiapkanPembelian(g.baris) : x \in SinkronkanHeader(Ganti(s))
    BY <1>3 DEF HasilGanti, GantiPembelian
  <2>2. s \in Seq(BarisDok)
    BY <2>1, SiapkanPembelianSah
  <2> HIDE DEF Ganti
  <2>3. x \in KepalaDok /\ x.jenis = b.jenis /\ x.status = "DRAFT" /\ x.nomor = b.nomor
    BY <1>2, <2>1, <2>2, SinkronkanSah
  <2>4. QED BY <2>3, DrafLanjut
<1>4. CASE b.jenis \in {"mutasi", "pemakaian", "saldo_awal"}
  <2>1. PICK s : /\ s \in SiapkanMutasi(g.baris) \cup SiapkanPemakaian(g.baris) \cup SiapkanSaldoAwal(g.baris)
                 /\ x = Ganti(s)
    BY <1>4 DEF HasilGanti, GantiMutasi, GantiPemakaian, GantiSaldoAwal
  <2>2. s \in Seq(BarisDok)
    BY <2>1, SiapkanPolosSah, SiapkanSaldoAwalSah
  <2> HIDE DEF Ganti
  <2>3. QED BY <1>2, <2>1, <2>2, DrafLanjut
<1>5. CASE b.jenis \in Anak
  <2>1. PICK s : s \in SiapkanSusulan(g.baris) \cup SiapkanRetur(g.baris) /\ x = TotalAnak(Ganti(s))
    BY <1>5 DEF HasilGanti, GantiSusulan, GantiRetur, Anak
  <2>2. s \in Seq(BarisDok)
    BY <2>1, SiapkanAnakSah
  <2> HIDE DEF Ganti
  <2>3. x \in KepalaDok /\ x.jenis = b.jenis /\ x.status = "DRAFT" /\ x.nomor = b.nomor
    BY <1>2, <2>1, <2>2, TotalAnakSah
  <2>4. QED BY <2>3, DrafLanjut
<1>6. QED BY <1>1, <1>3, <1>4, <1>5 DEF Jenis, Anak, Berstok

\* Only the status changes: what the document says stays.
LEMMA StatusSaja ==
  ASSUME NEW b \in KepalaDok, NEW st \in StatusDraf \ {"TIADA"}, NEW x, x = [b EXCEPT !.status = st]
  PROVE  /\ x \in KepalaDok /\ x.jenis = b.jenis /\ x.nomor = b.nomor /\ x.status = st
         /\ x.baris = b.baris /\ Isi(x) = Isi(b) /\ x.penyetuju = b.penyetuju /\ x.pemohon = b.pemohon
<1>1. /\ x \in KepalaDok /\ x.jenis = b.jenis /\ x.nomor = b.nomor /\ x.status = st
      /\ x.baris = b.baris /\ x.penyetuju = b.penyetuju /\ x.pemohon = b.pemohon
      /\ x.ruang = b.ruang /\ x.tujuan = b.tujuan /\ x.diskon = b.diskon /\ x.total = b.total
      /\ x.kurang = b.kurang
  BY DEF KepalaDok
<1>2. QED BY <1>1 DEF Isi

LEMMA AjukanLanjut ==
  ASSUME NEW t, NEW g, NEW b \in KepalaDok, b.status = "DRAFT", b.jenis # "mutasi",
         NEW x \in HasilAjukan(t, g, b)
  PROVE  Lanjut(b, x) /\ x.baris = b.baris
<1>1. b.jenis \in Jenis
  BY DEF KepalaDok
<1>2. x = [b EXCEPT !.status = "DIAJUKAN"]
  BY <1>1 DEF HasilAjukan, AjukanPembelian, AjukanPemakaian, AjukanSaldoAwal, AjukanSusulan,
              AjukanRetur, Ajukan, Bila, Jenis, Anak, Berstok
<1>3. "DIAJUKAN" \in StatusDraf \ {"TIADA"}
  BY DEF StatusDraf
<1>4. QED BY <1>2, <1>3, StatusSaja DEF Lanjut, SetujuSah

LEMMA TolakLanjut ==
  ASSUME NEW t, NEW g, NEW b \in KepalaDok, b.status = "DIAJUKAN", b.jenis # "mutasi",
         g.orang \in Orang, NEW x \in HasilTolak(t, g, b)
  PROVE  Lanjut(b, x) /\ x.baris = b.baris
<1>1. b.jenis \in Jenis
  BY DEF KepalaDok
<1>2. {"DRAFT", "DITOLAK"} \subseteq StatusDraf \ {"TIADA"}
  BY DEF StatusDraf
<1>3. CASE b.jenis = "pemakaian"
  <2>1. x = [b EXCEPT !.status = "DITOLAK", !.penyetuju = g.orang]
    BY <1>3 DEF HasilTolak, TolakPemakaian, Bila
  <2>2. /\ x \in KepalaDok /\ x.jenis = b.jenis /\ x.nomor = b.nomor /\ x.status = "DITOLAK"
        /\ x.baris = b.baris /\ x.pemohon = b.pemohon
        /\ x.ruang = b.ruang /\ x.tujuan = b.tujuan /\ x.diskon = b.diskon /\ x.total = b.total
        /\ x.kurang = b.kurang
    BY <1>2, <2>1 DEF KepalaDok
  <2>3. QED BY <1>3, <2>2 DEF Lanjut, SetujuSah, Tetap, Isi
<1>4. CASE b.jenis # "pemakaian"
  <2>1. x = [b EXCEPT !.status = "DRAFT"]
    BY <1>1, <1>4 DEF HasilTolak, TolakPembelian, TolakSaldoAwal, TolakSusulan, TolakRetur,
                      Kembalikan, Jenis, Anak, Berstok
  <2>2. QED BY <1>2, <2>1, StatusSaja DEF Lanjut, SetujuSah, Tetap
<1>5. QED BY <1>3, <1>4

\* What is approved is what was asked, or less, by somebody else.
LEMMA SetujuiLanjut ==
  ASSUME NEW t, NEW g, NEW b \in KepalaDok, b.status = "DIAJUKAN", b.jenis = "pemakaian",
         g.orang \in Orang, NEW x \in SetujuiPemakaian(t, g, b)
  PROVE  Lanjut(b, x)
<1> DEFINE setuju == [i \in DOMAIN b.baris |->
                   IF i \in DOMAIN g.putusan THEN g.putusan[i] ELSE b.baris[i].dasar]
<1> DEFINE baris == [i \in DOMAIN b.baris |-> [b.baris[i] EXCEPT !.setuju = setuju[i]]]
<1>1. /\ g.orang # b.pemohon
      /\ \A i \in DOMAIN b.baris : setuju[i] \in 0..b.baris[i].dasar
      /\ x = [b EXCEPT !.status = "DISETUJUI", !.penyetuju = g.orang, !.baris = baris]
  BY DEF SetujuiPemakaian, Bila
<1>2. b.baris \in Seq(BarisDok) /\ DOMAIN b.baris = 1..Len(b.baris) /\ Len(b.baris) \in Nat
  BY DEF KepalaDok
<1>3. \A i \in DOMAIN b.baris : b.baris[i] \in BarisDok
  BY <1>2
<1> HIDE DEF setuju
<1>4. \A i \in DOMAIN b.baris : setuju[i] \in Nat
  BY <1>1, <1>3 DEF BarisDok
<1>5. \A i \in DOMAIN b.baris :
        /\ baris[i] \in BarisDok /\ baris[i].setuju = setuju[i] /\ baris[i].dasar = b.baris[i].dasar
        /\ [baris[i] EXCEPT !.setuju = 0] = [b.baris[i] EXCEPT !.setuju = 0]
  BY <1>3, <1>4 DEF BarisDok
<1>6. DOMAIN baris = DOMAIN b.baris
  OBVIOUS
<1> HIDE DEF baris
<1>7. baris = [i \in 1..Len(b.baris) |-> baris[i]]
  BY <1>2, <1>6 DEF baris
<1>8. baris \in Seq(BarisDok)
  <2>1. \A i \in 1..Len(b.baris) : baris[i] \in BarisDok
    BY <1>2, <1>5
  <2>2. [i \in 1..Len(b.baris) |-> baris[i]] \in Seq(BarisDok)
    BY <1>2, <2>1
  <2>3. QED BY <1>7, <2>2
<1>9. [i \in DOMAIN baris |-> [baris[i] EXCEPT !.setuju = 0]]
      = [i \in DOMAIN b.baris |-> [b.baris[i] EXCEPT !.setuju = 0]]
  BY <1>5, <1>6
<1>10. /\ x \in KepalaDok /\ x.jenis = b.jenis /\ x.nomor = b.nomor /\ x.status = "DISETUJUI"
       /\ x.penyetuju = g.orang /\ x.pemohon = b.pemohon /\ x.baris = baris
       /\ x.ruang = b.ruang /\ x.tujuan = b.tujuan /\ x.diskon = b.diskon /\ x.total = b.total
       /\ x.kurang = b.kurang
  BY <1>1, <1>8 DEF KepalaDok, StatusDraf
<1>11. Isi(x) = Isi(b)
  BY <1>9, <1>10 DEF Isi
<1>12. g.orang # NULL
  BY AsumsiDraf DEF AsumsiDraf, NULL
<1>13. SetujuSah(x)
  <2>1. \A i \in DOMAIN x.baris : x.baris[i].setuju \in 0..x.baris[i].dasar
    <3>1. \A i \in DOMAIN b.baris : setuju[i] \in 0..b.baris[i].dasar
      BY <1>1
    <3>2. \A i \in DOMAIN b.baris : baris[i].setuju \in 0..baris[i].dasar
      BY <1>5, <3>1
    <3>3. QED BY <1>6, <1>10, <3>2
  <2>2. x.penyetuju \notin {NULL, x.pemohon}
    BY <1>1, <1>10, <1>12
  <2>3. QED BY <2>1, <2>2 DEF SetujuSah
<1>14. QED BY <1>10, <1>11, <1>13 DEF Lanjut, Tetap

LEMMA PostingLanjut ==
  ASSUME NEW b \in KepalaDok, b.status = SebelumPosting(b.jenis), b.jenis \in Berstok,
         NEW x, x = [b EXCEPT !.status = "POSTED"]
  PROVE  Lanjut(b, x) /\ x.baris = b.baris /\ x.status = "POSTED"
<1>1. "POSTED" \in StatusDraf \ {"TIADA"}
  BY DEF StatusDraf
<1>2. /\ x \in KepalaDok /\ x.jenis = b.jenis /\ x.nomor = b.nomor /\ x.status = "POSTED"
      /\ x.baris = b.baris /\ Isi(x) = Isi(b) /\ x.penyetuju = b.penyetuju /\ x.pemohon = b.pemohon
  BY <1>1, StatusSaja
<1>3. b.status \in {"DRAFT", "DISETUJUI", "DIAJUKAN"} /\ (b.jenis = "pemakaian" => b.status = "DISETUJUI")
  BY DEF SebelumPosting
<1>4. QED BY <1>2, <1>3 DEF Lanjut, Tetap, SetujuSah

LEMMA BatalLanjut ==
  ASSUME NEW b \in KepalaDok, BolehBatal(b), b.status = "DITOLAK" => b.jenis = "pemakaian",
         NEW x, x = [b EXCEPT !.status = "BATAL"]
  PROVE  Lanjut(b, x) /\ x.baris = b.baris /\ x.status = "BATAL"
<1>1. "BATAL" \in StatusDraf \ {"TIADA"}
  BY DEF StatusDraf
<1>2. /\ x \in KepalaDok /\ x.jenis = b.jenis /\ x.nomor = b.nomor /\ x.status = "BATAL"
      /\ x.baris = b.baris /\ Isi(x) = Isi(b) /\ x.penyetuju = b.penyetuju /\ x.pemohon = b.pemohon
  BY <1>1, StatusSaja
<1>3. /\ b.status # "BATAL" /\ (b.jenis # "saldo_awal" => b.status = "POSTED")
      /\ b.status # "DITOLAK"
  BY DEF BolehBatal
<1>4. QED BY <1>2, <1>3 DEF Lanjut, Tetap, SetujuSah

\* A new document is a draft with the number drawn.
LEMMA BuatSah ==
  ASSUME NEW t, NEW g, g.jenis \in Jenis, g.isi \in Isian[g.jenis], g.baris \in PilihanBaris,
         NEW no \in Nomor, NEW x \in HasilBuat(t, g, no)
  PROVE  x \in KepalaDok /\ x.jenis = g.jenis /\ x.status = "DRAFT" /\ x.nomor = no
<1> DEFINE Lahir(s) == Baru(g.jenis, g, no, s)
<1>1. g.isi \in KepalaIsian
  BY AsumsiDraf DEF AsumsiDraf
<1>2. ASSUME NEW s \in Seq(BarisDok)
      PROVE  /\ Lahir(s) \in KepalaDok /\ Lahir(s).jenis = g.jenis /\ Lahir(s).status = "DRAFT"
             /\ Lahir(s).nomor = no
  BY <1>1 DEF Baru, KepalaDok, KepalaIsian, StatusDraf
<1>3. CASE g.jenis = "pembelian"
  <2>1. PICK s \in SiapkanPembelian(g.baris) : x \in SinkronkanHeader(Lahir(s))
    BY <1>3 DEF HasilBuat, BuatPembelian
  <2>2. s \in Seq(BarisDok)
    BY <2>1, SiapkanPembelianSah
  <2> HIDE DEF Lahir
  <2>3. QED BY <1>2, <2>1, <2>2, SinkronkanSah
<1>4. CASE g.jenis \in {"mutasi", "pemakaian", "saldo_awal"}
  <2>1. PICK s : /\ s \in SiapkanMutasi(g.baris) \cup SiapkanPemakaian(g.baris) \cup SiapkanSaldoAwal(g.baris)
                 /\ x = Lahir(s)
    BY <1>4 DEF HasilBuat, BuatMutasi, BuatPemakaian, BuatSaldoAwal
  <2>2. s \in Seq(BarisDok)
    BY <2>1, SiapkanPolosSah, SiapkanSaldoAwalSah
  <2> HIDE DEF Lahir
  <2>3. QED BY <1>2, <2>1, <2>2
<1>5. CASE g.jenis \in Anak
  <2>1. PICK s : s \in SiapkanSusulan(g.baris) \cup SiapkanRetur(g.baris) /\ x = TotalAnak(Lahir(s))
    BY <1>5 DEF HasilBuat, BuatSusulan, BuatRetur, Anak
  <2>2. s \in Seq(BarisDok)
    BY <2>1, SiapkanAnakSah
  <2> HIDE DEF Lahir
  <2>3. QED BY <1>2, <2>1, <2>2, TotalAnakSah
<1>6. QED BY <1>3, <1>4, <1>5 DEF Jenis, Anak, Berstok

-----------------------------------------------------------------------------
(* Goods.                                                                  *)
LEMMA JumlahAlami ==
  ASSUME NEW b \in KepalaDok, NEW i \in DOMAIN b.baris
  PROVE  Jumlah(b, b.baris[i]) \in Nat
<1>1. b.baris[i] \in BarisDok
  BY DEF KepalaDok
<1>2. QED BY <1>1 DEF Jumlah, BarisDok, NULL

LEMMA FoldJumlah ==
  ASSUME NEW b \in KepalaDok, NEW S \in SUBSET DOMAIN b.baris
  PROVE  /\ MapThenSumSet(LAMBDA i : Jumlah(b, b.baris[i]), S) \in Nat
         /\ S = {} => MapThenSumSet(LAMBDA i : Jumlah(b, b.baris[i]), S) = 0
<1> DEFINE f == [i \in DOMAIN b.baris |-> Jumlah(b, b.baris[i])]
<1> DEFINE G == CHOOSE G : G = [s \in SUBSET S |-> IF s = {} THEN 0
                   ELSE Jumlah(b, b.baris[CHOOSE x \in s : TRUE]) + G[s \ {CHOOSE x \in s : TRUE}]]
<1>0. IsFiniteSet(S) /\ \A i \in S : f[i] \in Nat
  <2>1. b.baris \in Seq(BarisDok)
    BY DEF KepalaDok
  <2>2. DOMAIN b.baris = 1..Len(b.baris) /\ Len(b.baris) \in Nat
    BY <2>1
  <2>3. IsFiniteSet(DOMAIN b.baris)
    BY <2>2, FS_Interval
  <2>4. QED BY <2>3, FS_Subset, JumlahAlami
<1>1. PICK F : Menjumlah(F, f, SUBSET S)
  BY <1>0, PenjumlahAda
<1>2. \A s \in SUBSET S : s # {} => f[Ambil(s)] = Jumlah(b, b.baris[CHOOSE x \in s : TRUE])
  <2>1. \A i \in S : f[i] = Jumlah(b, b.baris[i])
    OBVIOUS
  <2>2. QED BY <2>1, Ambilan DEF Ambil
<1>3. F = [s \in SUBSET S |-> IF s = {} THEN 0
             ELSE Jumlah(b, b.baris[CHOOSE x \in s : TRUE]) + F[s \ {CHOOSE x \in s : TRUE}]]
  BY <1>1, <1>2 DEF Ambil, Menjumlah
<1>4. G = [s \in SUBSET S |-> IF s = {} THEN 0
             ELSE Jumlah(b, b.baris[CHOOSE x \in s : TRUE]) + G[s \ {CHOOSE x \in s : TRUE}]]
  BY <1>3
<1>5. MapThenSumSet(LAMBDA i : Jumlah(b, b.baris[i]), S) = G[S]
  BY DEF MapThenSumSet, MapThenFoldSet
<1> HIDE DEF G, f
<1>6. Menjumlah(G, f, SUBSET S)
  BY <1>4, <1>2 DEF Menjumlah, Ambil
<1>7. Jml(f, S) = G[S]
  BY <1>0, <1>6, JmlAdalah
<1>8. Jml(f, S) \in Nat /\ (S = {} => Jml(f, S) = 0)
  BY <1>0, JmlAlami, JmlKosong
<1>9. QED BY <1>5, <1>7, <1>8

\* A posting adds to a balance only where its goods go to, and takes away
\* only where they come from.
LEMMA GerakBenar ==
  ASSUME NEW b \in KepalaDok, NEW x \in Barang \X Ruang
  PROVE  /\ Gerak(b)[x] \in Int
         /\ Gerak(b)[x] > 0 => /\ x[2] \in MasukKe(b)
                               /\ \E i \in Bergerak(b) : b.baris[i].barang = x[1]
         /\ Gerak(b)[x] < 0 => /\ x[2] \in KeluarDari(b)
                               /\ \E i \in Bergerak(b) : b.baris[i].barang = x[1]
<1> DEFINE S == {i \in Bergerak(b) : b.baris[i].barang = x[1]}
<1> DEFINE n == MapThenSumSet(LAMBDA i : Jumlah(b, b.baris[i]), S)
<1>1. n \in Nat /\ (S = {} => n = 0)
  <2>1. S \in SUBSET DOMAIN b.baris
    BY DEF Bergerak
  <2>2. QED BY <2>1, FoldJumlah
<1>2. Gerak(b)[x] = (IF x[2] \in MasukKe(b) THEN n ELSE 0) - (IF x[2] \in KeluarDari(b) THEN n ELSE 0)
  BY DEF Gerak
<1> HIDE DEF n
<1>3. QED BY <1>1, <1>2

LEMMA AkhirBenar ==
  ASSUME TipeData, NEW b \in KepalaDok, NEW arah \in {1, -1}
  PROVE  /\ StokSetelah(b, arah) \in [Barang \X Ruang -> Int]
         /\ \A x \in Barang \X Ruang : StokSetelah(b, arah)[x] > stok[x] =>
              /\ x[2] \in IF arah = 1 THEN MasukKe(b) ELSE KeluarDari(b)
              /\ \E i \in Bergerak(b) : b.baris[i].barang = x[1]
<1>1. ASSUME NEW x \in Barang \X Ruang
      PROVE  /\ StokSetelah(b, arah)[x] = stok[x] + arah * Gerak(b)[x]
             /\ stok[x] \in Nat /\ Gerak(b)[x] \in Int
  BY GerakBenar DEF TipeData, StokSetelah
<1>2. StokSetelah(b, arah) \in [Barang \X Ruang -> Int]
  <2>1. \A x \in Barang \X Ruang : StokSetelah(b, arah)[x] \in Int
    BY <1>1
  <2>2. StokSetelah(b, arah) = [x \in Barang \X Ruang |-> StokSetelah(b, arah)[x]]
    BY DEF StokSetelah
  <2>3. QED BY <2>1, <2>2
<1>3. ASSUME NEW x \in Barang \X Ruang, StokSetelah(b, arah)[x] > stok[x]
      PROVE  /\ x[2] \in IF arah = 1 THEN MasukKe(b) ELSE KeluarDari(b)
             /\ \E i \in Bergerak(b) : b.baris[i].barang = x[1]
  <2>1. CASE arah = 1
    <3>1. Gerak(b)[x] > 0
      BY <1>1, <1>3, <2>1
    <3>2. QED BY <2>1, <3>1, GerakBenar
  <2>2. CASE arah = -1
    <3>1. Gerak(b)[x] < 0
      BY <1>1, <1>3, <2>2
    <3>2. QED BY <2>2, <3>1, GerakBenar
  <2>3. QED BY <2>1, <2>2
<1>4. QED BY <1>2, <1>3

-----------------------------------------------------------------------------
(* What is locked.                                                         *)
LEMMA GabungSemua ==
  ASSUME NEW S, NEW s \in Seq(S), NEW r \in Seq(S)
  PROVE  s \o r \in Seq(S) /\ ToSet(s \o r) = ToSet(s) \cup ToSet(r)
<1>1. /\ s \o r \in Seq(S) /\ Len(s \o r) = Len(s) + Len(r)
      /\ DOMAIN s = 1..Len(s) /\ DOMAIN r = 1..Len(r) /\ DOMAIN (s \o r) = 1..(Len(s) + Len(r))
      /\ Len(s) \in Nat /\ Len(r) \in Nat
  OBVIOUS
<1>2. \A i \in 1..(Len(s) + Len(r)) : (s \o r)[i] = IF i <= Len(s) THEN s[i] ELSE r[i - Len(s)]
  OBVIOUS
<1>3. \A x \in ToSet(s \o r) : x \in ToSet(s) \cup ToSet(r)
  <2>1. SUFFICES ASSUME NEW i \in 1..(Len(s) + Len(r))
                 PROVE  (s \o r)[i] \in ToSet(s) \cup ToSet(r)
    BY <1>1 DEF ToSet
  <2>2. CASE i <= Len(s)
    BY <1>1, <1>2, <2>2 DEF ToSet
  <2>3. CASE ~(i <= Len(s))
    <3>1. i - Len(s) \in 1..Len(r)
      BY <1>1, <2>3
    <3>2. QED BY <1>1, <1>2, <2>3, <3>1 DEF ToSet
  <2>4. QED BY <2>2, <2>3
<1>4. ToSet(s) \subseteq ToSet(s \o r)
  <2>1. \A i \in 1..Len(s) : i \in 1..(Len(s) + Len(r)) /\ (s \o r)[i] = s[i]
    BY <1>1, <1>2
  <2>2. QED BY <1>1, <2>1 DEF ToSet
<1>5. ToSet(r) \subseteq ToSet(s \o r)
  <2>1. \A i \in 1..Len(r) : i + Len(s) \in 1..(Len(s) + Len(r)) /\ (s \o r)[i + Len(s)] = r[i]
    BY <1>1, <1>2
  <2>2. QED BY <1>1, <2>1 DEF ToSet
<1>6. QED BY <1>1, <1>3, <1>4, <1>5

LEMMA SatuSemua ==
  ASSUME NEW S, NEW x \in S
  PROVE  <<x>> \in Seq(S) /\ ToSet(<<x>>) = {x}
BY DEF ToSet

LEMMA KosongSemua == ASSUME NEW S PROVE <<>> \in Seq(S) /\ ToSet(<<>>) = {}
BY DEF ToSet

LEMMA BarangBarisSah ==
  ASSUME NEW f, IsFiniteSet(DOMAIN f), \A i \in DOMAIN f : f[i].barang \in Barang
  PROVE  /\ BarangBaris(f) \in Seq(Barang)
         /\ ToSet(BarangBaris(f)) = {f[i].barang : i \in DOMAIN f}
<1> DEFINE g == [i \in DOMAIN f |-> f[i].barang]
<1> DEFINE S == {f[i].barang : i \in DOMAIN f}
<1>1. S = {g[i] : i \in DOMAIN f}
  OBVIOUS
<1>2. IsFiniteSet({g[i] : i \in DOMAIN f})
  <2> HIDE DEF g
  <2>1. QED BY Citra
<1>3. S \subseteq Barang /\ S \in SUBSET Nat
  <2>1. Barang \subseteq Nat
    BY AsumsiDraf DEF AsumsiDraf
  <2>2. S \subseteq Barang
    OBVIOUS
  <2>3. QED BY <2>1, <2>2
<1>4. BarangBaris(f) = UrutNaik(S)
  BY DEF BarangBaris
<1> HIDE DEF S, g
<1>5. UrutNaik(S) \in Seq(S) /\ ToSet(UrutNaik(S)) = S
  BY <1>1, <1>2, <1>3, UrutNaikBenar
<1>6. UrutNaik(S) \in Seq(Barang)
  <2>1. \A s \in Seq(S) : s \in Seq(Barang)
    BY <1>3
  <2>2. QED BY <1>5, <2>1
<1>7. QED BY <1>4, <1>5, <1>6 DEF S

\* Memberships are asked for FOR SHARE.
LEMMA KatalogRuangSah ==
  ASSUME NEW r \in Ruang, NEW s \in Seq(Barang)
  PROVE  /\ KatalogRuang(r, s) \in Seq(PermintaanDraf)
         /\ ToSet(KatalogRuang(r, s)) = {Bagi(KKatalog(b, UnitRuang[r])) : b \in ToSet(s)}
<1>1. UnitRuang[r] \in Unit
  BY AsumsiDraf DEF AsumsiDraf
<1>2. \A b \in Barang : Bagi(KKatalog(b, UnitRuang[r])) \in PermintaanDraf
  BY <1>1 DEF PermintaanDraf, Bagi, Mode
<1>3. DOMAIN s = 1..Len(s) /\ Len(s) \in Nat /\ \A i \in 1..Len(s) : s[i] \in Barang
  OBVIOUS
<1>4. KatalogRuang(r, s) = [i \in 1..Len(s) |-> Bagi(KKatalog(s[i], UnitRuang[r]))]
  BY <1>3 DEF KatalogRuang
<1>5. KatalogRuang(r, s) \in Seq(PermintaanDraf) /\ DOMAIN KatalogRuang(r, s) = 1..Len(s)
  BY <1>2, <1>3, <1>4
<1>6. QED BY <1>3, <1>4, <1>5 DEF ToSet

LEMMA KatalogSah ==
  ASSUME NEW b, b.ruang \in Ruang, b.tujuan \in Ruang, NEW s \in Seq(Barang)
  PROVE  /\ Katalog(b, s) \in Seq(PermintaanDraf)
         /\ \A q \in ToSet(Katalog(b, s)) : q.kunci[1] = "product_unit_kerja"
         /\ \A x \in ToSet(s) : /\ Bagi(KKatalog(x, UnitRuang[b.ruang])) \in ToSet(Katalog(b, s))
                                /\ b.jenis = "mutasi" =>
                                     Bagi(KKatalog(x, UnitRuang[b.tujuan])) \in ToSet(Katalog(b, s))
<1> DEFINE dari == KatalogRuang(b.ruang, s)
<1> DEFINE ke == IF b.jenis = "mutasi" THEN KatalogRuang(b.tujuan, s) ELSE <<>>
<1>1. /\ dari \in Seq(PermintaanDraf)
      /\ ToSet(dari) = {Bagi(KKatalog(x, UnitRuang[b.ruang])) : x \in ToSet(s)}
  BY KatalogRuangSah
<1>2. /\ ke \in Seq(PermintaanDraf)
      /\ ToSet(ke) = IF b.jenis = "mutasi" THEN {Bagi(KKatalog(x, UnitRuang[b.tujuan])) : x \in ToSet(s)}
                     ELSE {}
  BY KatalogRuangSah, KosongSemua
<1>3. Katalog(b, s) = dari \o ke
  BY DEF Katalog
<1> HIDE DEF dari, ke
<1>4. dari \o ke \in Seq(PermintaanDraf) /\ ToSet(dari \o ke) = ToSet(dari) \cup ToSet(ke)
  BY <1>1, <1>2, GabungSemua
<1>5. \A x, u : Bagi(KKatalog(x, u)).kunci[1] = "product_unit_kerja"
  BY DEF Bagi, KKatalog
<1>6. QED BY <1>1, <1>2, <1>3, <1>4, <1>5

LEMMA BarangIsian ==
  ASSUME NEW m \in PilihanBaris
  PROVE  BarangBaris(m) \in Seq(Barang)
<1>1. m \in Seq(BarisIsian)
  BY AsumsiDraf DEF AsumsiDraf
<1>2. DOMAIN m = 1..Len(m) /\ Len(m) \in Nat /\ \A i \in DOMAIN m : m[i] \in BarisIsian
  BY <1>1
<1>3. IsFiniteSet(DOMAIN m)
  BY <1>2, FS_Interval
<1>4. QED BY <1>2, <1>3, BarangBarisSah DEF BarisIsian

LEMMA BarangDok ==
  ASSUME NEW b \in KepalaDok
  PROVE  /\ BarangBaris(b.baris) \in Seq(Barang)
         /\ BarangBaris([i \in Bergerak(b) |-> b.baris[i]]) \in Seq(Barang)
         /\ \A i \in Bergerak(b) :
              /\ b.baris[i].barang \in ToSet(BarangBaris(b.baris))
              /\ b.baris[i].barang \in Barang
<1>1. b.baris \in Seq(BarisDok)
  BY DEF KepalaDok
<1>2. /\ DOMAIN b.baris = 1..Len(b.baris) /\ Len(b.baris) \in Nat
      /\ \A i \in DOMAIN b.baris : b.baris[i] \in BarisDok
  BY <1>1
<1>3. \A i \in DOMAIN b.baris : b.baris[i].barang \in Barang
  BY <1>2 DEF BarisDok
<1>4. Bergerak(b) \in SUBSET DOMAIN b.baris
  BY DEF Bergerak
<1>5. IsFiniteSet(DOMAIN b.baris) /\ IsFiniteSet(Bergerak(b))
  <2>1. IsFiniteSet(DOMAIN b.baris)
    BY <1>2, FS_Interval
  <2>2. QED BY <1>4, <2>1, FS_Subset
<1> DEFINE f == [i \in Bergerak(b) |-> b.baris[i]]
<1>6. DOMAIN f = Bergerak(b) /\ \A i \in DOMAIN f : f[i].barang \in Barang
  BY <1>3, <1>4
<1> HIDE DEF f
<1>7. BarangBaris(f) \in Seq(Barang)
  BY <1>5, <1>6, BarangBarisSah
<1>8. /\ BarangBaris(b.baris) \in Seq(Barang)
      /\ ToSet(BarangBaris(b.baris)) = {b.baris[i].barang : i \in DOMAIN b.baris}
  BY <1>3, <1>5, BarangBarisSah
<1>9. QED BY <1>3, <1>4, <1>7, <1>8 DEF f

\* A Create asks for the purchase or the memberships, and for the series.
LEMMA PerluBuatSah ==
  ASSUME NEW g, g.jenis \in Jenis, g.isi \in Isian[g.jenis], g.baris \in PilihanBaris
  PROVE  LET p == Eks(KSeri(g.jenis, UnitRuang[g.isi.ruang])) IN
         /\ PerluBuat(g) \in Seq(PermintaanDraf)
         /\ p \in ToSet(PerluBuat(g))
         /\ \A q \in ToSet(PerluBuat(g)) : q.kunci[1] = "document_counter" => q = p
         /\ g.jenis \in Anak => Eks(KInduk) \in ToSet(PerluBuat(g))
<1> DEFINE p == Eks(KSeri(g.jenis, UnitRuang[g.isi.ruang]))
<1> DEFINE kepala == [jenis |-> g.jenis, ruang |-> g.isi.ruang, tujuan |-> g.isi.tujuan]
<1> DEFINE awal == IF g.jenis \in Anak THEN KunciInduk ELSE Katalog(kepala, BarangBaris(g.baris))
<1>1. g.isi \in KepalaIsian
  BY AsumsiDraf DEF AsumsiDraf
<1>2. g.isi.ruang \in Ruang /\ g.isi.tujuan \in Ruang
  BY <1>1 DEF KepalaIsian
<1>3. UnitRuang[g.isi.ruang] \in Unit
  BY <1>2, AsumsiDraf DEF AsumsiDraf
<1>4. p \in PermintaanDraf /\ Eks(KInduk) \in PermintaanDraf
  BY <1>3 DEF PermintaanDraf
<1>5. /\ awal \in Seq(PermintaanDraf)
      /\ \A q \in ToSet(awal) : q.kunci[1] # "document_counter"
      /\ g.jenis \in Anak => Eks(KInduk) \in ToSet(awal)
  <2>1. CASE g.jenis \in Anak
    <3>1. awal = <<Eks(KInduk)>> /\ Eks(KInduk).kunci[1] # "document_counter"
      BY <2>1 DEF KunciInduk, KInduk, Eks
    <3> HIDE DEF awal
    <3>2. QED BY <1>4, <3>1, SatuSemua
  <2>2. CASE g.jenis \notin Anak
    <3>1. awal = Katalog(kepala, BarangBaris(g.baris)) /\ kepala.ruang \in Ruang /\ kepala.tujuan \in Ruang
      BY <1>2, <2>2
    <3>2. BarangBaris(g.baris) \in Seq(Barang)
      BY BarangIsian
    <3> HIDE DEF awal, kepala
    <3>3. /\ Katalog(kepala, BarangBaris(g.baris)) \in Seq(PermintaanDraf)
          /\ \A q \in ToSet(Katalog(kepala, BarangBaris(g.baris))) : q.kunci[1] = "product_unit_kerja"
      BY <3>1, <3>2, KatalogSah
    <3>4. QED BY <2>2, <3>1, <3>3
  <2>3. QED BY <2>1, <2>2
<1> DEFINE akhir == <<p>>
<1>6. PerluBuat(g) = awal \o akhir
  BY DEF PerluBuat, Seri
<1> HIDE DEF awal, p
<1>7. akhir \in Seq(PermintaanDraf) /\ ToSet(akhir) = {p}
  BY <1>4, SatuSemua
<1> HIDE DEF akhir
<1>8. awal \o akhir \in Seq(PermintaanDraf) /\ ToSet(awal \o akhir) = ToSet(awal) \cup {p}
  BY <1>5, <1>7, GabungSemua
<1>9. QED BY <1>5, <1>6, <1>8 DEF p

\* The others ask for what they touch besides their own row.
LEMMA PerluDokSah ==
  ASSUME NEW g, NEW b \in KepalaDok, g.aksi \in AksiDok, SahAksi(g, b.jenis)
  PROVE  /\ PerluDok(g, b) \in Seq(PermintaanDraf)
         /\ \A q \in ToSet(PerluDok(g, b)) : q.kunci[1] # "document_counter"
         /\ g.aksi = "ganti" /\ b.jenis \in Anak => Eks(KInduk) \in ToSet(PerluDok(g, b))
         /\ g.aksi = "posting" => \A i \in Bergerak(b) : \A r \in MasukKe(b) :
              Bagi(KKatalog(b.baris[i].barang, UnitRuang[r])) \in ToSet(PerluDok(g, b))
<1>0. b.ruang \in Ruang /\ b.tujuan \in Ruang /\ b.jenis \in Jenis
  BY DEF KepalaDok
<1>1. CASE g.aksi = "ubah"
  <2>1. CASE b.jenis = "saldo_awal" /\ "ruang" \in DOMAIN g.patch
    <3>1. PerluDok(g, b) = KatalogRuang(g.patch.ruang, BarangBaris(b.baris))
      BY <1>1, <2>1 DEF PerluDok
    <3>2. g.patch \in Patch[b.jenis]
      BY <1>1 DEF SahAksi
    <3>3. g.patch["ruang"] \in TipeKolom["ruang"]
      BY <1>0, <2>1, <3>2, AsumsiDraf DEF AsumsiDraf
    <3>4. g.patch.ruang \in Ruang
      BY <3>3 DEF TipeKolom
    <3>5. BarangBaris(b.baris) \in Seq(Barang)
      BY BarangDok
    <3>6. \A x, u : Bagi(KKatalog(x, u)).kunci[1] = "product_unit_kerja"
      BY DEF Bagi, KKatalog
    <3>7. QED BY <1>1, <3>1, <3>4, <3>5, <3>6, KatalogRuangSah
  <2>2. CASE ~(b.jenis = "saldo_awal" /\ "ruang" \in DOMAIN g.patch)
    <3>1. PerluDok(g, b) = <<>>
      BY <1>1, <2>2 DEF PerluDok
    <3>2. QED BY <1>1, <3>1, KosongSemua
  <2>3. QED BY <2>1, <2>2
<1>2. CASE g.aksi = "ganti"
  <2>1. CASE b.jenis \in Anak
    <3>1. PerluDok(g, b) = <<Eks(KInduk)>>
      BY <1>2, <2>1 DEF PerluDok, KunciInduk, Anak, Berstok
    <3>2. Eks(KInduk) \in PermintaanDraf /\ Eks(KInduk).kunci[1] # "document_counter"
      BY DEF PermintaanDraf, KInduk, Eks
    <3>3. QED BY <1>2, <3>1, <3>2, SatuSemua
  <2>2. CASE b.jenis \notin Anak
    <3>1. PerluDok(g, b) = Katalog(b, BarangBaris(g.baris))
      BY <1>0, <1>2, <2>2 DEF PerluDok, Jenis
    <3>2. BarangBaris(g.baris) \in Seq(Barang)
      BY <1>2, BarangIsian DEF SahAksi
    <3>3. /\ Katalog(b, BarangBaris(g.baris)) \in Seq(PermintaanDraf)
          /\ \A q \in ToSet(Katalog(b, BarangBaris(g.baris))) : q.kunci[1] = "product_unit_kerja"
      BY <1>0, <3>2, KatalogSah
    <3>4. QED BY <1>2, <2>2, <3>1, <3>3
  <2>3. QED BY <2>1, <2>2
<1>3. CASE g.aksi = "posting"
  <2>1. CASE b.jenis # "pemakaian"
    <3>1. PerluDok(g, b) = Katalog(b, BarangBaris(b.baris))
      BY <1>3, <2>1 DEF PerluDok
    <3>2. BarangBaris(b.baris) \in Seq(Barang)
      BY BarangDok
    <3>3. /\ Katalog(b, BarangBaris(b.baris)) \in Seq(PermintaanDraf)
          /\ \A q \in ToSet(Katalog(b, BarangBaris(b.baris))) : q.kunci[1] = "product_unit_kerja"
          /\ \A x \in ToSet(BarangBaris(b.baris)) :
               /\ Bagi(KKatalog(x, UnitRuang[b.ruang])) \in ToSet(Katalog(b, BarangBaris(b.baris)))
               /\ b.jenis = "mutasi" =>
                    Bagi(KKatalog(x, UnitRuang[b.tujuan])) \in ToSet(Katalog(b, BarangBaris(b.baris)))
      BY <1>0, <3>2, KatalogSah
    <3>4. \A i \in Bergerak(b) : b.baris[i].barang \in ToSet(BarangBaris(b.baris))
      BY BarangDok
    <3>5. \A r \in MasukKe(b) : IF b.jenis = "mutasi" THEN r = b.tujuan ELSE r = b.ruang
      BY <2>1 DEF MasukKe
    <3>6. QED BY <1>3, <3>1, <3>3, <3>4, <3>5
  <2>2. CASE b.jenis = "pemakaian"
    <3> DEFINE s == BarangBaris([i \in Bergerak(b) |-> b.baris[i]])
    <3>1. PerluDok(g, b) = Katalog(b, s)
      BY <1>3, <2>2 DEF PerluDok
    <3>2. s \in Seq(Barang)
      BY BarangDok
    <3> HIDE DEF s
    <3>3. /\ Katalog(b, s) \in Seq(PermintaanDraf)
          /\ \A q \in ToSet(Katalog(b, s)) : q.kunci[1] = "product_unit_kerja"
      BY <1>0, <3>2, KatalogSah
    <3>4. MasukKe(b) = {}
      BY <2>2 DEF MasukKe
    <3>5. QED BY <1>3, <3>1, <3>3, <3>4
  <2>3. QED BY <2>1, <2>2
<1>4. CASE g.aksi \notin {"ubah", "ganti", "posting"}
  <2>1. PerluDok(g, b) = <<>>
    BY <1>4 DEF PerluDok
  <2>2. QED BY <1>4, <2>1, KosongSemua
<1>5. QED BY <1>1, <1>2, <1>3, <1>4

\* What may be asked of a document.
LEMMA TugasSah ==
  ASSUME NEW j \in Jenis, NEW g \in Tugas(j)
  PROVE  g.aksi \in AksiDok /\ SahAksi(g, j)
<1>1. CASE g \in [aksi : {"ubah"}, dok : Dok, patch : Patch[j]]
  BY <1>1 DEF AksiDok, SahAksi
<1>2. CASE g \in [aksi : {"ganti"}, dok : Dok, baris : PilihanBaris]
  BY <1>2 DEF AksiDok, SahAksi
<1>3. CASE g \in [aksi : {"posting", "batal"} \cap (IF j \in Berstok THEN {"posting", "batal"} ELSE {}), dok : Dok]
  BY <1>3 DEF AksiDok, SahAksi
<1>4. CASE g \in [aksi : {"ajukan"} \cap (IF j = "mutasi" THEN {} ELSE {"ajukan"}), dok : Dok]
  BY <1>4 DEF AksiDok, SahAksi
<1>5. CASE g \in [aksi : {"tolak"} \cap (IF j = "mutasi" THEN {} ELSE {"tolak"}), dok : Dok, orang : Orang]
  BY <1>5 DEF AksiDok, SahAksi
<1>6. CASE g \in [aksi : {"setujui"} \cap (IF j = "pemakaian" THEN {"setujui"} ELSE {}), dok : Dok,
                  orang : Orang, putusan : Putusan]
  BY <1>6 DEF AksiDok, SahAksi
<1>7. QED BY <1>1, <1>2, <1>3, <1>4, <1>5, <1>6 DEF Tugas

LEMMA TugasBuatSah ==
  ASSUME NEW j \in Jenis, NEW g \in TugasBuat(j)
  PROVE  /\ g.aksi = "buat" /\ g.dok \in Dok /\ g.jenis = j /\ g.isi \in Isian[g.jenis]
         /\ g.baris \in PilihanBaris
BY DEF TugasBuat

LEMMA TugasKatalogSah ==
  ASSUME NEW g \in TugasKatalog
  PROVE  g.aksi = "katalog" /\ SahKatalog(g)
BY DEF TugasKatalog, SahKatalog

LEMMA KosongTak == /\ Menganggur.aksi \notin AksiDok \cup {"buat", "katalog"}
                   /\ Hampa \in TipeDapat /\ Hampa.unit = {} /\ Hampa.nomor \in Nat
BY DEF Menganggur, AksiDok, Hampa, TipeDapat

-----------------------------------------------------------------------------
(* Sessions beside each other.                                             *)
SesiTetap(u) ==
  /\ pc'[u] = pc[u] /\ tugas'[u] = tugas[u] /\ salinan'[u] = salinan[u]
  /\ perlu'[u] = perlu[u] /\ dapat'[u] = dapat[u]

\* What t does to the data, it has locked.
Aman(t) ==
  /\ \A d \in Dok : dok'[d] # dok[d] =>
       /\ tugas[t].dok = d
       /\ tugas[t].aksi = "buat" \/ (tugas[t].aksi \in AksiDok /\ MemegangX(t, KDok(d)))
  /\ \A d \in Dok : dok'[d].jenis = dok[d].jenis /\ (dok[d].status # "TIADA" => dok'[d].status # "TIADA")
  /\ \A x \in Jenis \X Unit : hitung'[x] # hitung[x] => MemegangX(t, KSeri(x[1], x[2]))
  /\ \A x \in katalog : x \notin katalog' => MemegangX(t, KKatalog(x[1], x[2]))
  /\ indukPosted' = indukPosted
  /\ DibawaBatal \subseteq DibawaBatal'
  /\ \A x \in Barang \X Ruang : stok'[x] > 0 =>
       \/ stok[x] > 0 \/ <<x[1], UnitRuang[x[2]]>> \in DibawaBatal'
       \/ Dipegang(t, KKatalog(x[1], UnitRuang[x[2]]))

LEMMA PemegangSatu ==
  ASSUME KunciSah, NEW t \in Sesi, NEW u \in Sesi, t # u, NEW k, MemegangX(t, k)
  PROVE  ~Dipegang(u, k)
BY DEF KunciSah, KunciBenar, Eksklusif, Bentrok, MemegangX, Dipegang

LEMMA LainTahan ==
  ASSUME NEW u, Lain(u)
  PROVE  \A k : Dipegang(u, k) => Dipegang(u, k)'
BY DEF Lain, Maju, Dipegang

\* Nobody is disturbed by what another session has locked.
LEMMA LainBenar ==
  ASSUME TipeData, KunciSah, Berbeda, NEW t \in Sesi, NEW u \in Sesi, u # t,
         Kerja(t), SesiBenar(u), Lain(u), SesiTetap(u), Aman(t)
  PROVE  SesiBenar(u)'
<1> DEFINE g == tugas[u]
<1>1. /\ pc'[u] = pc[u] /\ tugas'[u] = g /\ salinan'[u] = salinan[u]
      /\ perlu'[u] = perlu[u] /\ dapat'[u] = dapat[u]
  BY DEF SesiTetap
<1>2. /\ Jalan(u) => Jalan(u)'
      /\ \A k : MemegangX(u, k) => MemegangX(u, k)'
      /\ \A p : Dipenuhi(u, p) => Dipenuhi(u, p)'
      /\ \A k : Dipegang(u, k) => Dipegang(u, k)'
  BY LainTetap, LainTahan
<1>3. \A k : MemegangX(u, k) => ~MemegangX(t, k)
  BY PemegangTunggal
<1>4. \A d \in Dok : dok'[d].jenis = dok[d].jenis /\ (dok[d].status # "TIADA" => dok'[d].status # "TIADA")
  BY DEF Aman
<1>5. ASSUME g.aksi = "buat" PROVE g.dok \in Dok /\ dok'[g.dok] = dok[g.dok]
  <2>1. g.dok \in Dok /\ dok[g.dok].status = "TIADA"
    BY <1>5 DEF SesiBenar, Kerja, SahBuat
  <2>2. SUFFICES ASSUME dok'[g.dok] # dok[g.dok] PROVE FALSE
    BY <2>1
  <2>3. /\ tugas[t].dok = g.dok
        /\ tugas[t].aksi = "buat" \/ tugas[t].aksi \in AksiDok
    BY <2>1, <2>2 DEF Aman
  <2>4. CASE tugas[t].aksi = "buat"
    BY <1>5, <2>3, <2>4 DEF Berbeda
  <2>5. CASE tugas[t].aksi \in AksiDok
    BY <2>1, <2>3, <2>5 DEF Kerja
  <2>6. QED BY <2>3, <2>4, <2>5
<1>6. ASSUME g.aksi \in AksiDok PROVE g.dok \in Dok /\ dok[g.dok].status # "TIADA"
  BY <1>6 DEF SesiBenar, Kerja, SahAksi
<1>7. ASSUME g.aksi \in AksiDok, MemegangX(u, KDok(g.dok)) PROVE dok'[g.dok] = dok[g.dok]
  <2>1. SUFFICES ASSUME dok'[g.dok] # dok[g.dok] PROVE FALSE
    OBVIOUS
  <2>2. /\ tugas[t].dok = g.dok
        /\ tugas[t].aksi = "buat" \/ MemegangX(t, KDok(g.dok))
    BY <1>6, <1>7, <2>1 DEF Aman
  <2>3. tugas[t].aksi = "buat"
    BY <1>3, <1>7, <2>2
  <2>4. dok[g.dok].status = "TIADA"
    BY <2>2, <2>3 DEF Kerja, SahBuat
  <2>5. QED BY <1>6, <1>7, <2>4
<1>8. Kerja(u)'
  <2>1. g.aksi = "buat" => SahBuat(tugas[u])'
    <3>1. SUFFICES ASSUME g.aksi = "buat" PROVE SahBuat(tugas[u])'
      OBVIOUS
    <3>2. SahBuat(g)
      BY <3>1 DEF SesiBenar, Kerja
    <3>3. QED BY <1>1, <1>5, <3>1, <3>2 DEF SahBuat
  <2>2. g.aksi \in AksiDok => SahAksi(g, dok'[g.dok].jenis) /\ dok'[g.dok].status # "TIADA"
    <3>1. SUFFICES ASSUME g.aksi \in AksiDok
                   PROVE SahAksi(g, dok'[g.dok].jenis) /\ dok'[g.dok].status # "TIADA"
      OBVIOUS
    <3>2. SahAksi(g, dok[g.dok].jenis)
      BY <3>1 DEF SesiBenar, Kerja
    <3>3. QED BY <1>4, <1>6, <3>1, <3>2
  <2>3. Kerja(u)
    BY DEF SesiBenar
  <2>4. QED BY <1>1, <2>1, <2>2, <2>3 DEF Kerja
<1>9. Terkunci(u)'
  <2>1. Terkunci(u)
    BY DEF SesiBenar
  <2>2. g.aksi \in AksiDok /\ pc[u] \in {"ambil", "periksa"} =>
           /\ MemegangX(u, KDok(g.dok))' /\ salinan[u] = dok'[g.dok] /\ StatusBenar(g, dok'[g.dok])
    <3>1. SUFFICES ASSUME g.aksi \in AksiDok, pc[u] \in {"ambil", "periksa"}
                   PROVE  /\ MemegangX(u, KDok(g.dok))' /\ salinan[u] = dok'[g.dok]
                          /\ StatusBenar(g, dok'[g.dok])
      OBVIOUS
    <3>2. MemegangX(u, KDok(g.dok)) /\ salinan[u] = dok[g.dok] /\ StatusBenar(g, dok[g.dok])
      BY <2>1, <3>1 DEF Terkunci
    <3>3. dok'[g.dok] = dok[g.dok]
      BY <1>7, <3>1, <3>2
    <3>4. PICK k : k = KDok(g.dok)
      OBVIOUS
    <3>5. MemegangX(u, k)'
      BY <1>2, <3>2, <3>4
    <3>6. KDok(g.dok)' = k
      BY <1>1, <3>4 DEF KDok
    <3>7. QED BY <3>2, <3>3, <3>5, <3>6 DEF MemegangX
  <2>3. QED BY <1>1, <1>2, <2>1, <2>2 DEF Terkunci
<1>10. SeriBenar(u)'
  <2>1. SeriBenar(u)
    BY DEF SesiBenar
  <2>2. SUFFICES ASSUME g.aksi = "buat",
                        MemegangX(u, KSeri(g.jenis, UnitRuang[g.isi.ruang]))
                 PROVE  hitung'[<<g.jenis, UnitRuang[g.isi.ruang]>>] = hitung[<<g.jenis, UnitRuang[g.isi.ruang]>>]
    <3>1. Eks(KSeri(g.jenis, UnitRuang[g.isi.ruang])).kunci = KSeri(g.jenis, UnitRuang[g.isi.ruang])
      BY DEF Eks
    <3>2. QED BY <1>1, <1>2, <2>1, <2>2, <3>1 DEF SeriBenar
  <2>3. g.jenis \in Jenis /\ g.isi \in Isian[g.jenis]
    BY <2>2 DEF SesiBenar, Kerja, SahBuat
  <2>4. g.isi \in KepalaIsian
    BY <2>3, AsumsiDraf DEF AsumsiDraf
  <2>5. g.isi.ruang \in Ruang
    BY <2>4 DEF KepalaIsian
  <2>6. UnitRuang[g.isi.ruang] \in Unit
    BY <2>5, AsumsiDraf DEF AsumsiDraf
  <2>7. ~MemegangX(t, KSeri(g.jenis, UnitRuang[g.isi.ruang]))
    BY <1>3, <2>2
  <2>8. QED BY <2>3, <2>6, <2>7 DEF Aman
<1>11. IndukBenar(u)'
  <2>1. IndukBenar(u)
    BY DEF SesiBenar
  <2>2. g.aksi \in {"buat", "ganti"} => dok'[g.dok].jenis = dok[g.dok].jenis
    BY <1>4, <1>5, <1>6 DEF AksiDok
  <2>3. indukPosted' = indukPosted
    BY DEF Aman
  <2>4. QED BY <1>1, <1>2, <2>1, <2>2, <2>3 DEF IndukBenar
<1>12. MasukBenar(u)'
  <2>1. MasukBenar(u)
    BY DEF SesiBenar
  <2>2. \A x, v : Dipegang(u, KKatalog(x, v)) /\ <<x, v>> \in katalog => <<x, v>> \in katalog'
    <3>1. SUFFICES ASSUME NEW x, NEW v, Dipegang(u, KKatalog(x, v)), <<x, v>> \in katalog,
                          <<x, v>> \notin katalog'
                   PROVE  FALSE
      OBVIOUS
    <3>2. MemegangX(t, KKatalog(x, v))
      BY <3>1 DEF Aman
    <3>3. QED BY <3>1, <3>2, PemegangSatu
  <2>3. \A x, v : KKatalog(x, v)[2] = x /\ KKatalog(x, v)[3] = v
    BY DEF KKatalog
  <2>4. QED BY <1>1, <1>2, <2>1, <2>2, <2>3 DEF MasukBenar
<1>13. CabutBenar(u)'
  <2>1. CabutBenar(u)
    BY DEF SesiBenar
  <2>2. SUFFICES ASSUME g.aksi = "katalog", pc[u] = "cabut", NEW v \in dapat[u].unit, NEW r \in Ruang,
                        UnitRuang[r] = v, stok'[<<g.barang, r>>] > 0
                 PROVE  <<g.barang, v>> \in DibawaBatal'
    BY <1>1, <1>2, <2>1 DEF CabutBenar
  <2>3. g.barang \in Barang
    BY <2>2 DEF SesiBenar, Kerja, SahKatalog
  <2>4. ~Dipegang(t, KKatalog(g.barang, v))
    BY <2>1, <2>2, PemegangSatu DEF CabutBenar
  <2>5. stok[<<g.barang, r>>] > 0 \/ <<g.barang, v>> \in DibawaBatal'
    BY <2>2, <2>3, <2>4 DEF Aman
  <2>6. CASE stok[<<g.barang, r>>] > 0
    <3>1. <<g.barang, v>> \in DibawaBatal
      BY <2>1, <2>2, <2>6 DEF CabutBenar
    <3>2. QED BY <3>1 DEF Aman
  <2>7. QED BY <2>5, <2>6
<1>14. QED BY <1>8, <1>9, <1>10, <1>11, <1>12, <1>13 DEF SesiBenar

LEMMA DataDiam ==
  ASSUME DataBenar, UNCHANGED drafVars, mulai' \in 0..MaksMulai
  PROVE  DataBenar' /\ \A t : Aman(t)
<1>1. /\ dok' = dok /\ hitung' = hitung /\ kode' = kode /\ katalog' = katalog /\ stok' = stok
      /\ pernah' = pernah /\ indukPosted' = indukPosted
  BY DEF drafVars
<1>2. DibawaBatal' = DibawaBatal /\ Bocor' = Bocor /\ Bernomor' = Bernomor
  BY <1>1 DEF DibawaBatal, Bocor, Bernomor
<1>3. TipeData'
  BY <1>1 DEF DataBenar, TipeData
<1>4. NomorBeda' /\ HitungDiAtas' /\ Ditolak' /\ DisetujuiOrangLain' /\ HanyaBatalMembocorkan'
  BY <1>1, <1>2 DEF DataBenar, NomorBeda, HitungDiAtas, Ditolak, DisetujuiOrangLain, HanyaBatalMembocorkan
<1>5. \A t : Aman(t)
  BY <1>1, <1>2 DEF Aman
<1>6. QED BY <1>3, <1>4, <1>5 DEF DataBenar

\* A session that is not at work promises nothing.
LEMMA DiamBenar ==
  ASSUME NEW t, pc'[t] = "idle", tugas'[t] = Menganggur, dapat'[t] = Hampa, perlu'[t] = <<>>, Jalan(t)'
  PROVE  SesiBenar(t)'
<1>1. tugas'[t].aksi \notin AksiDok \cup {"buat", "katalog"}
  BY KosongTak
<1>2. ToSet(perlu'[t]) = {}
  BY KosongSemua
<1>4. Kerja(t)'
  BY <1>1 DEF Kerja
<1>5. Terkunci(t)'
  BY <1>1 DEF Terkunci
<1>6. SeriBenar(t)'
  BY <1>1, <1>2 DEF SeriBenar
<1>7. IndukBenar(t)' /\ MasukBenar(t)'
  BY DEF IndukBenar, MasukBenar
<1>8. CabutBenar(t)'
  BY <1>1 DEF CabutBenar
<1>9. QED BY <1>4, <1>5, <1>6, <1>7, <1>8 DEF SesiBenar

\* A transaction that ends leaves everybody else where they were.
LEMMA Selesai ==
  ASSUME IInv, NEW t \in Sesi, Bersih(t), Aman(t), DataBenar'
  PROVE  IInv'
<1>1. /\ KunciSah' /\ TipeKunci(PermintaanDraf)' /\ Jalan(t)'
      /\ \A u \in Sesi : u # t => Lain(u)
  <2>1. LepasSemua(t) /\ KunciSah /\ TipeKunci(PermintaanDraf)
    BY DEF IInv, Bersih
  <2>2. KunciSah' /\ Jalan(t)' /\ \A u \in Sesi : u # t => Lain(u)
    BY <2>1, LepasSah
  <2>3. TipeKunci(PermintaanDraf)'
    BY <2>1, LepasMaju
  <2>4. QED BY <2>2, <2>3
<1>2. /\ pc' = [pc EXCEPT ![t] = "idle"] /\ tugas' = [tugas EXCEPT ![t] = Menganggur]
      /\ salinan' = [salinan EXCEPT ![t] = Kosong] /\ perlu' = [perlu EXCEPT ![t] = <<>>]
      /\ dapat' = [dapat EXCEPT ![t] = Hampa]
      /\ TipeSesi
  BY DEF Bersih, IInv
<1>3. TipeSesi'
  BY <1>2, KosongTak, KosongSemua DEF TipeSesi
<1>4. /\ pc'[t] = "idle" /\ tugas'[t] = Menganggur /\ dapat'[t] = Hampa /\ perlu'[t] = <<>>
      /\ \A u \in Sesi : u # t => SesiTetap(u)
  BY <1>2 DEF TipeSesi, SesiTetap
<1>5. ASSUME NEW u \in Sesi PROVE SesiBenar(u)'
  <2>1. CASE u = t
    <3>1. SesiBenar(t)'
      BY <1>1, <1>4, DiamBenar
    <3>2. QED BY <2>1, <3>1
  <2>2. CASE u # t
    <3>1. TipeData /\ KunciSah /\ Berbeda /\ Kerja(t) /\ SesiBenar(u)
      BY DEF IInv, DataBenar, SesiBenar
    <3>2. Lain(u) /\ SesiTetap(u)
      BY <1>1, <1>4, <2>2
    <3>3. QED BY <2>2, <3>1, <3>2, LainBenar
  <2>3. QED BY <2>1, <2>2
<1>6. Berbeda'
  <2>1. tugas'[t].aksi # "buat"
    BY <1>4, KosongTak
  <2>2. \A u \in Sesi : u # t => tugas'[u] = tugas[u]
    BY <1>4 DEF SesiTetap
  <2>3. QED BY <2>1, <2>2 DEF IInv, Berbeda
<1>7. QED BY <1>1, <1>3, <1>5, <1>6 DEF IInv

\* One step of a transaction that has not ended.
LEMMA Langkah ==
  ASSUME IInv, NEW t \in Sesi, UNCHANGED drafVars, mulai' \in 0..MaksMulai,
         TipeSesi', TipeKunci(PermintaanDraf)', KunciSah', Berbeda', SesiBenar(t)',
         \A u \in Sesi : u # t => Lain(u) /\ SesiTetap(u)
  PROVE  IInv'
<1>1. DataBenar' /\ Aman(t)
  BY DataDiam DEF IInv
<1>2. ASSUME NEW u \in Sesi PROVE SesiBenar(u)'
  <2>1. CASE u = t
    BY <2>1
  <2>2. CASE u # t
    <3>1. TipeData /\ KunciSah /\ Berbeda /\ Kerja(t) /\ SesiBenar(u)
      BY DEF IInv, DataBenar, SesiBenar
    <3>2. Lain(u) /\ SesiTetap(u)
      BY <2>2
    <3>3. QED BY <1>1, <2>2, <3>1, <3>2, LainBenar
  <2>3. QED BY <2>1, <2>2
<1>3. QED BY <1>1, <1>2 DEF IInv

LEMMA GagalBenar == ASSUME IInv, NEW t \in Sesi, Gagal(t) PROVE IInv'
<1>1. Bersih(t) /\ UNCHANGED drafVars /\ mulai' = mulai
  BY DEF Gagal, Bersih
<1>2. mulai' \in 0..MaksMulai
  BY <1>1 DEF IInv, DataBenar, TipeData
<1>3. DataBenar' /\ Aman(t)
  BY <1>1, <1>2, DataDiam DEF IInv
<1>4. QED BY <1>1, <1>3, Selesai

-----------------------------------------------------------------------------
(* Documents beside each other.                                            *)
\* A voided document stays, and so does what it brought back.
LEMMA DibawaNaik ==
  ASSUME TipeData, \A d \in Dok : dok[d].status = "BATAL" => dok'[d] = dok[d]
  PROVE  DibawaBatal \subseteq DibawaBatal'
BY DEF DibawaBatal

\* What a handler leaves keeps the documents in order.
LEMMA DokBenar ==
  ASSUME DataBenar, NEW d \in Dok, dok[d].status # "TIADA", NEW x, Lanjut(dok[d], x),
         dok' = [dok EXCEPT ![d] = x], hitung' = hitung
  PROVE  /\ dok' \in [Dok -> KepalaDok] /\ NomorBeda' /\ HitungDiAtas' /\ Ditolak' /\ DisetujuiOrangLain'
         /\ DibawaBatal \subseteq DibawaBatal'
         /\ \A e \in Dok : /\ dok'[e].jenis = dok[e].jenis
                           /\ dok[e].status # "TIADA" => dok'[e].status # "TIADA"
                           /\ dok'[e] # dok[e] => e = d
<1>1. dok \in [Dok -> KepalaDok] /\ TipeData
  BY DEF DataBenar, TipeData
<1>2. /\ x \in KepalaDok /\ x.jenis = dok[d].jenis /\ x.nomor = dok[d].nomor /\ x.status # "TIADA"
      /\ x.status = "DITOLAK" => dok[d].status = "DITOLAK" \/ dok[d].jenis = "pemakaian"
      /\ dok[d].status = "BATAL" => x = dok[d]
      /\ SetujuSah(dok[d]) => SetujuSah(x)
  BY DEF Lanjut, Tetap
<1>3. dok' \in [Dok -> KepalaDok] /\ \A e \in Dok : dok'[e] = IF e = d THEN x ELSE dok[e]
  BY <1>1, <1>2
<1>4. \A e \in Dok : dok'[e].nomor = dok[e].nomor /\ dok'[e].jenis = dok[e].jenis
  BY <1>2, <1>3
<1>5. Bernomor' = Bernomor
  BY <1>2, <1>3 DEF Bernomor
<1>6. NomorBeda'
  <2>1. \A e \in Bernomor : dok'[e].nomor = dok[e].nomor
    BY <1>4 DEF Bernomor
  <2>2. NomorBeda
    BY DEF DataBenar
  <2>3. QED BY <1>5, <2>1, <2>2 DEF NomorBeda
<1>7. HitungDiAtas'
  <2>1. \A e \in Bernomor : dok'[e].nomor = dok[e].nomor
    BY <1>4 DEF Bernomor
  <2>2. HitungDiAtas
    BY DEF DataBenar
  <2>3. QED BY <1>5, <2>1, <2>2 DEF HitungDiAtas
<1>8. Ditolak'
  BY <1>2, <1>3 DEF DataBenar, Ditolak
<1>9. DisetujuiOrangLain'
  <2>1. \A e \in Dok : SetujuSah(dok[e])
    BY DEF DataBenar, DisetujuiOrangLain, SetujuSah
  <2>2. \A e \in Dok : SetujuSah(dok'[e])
    BY <1>2, <1>3, <2>1
  <2>3. QED BY <2>2 DEF DisetujuiOrangLain, SetujuSah
<1>10. DibawaBatal \subseteq DibawaBatal'
  BY <1>1, <1>2, <1>3, DibawaNaik
<1>11. QED BY <1>2, <1>3, <1>4, <1>6, <1>7, <1>8, <1>9, <1>10

\* A document goes on from where it was, and one that hangs on the purchase
\* gets lines while the purchase stands.
Melangkah ==
  \A d \in Dok : dok'[d] # dok[d] =>
    /\ dok[d].status = "TIADA" \/ Lanjut(dok[d], dok'[d])
    /\ dok[d].jenis \in Anak /\ dok'[d].baris # dok[d].baris => indukPosted

LEMMA GagalMelangkah == ASSUME NEW t, Gagal(t) PROVE Melangkah
BY DEF Gagal, drafVars, Melangkah

\* Where the document went, the goods of the ledger stayed.
LEMMA TulisBenar ==
  ASSUME IInv, NEW t \in Sesi, tugas[t].aksi \in AksiDok, pc[t] = "ambil", NEW hasil,
         \A x \in hasil : /\ Lanjut(salinan[t], x)
                          /\ salinan[t].jenis \in Anak /\ x.baris # salinan[t].baris => indukPosted,
         Tulis(t, hasil)
  PROVE  IInv' /\ Melangkah
<1> DEFINE d == tugas[t].dok
<1>1. SesiBenar(t) /\ DataBenar
  BY DEF IInv
<1>2. /\ d \in Dok /\ dok[d].status # "TIADA" /\ MemegangX(t, KDok(d)) /\ salinan[t] = dok[d]
  BY <1>1 DEF SesiBenar, Kerja, SahAksi, Terkunci
<1>3. CASE hasil = {} /\ Gagal(t)
  BY <1>3, GagalBenar, GagalMelangkah
<1>4. CASE /\ \E b \in hasil : dok' = [dok EXCEPT ![tugas[t].dok] = b]
           /\ UNCHANGED <<hitung, kode, katalog, stok, pernah, indukPosted>>
           /\ Bersih(t)
  <2>1. PICK x \in hasil : dok' = [dok EXCEPT ![d] = x]
    BY <1>4
  <2>2. /\ hitung' = hitung /\ kode' = kode /\ katalog' = katalog /\ stok' = stok
        /\ pernah' = pernah /\ indukPosted' = indukPosted /\ mulai' = mulai
    BY <1>4 DEF Bersih
  <2>3. Lanjut(dok[d], x)
    BY <1>2
  <2> HIDE DEF d
  <2>4. /\ dok' \in [Dok -> KepalaDok] /\ NomorBeda' /\ HitungDiAtas' /\ Ditolak' /\ DisetujuiOrangLain'
        /\ DibawaBatal \subseteq DibawaBatal'
        /\ \A e \in Dok : /\ dok'[e].jenis = dok[e].jenis
                          /\ dok[e].status # "TIADA" => dok'[e].status # "TIADA"
                          /\ dok'[e] # dok[e] => e = d
    BY <1>1, <1>2, <2>1, <2>2, <2>3, DokBenar
  <2>5. TipeData'
    BY <1>1, <2>2, <2>4 DEF DataBenar, TipeData
  <2>6. HanyaBatalMembocorkan'
    <3>1. Bocor' = Bocor
      BY <2>2 DEF Bocor
    <3>2. QED BY <1>1, <2>4, <3>1 DEF DataBenar, HanyaBatalMembocorkan
  <2>7. Aman(t)
    BY <1>2, <2>2, <2>4 DEF Aman, d
  <2>8. Melangkah
    <3>1. dok'[d] = x /\ (dok[d].jenis \in Anak /\ x.baris # dok[d].baris => indukPosted)
      BY <1>1, <1>2, <2>1 DEF DataBenar, TipeData, d
    <3>2. QED BY <2>3, <2>4, <3>1 DEF Melangkah
  <2>9. QED BY <1>4, <2>4, <2>5, <2>6, <2>7, <2>8, Selesai DEF DataBenar
<1>5. QED BY <1>3, <1>4 DEF Tulis

LEMMA TersentuhSah ==
  ASSUME NEW b \in KepalaDok
  PROVE  Tersentuh(b) \subseteq Barang \X Ruang
<1>1. b.ruang \in Ruang /\ b.tujuan \in Ruang
  BY DEF KepalaDok
<1>2. MasukKe(b) \cup KeluarDari(b) \subseteq Ruang
  BY <1>1 DEF MasukKe, KeluarDari
<1>3. \A i \in Bergerak(b) : b.baris[i].barang \in Barang
  BY BarangDok
<1>4. QED BY <1>2, <1>3 DEF Tersentuh

\* Goods come into a room in its unit's catalog, or by a cancellation.
LEMMA PindahBenar ==
  ASSUME IInv, NEW t \in Sesi, tugas[t].aksi \in AksiDok, pc[t] = "ambil",
         NEW status, NEW akhir \in [Barang \X Ruang -> Int], Pindahkan(t, status, akhir),
         Lanjut(salinan[t], [salinan[t] EXCEPT !.status = status]),
         \A y \in Barang \X Ruang : akhir[y] > stok[y] =>
           \/ /\ Dipegang(t, KKatalog(y[1], UnitRuang[y[2]]))
              /\ <<y[1], UnitRuang[y[2]]>> \in katalog
           \/ /\ status = "BATAL" /\ salinan[t].jenis \in {"mutasi", "pemakaian"}
              /\ UnitRuang[salinan[t].ruang] = UnitRuang[y[2]]
              /\ \E i \in DOMAIN salinan[t].baris : salinan[t].baris[i].barang = y[1]
  PROVE  IInv' /\ Melangkah
<1> DEFINE d == tugas[t].dok
<1> DEFINE x == [salinan[t] EXCEPT !.status = status]
<1>1. SesiBenar(t) /\ DataBenar /\ TipeData
  BY DEF IInv, DataBenar
<1>2. /\ d \in Dok /\ dok[d].status # "TIADA" /\ MemegangX(t, KDok(d)) /\ salinan[t] = dok[d]
  BY <1>1 DEF SesiBenar, Kerja, SahAksi, Terkunci
<1>3. CASE ~Cukup(akhir) /\ Gagal(t)
  BY <1>3, GagalBenar, GagalMelangkah
<1>4. CASE /\ Cukup(akhir) /\ stok' = akhir
           /\ dok' = [dok EXCEPT ![tugas[t].dok].status = status]
           /\ pernah' = IF status = "POSTED" THEN pernah \cup Tersentuh(salinan[t]) ELSE pernah
           /\ UNCHANGED <<hitung, kode, katalog, indukPosted>>
           /\ Bersih(t)
  <2>0. dok \in [Dok -> KepalaDok] /\ salinan[t] \in KepalaDok
    BY <1>1, <1>2 DEF TipeData
  <2>1. dok' = [dok EXCEPT ![d] = x]
    BY <1>2, <1>4, <2>0
  <2>2. /\ hitung' = hitung /\ kode' = kode /\ katalog' = katalog /\ indukPosted' = indukPosted
        /\ mulai' = mulai /\ stok' = akhir
    BY <1>4 DEF Bersih
  <2>3. Lanjut(dok[d], x) /\ x.status = status /\ x.jenis = salinan[t].jenis /\ x.ruang = salinan[t].ruang
        /\ x.baris = salinan[t].baris
    BY <1>2, <2>0 DEF KepalaDok
  <2> HIDE DEF d, x
  <2>4. /\ dok' \in [Dok -> KepalaDok] /\ NomorBeda' /\ HitungDiAtas' /\ Ditolak' /\ DisetujuiOrangLain'
        /\ DibawaBatal \subseteq DibawaBatal'
        /\ \A e \in Dok : /\ dok'[e].jenis = dok[e].jenis
                          /\ dok[e].status # "TIADA" => dok'[e].status # "TIADA"
                          /\ dok'[e] # dok[e] => e = d
    BY <1>1, <1>2, <2>1, <2>2, <2>3, DokBenar
  <2>5. stok' \in [Barang \X Ruang -> Nat]
    <3>1. \A y \in Barang \X Ruang : akhir[y] >= 0 /\ akhir[y] \in Int
      BY <1>4 DEF Cukup
    <3>2. \A y \in Barang \X Ruang : akhir[y] \in Nat
      BY <3>1
    <3>3. QED BY <2>2, <3>2
  <2>6. pernah' \subseteq Barang \X Ruang
    BY <1>1, <1>4, <2>0, TersentuhSah DEF TipeData
  <2>7. TipeData'
    BY <1>1, <2>2, <2>4, <2>5, <2>6 DEF TipeData
  <2>8. ASSUME NEW y \in Barang \X Ruang, stok'[y] > 0
        PROVE  \/ stok[y] > 0
               \/ Dipegang(t, KKatalog(y[1], UnitRuang[y[2]])) /\ <<y[1], UnitRuang[y[2]]>> \in katalog
               \/ <<y[1], UnitRuang[y[2]]>> \in DibawaBatal'
    <3>1. stok[y] \in Nat /\ akhir[y] \in Int
      BY <1>1 DEF TipeData
    <3>2. SUFFICES ASSUME ~(stok[y] > 0),
                          ~(Dipegang(t, KKatalog(y[1], UnitRuang[y[2]])) /\ <<y[1], UnitRuang[y[2]]>> \in katalog)
                   PROVE  <<y[1], UnitRuang[y[2]]>> \in DibawaBatal'
      OBVIOUS
    <3>3. akhir[y] > stok[y]
      BY <2>2, <2>8, <3>1, <3>2
    <3>4. /\ status = "BATAL" /\ salinan[t].jenis \in {"mutasi", "pemakaian"}
          /\ UnitRuang[salinan[t].ruang] = UnitRuang[y[2]]
          /\ \E i \in DOMAIN salinan[t].baris : salinan[t].baris[i].barang = y[1]
      BY <3>2, <3>3
    <3>5. dok'[d] = x
      BY <1>2, <2>0, <2>1
    <3>6. PICK i \in DOMAIN dok'[d].baris : dok'[d].baris[i].barang = y[1]
      BY <2>3, <3>4, <3>5
    <3>7. /\ dok'[d].status = "BATAL" /\ dok'[d].jenis \in {"mutasi", "pemakaian"}
          /\ UnitRuang[dok'[d].ruang] = UnitRuang[y[2]]
      BY <2>3, <3>4, <3>5
    <3>8. QED BY <1>2, <3>6, <3>7 DEF DibawaBatal
  <2>9. HanyaBatalMembocorkan'
    <3>1. SUFFICES ASSUME NEW z \in Bocor' PROVE z \in DibawaBatal'
      BY DEF HanyaBatalMembocorkan
    <3>2. PICK r \in Ruang : UnitRuang[r] = z[2] /\ stok'[<<z[1], r>>] > 0
      BY <3>1 DEF Bocor
    <3>3. z \in Barang \X Unit /\ z \notin katalog /\ z = <<z[1], UnitRuang[r]>> /\ z[1] \in Barang
      BY <2>2, <3>1, <3>2 DEF Bocor
    <3>4. <<z[1], r>> \in Barang \X Ruang /\ <<z[1], r>>[1] = z[1] /\ <<z[1], r>>[2] = r
      BY <3>3
    <3>5. stok[<<z[1], r>>] > 0 \/ z \in DibawaBatal'
      BY <2>8, <3>2, <3>3, <3>4
    <3>6. CASE stok[<<z[1], r>>] > 0
      <4>1. z \in Bocor
        BY <3>2, <3>3, <3>6 DEF Bocor
      <4>2. QED BY <1>1, <2>4, <4>1 DEF DataBenar, HanyaBatalMembocorkan
    <3>7. QED BY <3>5, <3>6
  <2>10. Aman(t)
    BY <1>2, <2>2, <2>4, <2>8 DEF Aman, d
  <2>11. Melangkah
    <3>1. dok'[d] = x /\ x.baris = dok[d].baris
      BY <1>2, <2>0, <2>1, <2>3
    <3>2. QED BY <2>3, <2>4, <3>1 DEF Melangkah
  <2>12. QED BY <1>4, <2>4, <2>7, <2>9, <2>10, <2>11, Selesai DEF DataBenar
<1>5. QED BY <1>3, <1>4 DEF Pindahkan

-----------------------------------------------------------------------------
(* Steps.                                                                  *)
\* A handler about to commit has its document as it stands.
LEMMA SiapDok ==
  ASSUME IInv, NEW t \in Sesi, NEW aksi \in AksiDok, Siap(t, aksi)
  PROVE  /\ tugas[t].aksi = aksi /\ pc[t] = "ambil" /\ ToSet(perlu[t]) = {}
         /\ salinan[t] \in KepalaDok /\ SahAksi(tugas[t], salinan[t].jenis)
         /\ StatusBenar(tugas[t], salinan[t]) /\ tugas[t].dok \in Dok
         /\ salinan[t] = dok[tugas[t].dok] /\ salinan[t].status # "TIADA"
         /\ salinan[t].status = "DITOLAK" => salinan[t].jenis = "pemakaian"
<1>1. tugas[t].aksi = aksi /\ pc[t] = "ambil" /\ perlu[t] = <<>>
  BY DEF Siap
<1>2. Kerja(t) /\ Terkunci(t) /\ TipeData /\ Ditolak
  BY DEF IInv, SesiBenar, DataBenar
<1>3. tugas[t].dok \in Dok /\ SahAksi(tugas[t], dok[tugas[t].dok].jenis) /\ dok[tugas[t].dok].status # "TIADA"
  BY <1>1, <1>2 DEF Kerja, SahAksi
<1>4. salinan[t] = dok[tugas[t].dok] /\ StatusBenar(tugas[t], dok[tugas[t].dok])
  BY <1>1, <1>2 DEF Terkunci
<1>5. salinan[t] \in KepalaDok
  BY <1>2, <1>3, <1>4 DEF TipeData
<1>6. QED BY <1>1, <1>2, <1>3, <1>4, <1>5, KosongSemua DEF Ditolak

LEMMA SimpanUbahBenar == ASSUME IInv, NEW t \in Sesi, SimpanUbah(t) PROVE IInv' /\ Melangkah
<1>1. Siap(t, "ubah") /\ Tulis(t, HasilUbah(t, tugas[t], salinan[t])) /\ "ubah" \in AksiDok
  BY DEF SimpanUbah, AksiDok
<1>2. /\ tugas[t].aksi = "ubah" /\ pc[t] = "ambil" /\ salinan[t] \in KepalaDok
      /\ SahAksi(tugas[t], salinan[t].jenis) /\ StatusBenar(tugas[t], salinan[t])
  BY <1>1, SiapDok
<1>3. \A x \in HasilUbah(t, tugas[t], salinan[t]) : Lanjut(salinan[t], x) /\ x.baris = salinan[t].baris
  BY <1>2, UbahLanjut DEF SahAksi, StatusBenar
<1>4. QED BY <1>1, <1>2, <1>3, TulisBenar

LEMMA SimpanGantiBenar == ASSUME IInv, NEW t \in Sesi, SimpanGanti(t) PROVE IInv' /\ Melangkah
<1>1. Siap(t, "ganti") /\ Tulis(t, HasilGanti(t, tugas[t], salinan[t])) /\ "ganti" \in AksiDok
  BY DEF SimpanGanti, AksiDok
<1>2. /\ tugas[t].aksi = "ganti" /\ pc[t] = "ambil" /\ salinan[t] \in KepalaDok
      /\ SahAksi(tugas[t], salinan[t].jenis) /\ StatusBenar(tugas[t], salinan[t])
  BY <1>1, SiapDok
<1>3. \A x \in HasilGanti(t, tugas[t], salinan[t]) : Lanjut(salinan[t], x)
  BY <1>2, GantiLanjut DEF SahAksi, StatusBenar
<1>4. salinan[t].jenis \in Anak => indukPosted
  <2>1. IndukBenar(t) /\ ToSet(perlu[t]) = {} /\ salinan[t] = dok[tugas[t].dok]
    BY <1>1, SiapDok DEF IInv, SesiBenar
  <2>2. QED BY <1>2, <2>1 DEF IndukBenar
<1>5. QED BY <1>1, <1>2, <1>3, <1>4, TulisBenar

LEMMA SimpanAjukanBenar == ASSUME IInv, NEW t \in Sesi, SimpanAjukan(t) PROVE IInv' /\ Melangkah
<1>1. Siap(t, "ajukan") /\ Tulis(t, HasilAjukan(t, tugas[t], salinan[t])) /\ "ajukan" \in AksiDok
  BY DEF SimpanAjukan, AksiDok
<1>2. /\ tugas[t].aksi = "ajukan" /\ pc[t] = "ambil" /\ salinan[t] \in KepalaDok
      /\ SahAksi(tugas[t], salinan[t].jenis) /\ StatusBenar(tugas[t], salinan[t])
  BY <1>1, SiapDok
<1>3. \A x \in HasilAjukan(t, tugas[t], salinan[t]) : Lanjut(salinan[t], x) /\ x.baris = salinan[t].baris
  BY <1>2, AjukanLanjut DEF SahAksi, StatusBenar
<1>4. QED BY <1>1, <1>2, <1>3, TulisBenar

LEMMA SimpanTolakBenar == ASSUME IInv, NEW t \in Sesi, SimpanTolak(t) PROVE IInv' /\ Melangkah
<1>1. Siap(t, "tolak") /\ Tulis(t, HasilTolak(t, tugas[t], salinan[t])) /\ "tolak" \in AksiDok
  BY DEF SimpanTolak, AksiDok
<1>2. /\ tugas[t].aksi = "tolak" /\ pc[t] = "ambil" /\ salinan[t] \in KepalaDok
      /\ SahAksi(tugas[t], salinan[t].jenis) /\ StatusBenar(tugas[t], salinan[t])
  BY <1>1, SiapDok
<1>3. \A x \in HasilTolak(t, tugas[t], salinan[t]) : Lanjut(salinan[t], x) /\ x.baris = salinan[t].baris
  BY <1>2, TolakLanjut DEF SahAksi, StatusBenar
<1>4. QED BY <1>1, <1>2, <1>3, TulisBenar

LEMMA SimpanSetujuiBenar == ASSUME IInv, NEW t \in Sesi, SimpanSetujui(t) PROVE IInv' /\ Melangkah
<1>1. Siap(t, "setujui") /\ Tulis(t, SetujuiPemakaian(t, tugas[t], salinan[t])) /\ "setujui" \in AksiDok
  BY DEF SimpanSetujui, AksiDok
<1>2. /\ tugas[t].aksi = "setujui" /\ pc[t] = "ambil" /\ salinan[t] \in KepalaDok
      /\ SahAksi(tugas[t], salinan[t].jenis) /\ StatusBenar(tugas[t], salinan[t])
  BY <1>1, SiapDok
<1>3. salinan[t].jenis \notin Anak /\ \A x \in SetujuiPemakaian(t, tugas[t], salinan[t]) : Lanjut(salinan[t], x)
  BY <1>2, SetujuiLanjut DEF SahAksi, StatusBenar, Anak
<1>4. QED BY <1>1, <1>2, <1>3, TulisBenar

LEMMA SimpanPostingBenar == ASSUME IInv, NEW t \in Sesi, SimpanPosting(t) PROVE IInv' /\ Melangkah
<1> DEFINE b == salinan[t]
<1>1. Siap(t, "posting") /\ (Pindahkan(t, "POSTED", StokSetelah(b, 1)) \/ Gagal(t)) /\ "posting" \in AksiDok
  BY DEF SimpanPosting, AksiDok
<1>2. /\ tugas[t].aksi = "posting" /\ pc[t] = "ambil" /\ ToSet(perlu[t]) = {} /\ b \in KepalaDok
      /\ SahAksi(tugas[t], b.jenis) /\ StatusBenar(tugas[t], b)
  BY <1>1, SiapDok
<1>3. Lanjut(b, [b EXCEPT !.status = "POSTED"])
  BY <1>2, PostingLanjut DEF SahAksi, StatusBenar
<1>4. TipeData /\ MasukBenar(t)
  BY DEF IInv, DataBenar, SesiBenar
<1>5. /\ StokSetelah(b, 1) \in [Barang \X Ruang -> Int]
      /\ \A y \in Barang \X Ruang : StokSetelah(b, 1)[y] > stok[y] =>
           y[2] \in MasukKe(b) /\ \E i \in Bergerak(b) : b.baris[i].barang = y[1]
  BY <1>2, <1>4, AkhirBenar
<1>6. \A i \in Bergerak(b) : \A r \in MasukKe(b) :
         /\ Dipegang(t, KKatalog(b.baris[i].barang, UnitRuang[r]))
         /\ <<b.baris[i].barang, UnitRuang[r]>> \in katalog
  BY <1>2, <1>4 DEF MasukBenar, KKatalog
<1> HIDE DEF b
<1>7. \A y \in Barang \X Ruang : StokSetelah(b, 1)[y] > stok[y] =>
         /\ Dipegang(t, KKatalog(y[1], UnitRuang[y[2]]))
         /\ <<y[1], UnitRuang[y[2]]>> \in katalog
  BY <1>5, <1>6
<1>8. CASE Gagal(t)
  BY <1>8, GagalBenar, GagalMelangkah
<1>9. CASE Pindahkan(t, "POSTED", StokSetelah(b, 1))
  <2>1. PICK akhir : akhir = StokSetelah(b, 1)
    OBVIOUS
  <2>2. QED BY <1>1, <1>2, <1>3, <1>5, <1>7, <1>9, <2>1, PindahBenar DEF b
<1>10. QED BY <1>1, <1>8, <1>9 DEF b

LEMMA SimpanBatalBenar == ASSUME IInv, NEW t \in Sesi, SimpanBatal(t) PROVE IInv' /\ Melangkah
<1> DEFINE b == salinan[t]
<1> DEFINE akhir == IF b.status = "POSTED" THEN StokSetelah(b, -1) ELSE stok
<1>1. Siap(t, "batal") /\ Pindahkan(t, "BATAL", akhir) /\ "batal" \in AksiDok
  BY DEF SimpanBatal, AksiDok
<1>2. /\ tugas[t].aksi = "batal" /\ pc[t] = "ambil" /\ b \in KepalaDok
      /\ SahAksi(tugas[t], b.jenis) /\ StatusBenar(tugas[t], b)
      /\ b.status = "DITOLAK" => b.jenis = "pemakaian"
  BY <1>1, SiapDok
<1>3. Lanjut(b, [b EXCEPT !.status = "BATAL"])
  BY <1>2, BatalLanjut DEF StatusBenar
<1>4. TipeData
  BY DEF IInv, DataBenar
<1>5. /\ StokSetelah(b, -1) \in [Barang \X Ruang -> Int]
      /\ \A y \in Barang \X Ruang : StokSetelah(b, -1)[y] > stok[y] =>
           y[2] \in KeluarDari(b) /\ \E i \in Bergerak(b) : b.baris[i].barang = y[1]
  <2> HIDE DEF b, akhir
  <2>1. PICK arah : arah = -1
    OBVIOUS
  <2>2. arah \in {1, -1} /\ arah # 1
    BY <2>1
  <2>3. /\ StokSetelah(b, arah) \in [Barang \X Ruang -> Int]
        /\ \A y \in Barang \X Ruang : StokSetelah(b, arah)[y] > stok[y] =>
             /\ y[2] \in IF arah = 1 THEN MasukKe(b) ELSE KeluarDari(b)
             /\ \E i \in Bergerak(b) : b.baris[i].barang = y[1]
    BY <1>2, <1>4, <2>2, AkhirBenar
  <2>4. QED BY <2>1, <2>2, <2>3
<1>6. stok \in [Barang \X Ruang -> Int] /\ \A y \in Barang \X Ruang : ~(stok[y] > stok[y])
  BY <1>4 DEF TipeData
<1>7. akhir \in [Barang \X Ruang -> Int]
  BY <1>5, <1>6
<1>8. Bergerak(b) \subseteq DOMAIN b.baris
  BY DEF Bergerak
<1>9. \A r \in KeluarDari(b) : b.jenis \in {"mutasi", "pemakaian"} /\ r = b.ruang
  BY DEF KeluarDari
<1> HIDE DEF b
<1>10. \A y \in Barang \X Ruang : akhir[y] > stok[y] =>
         /\ b.jenis \in {"mutasi", "pemakaian"} /\ UnitRuang[b.ruang] = UnitRuang[y[2]]
         /\ \E i \in DOMAIN b.baris : b.baris[i].barang = y[1]
  BY <1>5, <1>6, <1>8, <1>9
<1> HIDE DEF akhir
<1>11. QED BY <1>1, <1>2, <1>3, <1>7, <1>10, PindahBenar DEF b

\* A Create takes the next number of a series nobody else may draw from.
LEMMA SiapBuat ==
  ASSUME IInv, NEW t \in Sesi, Siap(t, "buat")
  PROVE  LET g == tugas[t]
             no == NomorBaru(t)
             k == <<g.jenis, no.unit>> IN
         /\ g.aksi = "buat" /\ SahBuat(g) /\ no \in Nomor /\ no.awalan = g.jenis
         /\ k \in Jenis \X Unit /\ no.urut = hitung[k] + 1 /\ MemegangX(t, KSeri(g.jenis, no.unit))
<1> DEFINE g == tugas[t]
<1> DEFINE u == UnitRuang[g.isi.ruang]
<1> DEFINE no == NomorBaru(t)
<1>1. g.aksi = "buat" /\ pc[t] = "ambil" /\ perlu[t] = <<>> /\ ToSet(perlu[t]) = {}
  BY KosongSemua DEF Siap
<1>2. SahBuat(g) /\ SeriBenar(t) /\ TipeData
  BY <1>1 DEF IInv, SesiBenar, Kerja, DataBenar
<1>3. g.isi \in KepalaIsian
  BY <1>2, AsumsiDraf DEF AsumsiDraf, SahBuat
<1>4. u \in Unit
  <2>1. g.isi.ruang \in Ruang
    BY <1>3 DEF KepalaIsian
  <2>2. QED BY <2>1, AsumsiDraf DEF AsumsiDraf
<1>5. MemegangX(t, KSeri(g.jenis, u)) /\ dapat[t].kode \in Kode /\ dapat[t].nomor = hitung[<<g.jenis, u>>] + 1
  BY <1>1, <1>2 DEF SeriBenar, Eks
<1>6. <<g.jenis, u>> \in Jenis \X Unit /\ hitung[<<g.jenis, u>>] \in Nat
  BY <1>2, <1>4 DEF SahBuat, TipeData
<1>7. /\ no.awalan = g.jenis /\ no.kode = dapat[t].kode /\ no.unit = u /\ no.urut = dapat[t].nomor
      /\ no = [awalan |-> g.jenis, kode |-> dapat[t].kode, unit |-> u, urut |-> dapat[t].nomor]
  BY DEF NomorBaru
<1>8. no \in Nomor
  BY <1>2, <1>4, <1>5, <1>6, <1>7 DEF Nomor, SahBuat
<1> HIDE DEF no, u
<1>9. QED BY <1>1, <1>2, <1>5, <1>6, <1>7, <1>8 DEF no

LEMMA SimpanBuatBenar == ASSUME IInv, NEW t \in Sesi, SimpanBuat(t) PROVE IInv' /\ Melangkah
<1> DEFINE g == tugas[t]
<1> DEFINE no == NomorBaru(t)
<1> DEFINE d == g.dok
<1> DEFINE hasil == IF SudahDipakai(no) THEN {} ELSE HasilBuat(t, g, no)
<1>1. Siap(t, "buat")
  BY DEF SimpanBuat
<1>2. /\ g.aksi = "buat" /\ SahBuat(g) /\ no \in Nomor /\ no.awalan = g.jenis
      /\ <<g.jenis, no.unit>> \in Jenis \X Unit /\ no.urut = hitung[<<g.jenis, no.unit>>] + 1
      /\ MemegangX(t, KSeri(g.jenis, no.unit))
  BY <1>1, SiapBuat
<1>3. DataBenar /\ TipeData
  BY DEF IInv, DataBenar
<1>4. CASE hasil = {} /\ Gagal(t)
  BY <1>4, GagalBenar, GagalMelangkah
<1>5. CASE /\ \E b \in hasil : dok' = [dok EXCEPT ![d] = b]
           /\ hitung' = [hitung EXCEPT ![<<g.jenis, no.unit>>] = no.urut]
           /\ UNCHANGED <<kode, katalog, stok, pernah, indukPosted>>
           /\ Bersih(t)
  <2> HIDE DEF no
  <2>1. PICK x \in HasilBuat(t, g, no) : dok' = [dok EXCEPT ![d] = x]
    BY <1>5
  <2>2. ~SudahDipakai(no)
    BY <1>5
  <2>3. /\ kode' = kode /\ katalog' = katalog /\ stok' = stok /\ pernah' = pernah
        /\ indukPosted' = indukPosted /\ mulai' = mulai
    BY <1>5 DEF Bersih
  <2>4. x \in KepalaDok /\ x.jenis = g.jenis /\ x.status = "DRAFT" /\ x.nomor = no
    BY <1>2, <2>1, BuatSah DEF SahBuat
  <2>5. d \in Dok /\ dok[d].status = "TIADA" /\ dok[d].jenis = g.jenis
    BY <1>2 DEF SahBuat
  <2> HIDE DEF d
  <2>6. dok' \in [Dok -> KepalaDok] /\ \A e \in Dok : dok'[e] = IF e = d THEN x ELSE dok[e]
    BY <1>3, <2>1, <2>4, <2>5 DEF TipeData
  <2>7. Bernomor' = Bernomor \cup {d} /\ d \notin Bernomor
    BY <2>4, <2>5, <2>6 DEF Bernomor
  <2>8. /\ hitung' \in [Jenis \X Unit -> Nat]
        /\ \A y \in Jenis \X Unit : hitung'[y] = IF y = <<g.jenis, no.unit>> THEN hitung[y] + 1 ELSE hitung[y]
    BY SMTT(20), <1>2, <1>3, <1>5 DEF TipeData
  <2>9. TipeData'
    BY <1>3, <2>3, <2>6, <2>8 DEF TipeData
  <2>10. NomorBeda'
    <3>1. \A e \in Bernomor : dok'[e] = dok[e] /\ Tercetak(dok[e].nomor) # Tercetak(no)
      BY <2>2, <2>5, <2>6 DEF Bernomor, SudahDipakai
    <3>2. dok'[d].nomor = no
      BY <2>4, <2>5, <2>6
    <3>3. NomorBeda
      BY <1>3 DEF DataBenar
    <3>4. QED BY <2>7, <3>1, <3>2, <3>3 DEF NomorBeda
  <2>11. HitungDiAtas'
    <3>1. SUFFICES ASSUME NEW e \in Bernomor'
                   PROVE  dok'[e].nomor.urut <= hitung'[<<dok'[e].nomor.awalan, dok'[e].nomor.unit>>]
      BY DEF HitungDiAtas
    <3>2. CASE e = d
      <4>1. dok'[e].nomor = no
        BY <2>4, <2>5, <2>6, <3>2
      <4>2. hitung'[<<g.jenis, no.unit>>] = no.urut /\ no.urut \in Nat
        BY <1>2, <2>8 DEF Nomor
      <4>3. QED BY <1>2, <4>1, <4>2
    <3>3. CASE e # d
      <4>1. e \in Bernomor /\ e \in Dok /\ dok'[e] = dok[e]
        BY <2>6, <2>7, <3>3 DEF Bernomor
      <4>2. dok[e].nomor \in Nomor
        BY <1>3, <4>1 DEF TipeData, KepalaDok
      <4> DEFINE k == <<dok[e].nomor.awalan, dok[e].nomor.unit>>
      <4>3. k \in Jenis \X Unit /\ dok[e].nomor.urut \in Nat
        BY <4>2 DEF Nomor
      <4>4. dok[e].nomor.urut <= hitung[k]
        BY <1>3, <4>1 DEF DataBenar, HitungDiAtas
      <4>5. hitung[k] \in Nat /\ hitung[k] <= hitung'[k] /\ hitung'[k] \in Nat
        BY <1>3, <2>8, <4>3 DEF TipeData
      <4> HIDE DEF k
      <4>6. dok[e].nomor.urut <= hitung'[k]
        BY <4>3, <4>4, <4>5
      <4>7. QED BY <4>1, <4>6 DEF k
    <3>4. QED BY <3>2, <3>3
  <2>12. Ditolak' /\ DisetujuiOrangLain'
    BY <1>3, <2>4, <2>6 DEF DataBenar, Ditolak, DisetujuiOrangLain
  <2>13. DibawaBatal \subseteq DibawaBatal'
    BY <1>3, <2>5, <2>6, DibawaNaik
  <2>14. HanyaBatalMembocorkan'
    <3>1. Bocor' = Bocor
      BY <2>3 DEF Bocor
    <3>2. QED BY <1>3, <2>13, <3>1 DEF DataBenar, HanyaBatalMembocorkan
  <2>15. Aman(t)
    <3>1. \A e \in Dok : dok'[e] # dok[e] => e = d
      BY <2>6
    <3>2. \A e \in Dok : dok'[e].jenis = dok[e].jenis /\ (dok[e].status # "TIADA" => dok'[e].status # "TIADA")
      BY <2>4, <2>5, <2>6
    <3>3. \A y \in Jenis \X Unit : hitung'[y] # hitung[y] => MemegangX(t, KSeri(y[1], y[2]))
      BY <1>2, <2>8
    <3>4. QED BY <1>2, <2>3, <2>13, <3>1, <3>2, <3>3 DEF Aman, d
  <2>16. DataBenar'
    BY <2>9, <2>10, <2>11, <2>12, <2>14 DEF DataBenar
  <2>17. dok[d].jenis \in Anak => indukPosted
    <3>1. IndukBenar(t) /\ pc[t] = "ambil" /\ ToSet(perlu[t]) = {}
      BY <1>1, KosongSemua DEF IInv, SesiBenar, Siap
    <3>2. QED BY <1>2, <3>1 DEF IndukBenar, d
  <2>18. Melangkah
    BY <2>5, <2>6, <2>17 DEF Melangkah
  <2>19. QED BY <1>5, <2>15, <2>16, <2>18, Selesai
<1>6. QED BY <1>4, <1>5 DEF SimpanBuat

\* What is taken out of the catalog, the unit has none of.
LEMMA SimpanKatalogBenar == ASSUME IInv, NEW t \in Sesi, SimpanKatalog(t) PROVE IInv' /\ Melangkah
<1> DEFINE b == tugas[t].barang
<1>1. /\ pc[t] = "cabut" /\ Bersih(t) /\ dok' = dok /\ hitung' = hitung /\ kode' = kode /\ stok' = stok
      /\ pernah' = pernah /\ indukPosted' = indukPosted /\ mulai' = mulai
      /\ katalog' = (katalog \ {<<b, u>> : u \in dapat[t].unit}) \cup {<<b, u>> : u \in dapat[t].baru}
  BY DEF SimpanKatalog, Bersih
<1>2. DataBenar /\ TipeData /\ TipeSesi
  BY DEF IInv, DataBenar
<1>3. tugas[t].aksi = "katalog" /\ b \in Barang /\ CabutBenar(t)
  BY <1>1 DEF IInv, SesiBenar, Kerja, SahKatalog
<1>4. dapat[t].unit \subseteq Unit /\ dapat[t].baru \subseteq Unit
  BY <1>2 DEF TipeSesi, TipeDapat
<1>5. /\ \A u \in dapat[t].unit : MemegangX(t, KKatalog(b, u))
      /\ \A u \in dapat[t].unit : \A r \in Ruang :
            UnitRuang[r] = u /\ stok[<<b, r>>] > 0 => <<b, u>> \in DibawaBatal
  BY <1>1, <1>3 DEF CabutBenar
<1> HIDE DEF b
<1>6. TipeData'
  BY <1>1, <1>2, <1>3, <1>4 DEF TipeData
<1>7. DibawaBatal' = DibawaBatal /\ Bernomor' = Bernomor
  BY <1>1 DEF DibawaBatal, Bernomor
<1>8. NomorBeda' /\ HitungDiAtas' /\ Ditolak' /\ DisetujuiOrangLain'
  BY <1>1, <1>2, <1>7 DEF DataBenar, NomorBeda, HitungDiAtas, Ditolak, DisetujuiOrangLain
<1>9. HanyaBatalMembocorkan'
  <2>1. SUFFICES ASSUME NEW z \in Bocor' PROVE z \in DibawaBatal
    BY <1>7 DEF HanyaBatalMembocorkan
  <2>2. z \in Barang \X Unit /\ z \notin katalog'
    BY <2>1 DEF Bocor
  <2>3. PICK r \in Ruang : UnitRuang[r] = z[2] /\ stok[<<z[1], r>>] > 0
    BY <1>1, <2>1 DEF Bocor
  <2>4. CASE z \in katalog
    <3>1. PICK u \in dapat[t].unit : z = <<b, u>>
      BY <1>1, <2>2, <2>4
    <3>2. QED BY <1>5, <2>3, <3>1
  <2>5. CASE z \notin katalog
    <3>1. z \in Bocor
      BY <2>2, <2>3, <2>5 DEF Bocor
    <3>2. QED BY <1>2, <3>1 DEF DataBenar, HanyaBatalMembocorkan
  <2>6. QED BY <2>4, <2>5
<1>10. Aman(t)
  <2>1. \A x \in katalog : x \notin katalog' => MemegangX(t, KKatalog(x[1], x[2]))
    <3>1. SUFFICES ASSUME NEW x \in katalog, x \notin katalog' PROVE MemegangX(t, KKatalog(x[1], x[2]))
      OBVIOUS
    <3>2. PICK u \in dapat[t].unit : x = <<b, u>>
      BY <1>1, <3>1
    <3>3. QED BY <1>5, <3>2
  <2>2. QED BY <1>1, <1>7, <2>1 DEF Aman
<1>11. Melangkah
  BY <1>1 DEF Melangkah
<1>12. QED BY <1>1, <1>6, <1>8, <1>9, <1>10, <1>11, Selesai DEF DataBenar

-----------------------------------------------------------------------------
(* Beginnings, reads and locks.                                            *)
LEMMA MulaiBertambah ==
  ASSUME TipeData, mulai < MaksMulai, mulai' = mulai + 1
  PROVE  mulai' \in 0..MaksMulai
BY AsumsiDraf DEF AsumsiDraf, TipeData

LEMMA DiamJalan ==
  ASSUME IInv, NEW t \in Sesi, pc[t] = "idle"
  PROVE  Jalan(t) /\ tugas[t] = Menganggur /\ dapat[t] = Hampa /\ perlu[t] = <<>> /\ ToSet(perlu[t]) = {}
BY KosongSemua DEF IInv, SesiBenar, Kerja, Terkunci

LEMMA MulaiBuatBenar == ASSUME IInv, NEW t \in Sesi, MulaiBuat(t) PROVE IInv'
<1>1. PICK j \in Jenis : \E g \in TugasBuat(j) :
        /\ dok[g.dok].status = "TIADA" /\ dok[g.dok].jenis = j
        /\ \A u \in Sesi : tugas[u].aksi = "buat" => tugas[u].dok # g.dok
        /\ tugas' = [tugas EXCEPT ![t] = g]
        /\ perlu' = [perlu EXCEPT ![t] = PerluBuat(g)]
  BY DEF MulaiBuat
<1>2. PICK g \in TugasBuat(j) :
        /\ dok[g.dok].status = "TIADA" /\ dok[g.dok].jenis = j
        /\ \A u \in Sesi : tugas[u].aksi = "buat" => tugas[u].dok # g.dok
        /\ tugas' = [tugas EXCEPT ![t] = g]
        /\ perlu' = [perlu EXCEPT ![t] = PerluBuat(g)]
  BY <1>1
<1>3. /\ pc[t] = "idle" /\ mulai < MaksMulai /\ mulai' = mulai + 1 /\ pc' = [pc EXCEPT ![t] = "ambil"]
      /\ UNCHANGED kunciVars /\ UNCHANGED drafVars /\ salinan' = salinan /\ dapat' = dapat
      /\ dok' = dok
  BY DEF MulaiBuat, Ke, drafVars
<1>4. /\ g.aksi = "buat" /\ g.dok \in Dok /\ g.jenis = j /\ g.jenis \in Jenis
      /\ g.isi \in Isian[g.jenis] /\ g.baris \in PilihanBaris
  BY TugasBuatSah
<1> DEFINE p == Eks(KSeri(g.jenis, UnitRuang[g.isi.ruang]))
<1>5. /\ PerluBuat(g) \in Seq(PermintaanDraf) /\ p \in ToSet(PerluBuat(g))
      /\ \A q \in ToSet(PerluBuat(g)) : q.kunci[1] = "document_counter" => q = p
      /\ g.jenis \in Anak => Eks(KInduk) \in ToSet(PerluBuat(g))
  BY <1>4, PerluBuatSah
<1>6. TipeData /\ TipeSesi /\ KunciSah /\ TipeKunci(PermintaanDraf) /\ Berbeda
  BY DEF IInv, DataBenar
<1>7. /\ pc'[t] = "ambil" /\ tugas'[t] = g /\ perlu'[t] = PerluBuat(g)
      /\ \A u \in Sesi : u # t => SesiTetap(u)
  BY <1>2, <1>3, <1>6 DEF TipeSesi, SesiTetap
<1>8. TipeSesi'
  BY <1>2, <1>3, <1>5, <1>6 DEF TipeSesi
<1>9. Jalan(t)'
  BY <1>3, DiamJalan DEF Jalan, kunciVars
<1>10. KunciSah' /\ TipeKunci(PermintaanDraf)' /\ \A u \in Sesi : Lain(u)
  BY <1>3, <1>6, KunciDiam DEF TipeKunci, kunciVars
<1>11. Berbeda'
  <2>1. \A u \in Sesi : u # t => tugas'[u] = tugas[u]
    BY <1>7 DEF SesiTetap
  <2>2. QED BY <1>2, <1>6, <1>7, <2>1 DEF Berbeda
<1>12. SahBuat(tugas[t])'
  BY <1>2, <1>3, <1>4, <1>7 DEF SahBuat
<1> HIDE DEF p
<1>13. SesiBenar(t)'
  <2>1. "buat" \notin AksiDok
    BY DEF AksiDok
  <2>2. Kerja(t)'
    BY <1>4, <1>7, <1>12, <2>1 DEF Kerja
  <2>3. Terkunci(t)'
    BY <1>4, <1>7, <1>9, <2>1 DEF Terkunci
  <2>4. SeriBenar(t)'
    BY <1>4, <1>5, <1>7 DEF SeriBenar, p
  <2>5. IndukBenar(t)'
    BY <1>2, <1>3, <1>4, <1>5, <1>7 DEF IndukBenar
  <2>6. MasukBenar(t)' /\ CabutBenar(t)'
    BY <1>4, <1>7 DEF MasukBenar, CabutBenar
  <2>7. QED BY <2>2, <2>3, <2>4, <2>5, <2>6 DEF SesiBenar
<1>14. mulai' \in 0..MaksMulai
  BY <1>3, <1>6, MulaiBertambah
<1>15. QED BY <1>3, <1>7, <1>8, <1>10, <1>11, <1>13, <1>14, Langkah

LEMMA MulaiDokBenar == ASSUME IInv, NEW t \in Sesi, MulaiDok(t) PROVE IInv'
<1>1. PICK d \in Dok : \E g \in Tugas(dok[d].jenis) :
        /\ g.dok = d /\ dok[d].status # "TIADA" /\ KunciDok(t, d)
        /\ tugas' = [tugas EXCEPT ![t] = g]
  BY DEF MulaiDok
<1>2. PICK g \in Tugas(dok[d].jenis) :
        /\ g.dok = d /\ dok[d].status # "TIADA" /\ KunciDok(t, d)
        /\ tugas' = [tugas EXCEPT ![t] = g]
  BY <1>1
<1>3. /\ pc[t] = "idle" /\ mulai < MaksMulai /\ mulai' = mulai + 1 /\ pc' = [pc EXCEPT ![t] = "baca"]
      /\ UNCHANGED drafVars /\ salinan' = salinan /\ perlu' = perlu /\ dapat' = dapat /\ dok' = dok
  BY DEF MulaiDok, Ke, drafVars
<1>4. TipeData /\ TipeSesi /\ KunciSah /\ TipeKunci(PermintaanDraf) /\ Berbeda
  BY DEF IInv, DataBenar
<1>5. g.aksi \in AksiDok /\ SahAksi(g, dok[d].jenis)
  <2>1. dok[d].jenis \in Jenis
    BY <1>4 DEF TipeData, KepalaDok
  <2>2. QED BY <1>2, <2>1, TugasSah
<1> DEFINE p == Eks(KDok(d))
<1>6. p \in PermintaanDraf /\ Minta(t, p)
  BY <1>2 DEF PermintaanDraf, KunciDok
<1>7. Jalan(t) /\ ToSet(perlu[t]) = {} /\ perlu[t] = <<>> /\ dapat[t] = Hampa
  BY <1>3, DiamJalan
<1> HIDE DEF p
<1>8. KunciSah' /\ (\A u \in Sesi : u # t => Lain(u)) /\ Dipenuhi(t, p)'
  BY <1>4, <1>6, <1>7, MintaSah
<1>9. TipeKunci(PermintaanDraf)'
  BY <1>4, <1>6, MintaMaju
<1>10. /\ pc'[t] = "baca" /\ tugas'[t] = g /\ \A u \in Sesi : u # t => SesiTetap(u)
  BY <1>2, <1>3, <1>4 DEF TipeSesi, SesiTetap
<1>11. TipeSesi'
  BY <1>2, <1>3, <1>4 DEF TipeSesi
<1>12. g.aksi \notin {"buat", "katalog"}
  BY <1>5 DEF AksiDok
<1>13. Berbeda'
  <2>1. \A u \in Sesi : u # t => tugas'[u] = tugas[u]
    BY <1>10 DEF SesiTetap
  <2>2. QED BY <1>4, <1>10, <1>12, <2>1 DEF Berbeda
<1>14. SesiBenar(t)'
  <2>1. Kerja(t)'
    BY <1>2, <1>3, <1>5, <1>7, <1>10, <1>12 DEF Kerja
  <2>2. Terkunci(t)'
    BY <1>2, <1>8, <1>10, <1>12 DEF Terkunci, p, Dipenuhi, Eks, KDok
  <2>3. SeriBenar(t)'
    BY <1>3, <1>7, <1>10, <1>12 DEF SeriBenar
  <2>4. IndukBenar(t)' /\ MasukBenar(t)'
    BY <1>10 DEF IndukBenar, MasukBenar
  <2>5. CabutBenar(t)'
    BY <1>10, <1>12 DEF CabutBenar
  <2>6. QED BY <2>1, <2>2, <2>3, <2>4, <2>5 DEF SesiBenar
<1>15. mulai' \in 0..MaksMulai
  BY <1>3, <1>4, MulaiBertambah
<1>16. QED BY <1>3, <1>8, <1>9, <1>10, <1>11, <1>13, <1>14, <1>15, Langkah

LEMMA BacaDokBenar == ASSUME IInv, NEW t \in Sesi, BacaDok(t) PROVE IInv'
<1> DEFINE g == tugas[t]
<1> DEFINE b == dok[g.dok]
<1>1. pc[t] = "baca" /\ Jalan(t) /\ g.aksi # "katalog"
  BY DEF BacaDok
<1>2. CASE ~StatusDiminta(g, b) /\ Gagal(t)
  BY <1>2, GagalBenar
<1>3. CASE /\ StatusDiminta(g, b)
           /\ salinan' = [salinan EXCEPT ![t] = b]
           /\ perlu' = [perlu EXCEPT ![t] = PerluDok(g, b)]
           /\ Ke(t, "ambil")
           /\ UNCHANGED <<kunciVars, drafVars, mulai, tugas, dapat>>
  <2>1. TipeData /\ TipeSesi /\ KunciSah /\ TipeKunci(PermintaanDraf) /\ Berbeda /\ Kerja(t) /\ Terkunci(t)
    BY DEF IInv, DataBenar, SesiBenar
  <2>2. g.aksi \in AksiDok /\ g.aksi \notin {"buat", "katalog"}
    BY <1>1, <2>1 DEF Kerja, AksiDok
  <2>3. SahAksi(g, b.jenis) /\ b.status # "TIADA" /\ g.dok \in Dok
    BY <2>1, <2>2 DEF Kerja, SahAksi
  <2>4. b \in KepalaDok
    BY <2>1, <2>3 DEF TipeData
  <2>5. MemegangX(t, KDok(g.dok))
    <3>1. Dipenuhi(t, Eks(KDok(g.dok)))
      BY <1>1, <2>1, <2>2 DEF Terkunci
    <3>2. QED BY <1>1, <3>1, Dapat DEF Eks
  <2>6. StatusBenar(g, b)
    BY <1>3, <2>2 DEF StatusDiminta, StatusBenar
  <2>7. /\ pc'[t] = "ambil" /\ tugas' = tugas /\ dapat' = dapat /\ salinan'[t] = b
        /\ perlu'[t] = PerluDok(g, b) /\ dok' = dok /\ mulai' = mulai /\ katalog' = katalog
        /\ UNCHANGED kunciVars /\ UNCHANGED drafVars
        /\ \A u \in Sesi : u # t => SesiTetap(u)
    BY <1>3, <2>1 DEF Ke, TipeSesi, SesiTetap, drafVars
  <2>8. /\ PerluDok(g, b) \in Seq(PermintaanDraf)
        /\ \A q \in ToSet(PerluDok(g, b)) : q.kunci[1] # "document_counter"
        /\ g.aksi = "ganti" /\ b.jenis \in Anak => Eks(KInduk) \in ToSet(PerluDok(g, b))
        /\ g.aksi = "posting" => \A i \in Bergerak(b) : \A r \in MasukKe(b) :
             Bagi(KKatalog(b.baris[i].barang, UnitRuang[r])) \in ToSet(PerluDok(g, b))
    BY <2>2, <2>3, <2>4, PerluDokSah
  <2>9. TipeSesi'
    <3>1. pc' = [pc EXCEPT ![t] = "ambil"] /\ salinan' = [salinan EXCEPT ![t] = b]
          /\ perlu' = [perlu EXCEPT ![t] = PerluDok(g, b)]
      BY <1>3 DEF Ke
    <3> HIDE DEF g, b
    <3>2. QED BY <2>1, <2>7, <2>8, <3>1 DEF TipeSesi
  <2>10. /\ KunciSah' /\ TipeKunci(PermintaanDraf)' /\ (\A u \in Sesi : Lain(u))
         /\ \A k : MemegangX(t, k)' <=> MemegangX(t, k)
    BY <2>1, <2>7, KunciDiam DEF TipeKunci, kunciVars
  <2>11. Berbeda'
    BY <2>1, <2>7 DEF Berbeda
  <2>12. Jalan(t)'
    BY <1>1, <2>7 DEF Jalan, kunciVars
  <2>13. SesiBenar(t)'
    <3>1. tugas'[t] = g /\ dok'[g.dok] = b
      BY <2>7
    <3>2. Kerja(t)'
      BY <2>2, <2>3, <2>7, <3>1 DEF Kerja
    <3>3. Terkunci(t)'
      <4>1. PICK k : k = KDok(g.dok)
        OBVIOUS
      <4>2. MemegangX(t, k)'
        BY <2>5, <2>10, <4>1
      <4>3. KDok(tugas[t].dok)' = k
        BY <3>1, <4>1 DEF KDok
      <4>4. MemegangX(t, KDok(tugas[t].dok))'
        BY <4>2, <4>3 DEF MemegangX
      <4>5. QED BY <2>2, <2>6, <2>7, <2>12, <3>1, <4>4 DEF Terkunci
    <3>4. SeriBenar(t)'
      BY <2>2, <2>7, <2>8, <3>1 DEF SeriBenar
    <3>5. IndukBenar(t)'
      BY <2>2, <2>7, <2>8, <3>1 DEF IndukBenar
    <3>6. MasukBenar(t)'
      BY <2>7, <2>8, <3>1 DEF MasukBenar
    <3>7. CabutBenar(t)'
      BY <2>2, <3>1 DEF CabutBenar
    <3>8. QED BY <3>2, <3>3, <3>4, <3>5, <3>6, <3>7 DEF SesiBenar
  <2>14. mulai' \in 0..MaksMulai
    BY <2>1, <2>7 DEF TipeData
  <2>15. QED BY <2>7, <2>9, <2>10, <2>11, <2>13, <2>14, Langkah
<1>4. QED BY <1>2, <1>3 DEF BacaDok

LEMMA MulaiKatalogBenar == ASSUME IInv, NEW t \in Sesi, MulaiKatalog(t) PROVE IInv'
<1>1. PICK g \in TugasKatalog :
        /\ tugas' = [tugas EXCEPT ![t] = g]
        /\ dapat' = [dapat EXCEPT ![t].baru = {u \in g.unit : <<g.barang, u>> \notin katalog}]
  BY DEF MulaiKatalog
<1>2. /\ pc[t] = "idle" /\ mulai < MaksMulai /\ mulai' = mulai + 1 /\ pc' = [pc EXCEPT ![t] = "baca"]
      /\ UNCHANGED kunciVars /\ UNCHANGED drafVars /\ salinan' = salinan /\ perlu' = perlu
  BY DEF MulaiKatalog, Ke
<1>3. TipeData /\ TipeSesi /\ KunciSah /\ TipeKunci(PermintaanDraf) /\ Berbeda
  BY DEF IInv, DataBenar
<1>4. g.aksi = "katalog" /\ SahKatalog(g) /\ "katalog" \notin AksiDok
  BY TugasKatalogSah DEF AksiDok
<1>5. Jalan(t) /\ ToSet(perlu[t]) = {} /\ perlu[t] = <<>> /\ dapat[t] = Hampa
  BY <1>2, DiamJalan
<1>6. /\ dapat'[t] \in TipeDapat /\ dapat'[t].unit = {}
      /\ dapat' \in [Sesi -> TipeDapat]
  <2> DEFINE baru == {u \in g.unit : <<g.barang, u>> \notin katalog}
  <2>1. baru \subseteq Unit
    BY <1>4 DEF SahKatalog
  <2>2. dapat \in [Sesi -> TipeDapat] /\ dapat' = [dapat EXCEPT ![t] = [dapat[t] EXCEPT !.baru = baru]]
    BY <1>1, <1>3 DEF TipeSesi
  <2> HIDE DEF baru
  <2>3. [dapat[t] EXCEPT !.baru = baru] \in TipeDapat /\ [dapat[t] EXCEPT !.baru = baru].unit = {}
    BY <1>5, <2>1, <2>2 DEF TipeDapat, Hampa
  <2>4. QED BY <2>2, <2>3
<1>7. /\ pc'[t] = "baca" /\ tugas'[t] = g /\ perlu'[t] = <<>> /\ ToSet(perlu'[t]) = {}
      /\ \A u \in Sesi : u # t => SesiTetap(u)
  BY <1>1, <1>2, <1>3, <1>5 DEF TipeSesi, SesiTetap
<1>8. TipeSesi'
  BY <1>1, <1>2, <1>3, <1>6 DEF TipeSesi
<1>9. Jalan(t)'
  BY <1>2, <1>5 DEF Jalan, kunciVars
<1>10. KunciSah' /\ TipeKunci(PermintaanDraf)' /\ \A u \in Sesi : Lain(u)
  BY <1>2, <1>3, KunciDiam DEF TipeKunci, kunciVars
<1>11. Berbeda'
  <2>1. \A u \in Sesi : u # t => tugas'[u] = tugas[u]
    BY <1>7 DEF SesiTetap
  <2>2. QED BY <1>3, <1>4, <1>7, <2>1 DEF Berbeda
<1>12. SesiBenar(t)'
  <2>1. Kerja(t)'
    BY <1>4, <1>7 DEF Kerja, SahKatalog
  <2>2. Terkunci(t)'
    BY <1>4, <1>7, <1>9 DEF Terkunci
  <2>3. SeriBenar(t)'
    BY <1>4, <1>7 DEF SeriBenar
  <2>4. IndukBenar(t)' /\ MasukBenar(t)'
    BY <1>7 DEF IndukBenar, MasukBenar
  <2>5. CabutBenar(t)'
    BY <1>6, <1>7 DEF CabutBenar
  <2>6. QED BY <2>1, <2>2, <2>3, <2>4, <2>5 DEF SesiBenar
<1>13. mulai' \in 0..MaksMulai
  BY <1>2, <1>3, MulaiBertambah
<1>14. QED BY <1>2, <1>7, <1>8, <1>10, <1>11, <1>12, <1>13, Langkah

LEMMA BacaKatalogBenar == ASSUME IInv, NEW t \in Sesi, BacaKatalog(t) PROVE IInv'
<1> DEFINE g == tugas[t]
<1> DEFINE dicabut == {u \in Unit \ g.unit : <<g.barang, u>> \in katalog}
<1> DEFINE S == {Eks(KKatalog(g.barang, u)) : u \in dicabut}
<1>1. /\ pc[t] = "baca" /\ g.aksi = "katalog" /\ perlu' = [perlu EXCEPT ![t] = SetToSeq(S)]
      /\ pc' = [pc EXCEPT ![t] = "ambil"] /\ UNCHANGED kunciVars /\ UNCHANGED drafVars
      /\ mulai' = mulai /\ tugas' = tugas /\ salinan' = salinan /\ dapat' = dapat
  BY DEF BacaKatalog, Ke
<1>2. TipeData /\ TipeSesi /\ KunciSah /\ TipeKunci(PermintaanDraf) /\ Berbeda /\ SesiBenar(t)
  BY DEF IInv, DataBenar
<1>3. SahKatalog(g) /\ Jalan(t) /\ CabutBenar(t) /\ "katalog" \notin AksiDok
  BY <1>1, <1>2 DEF SesiBenar, Kerja, Terkunci, AksiDok
<1>4. IsFiniteSet(S)
  <2>1. IsFiniteSet(Unit)
    BY AsumsiDraf DEF AsumsiDraf
  <2>2. IsFiniteSet(dicabut)
    BY <2>1, FS_Subset
  <2> DEFINE f == [u \in dicabut |-> Eks(KKatalog(g.barang, u))]
  <2>3. S = {f[u] : u \in dicabut}
    OBVIOUS
  <2> HIDE DEF f, S, dicabut
  <2>4. IsFiniteSet({f[u] : u \in dicabut})
    BY <2>2, Citra
  <2>5. QED BY <2>3, <2>4
<1>5. S \subseteq PermintaanDraf
  <2>1. SUFFICES ASSUME NEW q \in S PROVE q \in PermintaanDraf
    OBVIOUS
  <2>2. PICK u \in Unit : q = Eks(KKatalog(g.barang, u))
    OBVIOUS
  <2>3. q = [kunci |-> KKatalog(g.barang, u), mode |-> "X"] /\ g.barang \in Barang /\ "X" \in Mode
    BY <1>3, <2>2 DEF Eks, SahKatalog, Mode
  <2>4. QED BY <2>3 DEF PermintaanDraf
<1>6. \A q \in S : q.mode = "X" /\ q.kunci[1] = "product_unit_kerja" /\ q.kunci[2] = g.barang
  <2>1. \A u : Eks(KKatalog(g.barang, u)).mode = "X" /\ Eks(KKatalog(g.barang, u)).kunci = KKatalog(g.barang, u)
    BY DEF Eks
  <2>2. \A u : KKatalog(g.barang, u)[1] = "product_unit_kerja" /\ KKatalog(g.barang, u)[2] = g.barang
    BY DEF KKatalog
  <2>3. QED BY <2>1, <2>2
<1> HIDE DEF S
<1>7. SetToSeq(S) \in Seq(S) /\ ToSet(SetToSeq(S)) = S
  BY <1>4, SetToSeqBenar
<1>8. SetToSeq(S) \in Seq(PermintaanDraf)
  BY <1>5, <1>7
<1>9. /\ pc'[t] = "ambil" /\ tugas'[t] = g /\ dapat'[t] = dapat[t] /\ ToSet(perlu'[t]) = S
      /\ \A u \in Sesi : u # t => SesiTetap(u)
  BY <1>1, <1>2, <1>7 DEF TipeSesi, SesiTetap
<1>10. TipeSesi'
  <2>1. pc' \in [Sesi -> {"idle", "baca", "ambil", "periksa", "cabut"}]
    BY <1>1, <1>2 DEF TipeSesi
  <2>2. perlu' \in [Sesi -> Seq(PermintaanDraf)]
    BY <1>1, <1>2, <1>8 DEF TipeSesi
  <2>3. QED BY <1>1, <1>2, <2>1, <2>2 DEF TipeSesi
<1>11. /\ KunciSah' /\ TipeKunci(PermintaanDraf)' /\ \A u \in Sesi : Lain(u)
       /\ \A k : MemegangX(t, k)' <=> MemegangX(t, k)
  BY <1>1, <1>2, KunciDiam DEF TipeKunci, kunciVars
<1>12. Berbeda'
  BY <1>1, <1>2 DEF Berbeda
<1>13. Jalan(t)'
  BY <1>1, <1>3 DEF Jalan, kunciVars
<1> HIDE DEF g
<1>14. SesiBenar(t)'
  <2>0. g.aksi = "katalog"
    BY <1>1 DEF g
  <2>1. Kerja(t)'
    BY <1>3, <1>9, <2>0 DEF Kerja, SahKatalog
  <2>2. Terkunci(t)'
    BY <1>3, <1>9, <1>13, <2>0 DEF Terkunci
  <2>3. SeriBenar(t)'
    BY <1>6, <1>9, <2>0 DEF SeriBenar
  <2>4. IndukBenar(t)' /\ MasukBenar(t)'
    BY <1>9, <2>0 DEF IndukBenar, MasukBenar
  <2>5. CabutBenar(t)'
    BY <1>3, <1>6, <1>9, <1>11, <2>0 DEF CabutBenar, g
  <2>6. QED BY <2>1, <2>2, <2>3, <2>4, <2>5 DEF SesiBenar
<1>15. mulai' \in 0..MaksMulai
  BY <1>1, <1>2 DEF TipeData
<1>16. QED BY <1>1, <1>9, <1>10, <1>11, <1>12, <1>14, <1>15, Langkah

\* What a request is for.
LEMMA PermintaanBenar ==
  ASSUME NEW p \in PermintaanDraf
  PROVE  /\ p.mode \in Mode
         /\ p.kunci[1] = "document_counter" =>
              p.kunci[2] \in Jenis /\ p.kunci[3] \in Unit /\ p.mode = "X"
         /\ p.kunci[1] = "product_unit_kerja" =>
              p.kunci[2] \in Barang /\ p.kunci[3] \in Unit /\ p.kunci = KKatalog(p.kunci[2], p.kunci[3])
<1>1. CASE \E d \in Dok : p = Eks(KDok(d))
  <2>1. PICK d \in Dok : p = Eks(KDok(d))
    BY <1>1
  <2>2. p.mode = "X" /\ p.kunci = <<"dokumen", d, 0>>
    BY <2>1 DEF Eks, KDok
  <2>3. p.kunci[1] = "dokumen"
    BY <2>2
  <2>4. QED BY <2>2, <2>3 DEF Mode
<1>2. CASE \E j \in Jenis : \E u \in Unit : p = Eks(KSeri(j, u))
  <2>1. PICK j \in Jenis, u \in Unit : p = Eks(KSeri(j, u))
    BY <1>2
  <2>2. p.mode = "X" /\ p.kunci = <<"document_counter", j, u>>
    BY <2>1 DEF Eks, KSeri
  <2>3. p.kunci[1] = "document_counter" /\ p.kunci[2] = j /\ p.kunci[3] = u
    BY <2>2
  <2>4. QED BY <2>2, <2>3 DEF Mode
<1>3. CASE p = Eks(KInduk)
  <2>1. p.mode = "X" /\ p.kunci[1] = "pembelian induk"
    BY <1>3 DEF Eks, KInduk
  <2>2. QED BY <2>1 DEF Mode
<1>4. CASE \E b \in Barang : \E u \in Unit : \E m \in Mode : p = [kunci |-> KKatalog(b, u), mode |-> m]
  <2>1. PICK b \in Barang, u \in Unit, m \in Mode : p = [kunci |-> KKatalog(b, u), mode |-> m]
    BY <1>4
  <2>2. p.mode = m /\ p.kunci = KKatalog(b, u)
    BY <2>1
  <2>3. p.kunci[1] = "product_unit_kerja" /\ p.kunci[2] = b /\ p.kunci[3] = u
    BY <2>2 DEF KKatalog
  <2>4. QED BY <2>2, <2>3
<1>5. QED BY <1>1, <1>2, <1>3, <1>4 DEF PermintaanDraf

LEMMA AmbilKunciBenar == ASSUME IInv, NEW t \in Sesi, AmbilKunci(t) PROVE IInv'
<1> DEFINE g == tugas[t]
<1> DEFINE p == Head(perlu[t])
<1> DEFINE tiada == \/ p.kunci[1] = "product_unit_kerja" /\ p.mode = "S" /\ <<p.kunci[2], p.kunci[3]>> \notin katalog
                    \/ p.kunci[1] = "document_counter" /\ kode[p.kunci[3]] = TanpaKode
<1>1. pc[t] = "ambil" /\ perlu[t] # <<>>
  BY DEF AmbilKunci
<1>2. CASE tiada /\ Gagal(t)
  BY <1>2, GagalBenar
<1>3. CASE /\ ~tiada /\ KunciPerlu(t, p)
           /\ dapat' = IF p.kunci[1] = "document_counter"
                       THEN [dapat EXCEPT ![t].kode = kode[p.kunci[3]]] ELSE dapat
           /\ Ke(t, "periksa")
           /\ UNCHANGED <<drafVars, mulai, tugas, salinan, perlu>>
  <2>1. TipeData /\ TipeSesi /\ KunciSah /\ TipeKunci(PermintaanDraf) /\ Berbeda /\ SesiBenar(t)
    BY DEF IInv, DataBenar
  <2>2. p \in PermintaanDraf
    BY <1>1, <2>1, KepalaEkor DEF TipeSesi
  <2>3. Jalan(t) /\ Minta(t, p)
    BY <1>1, <1>3, <2>1 DEF KunciPerlu, SesiBenar, Terkunci
  <2>4. /\ pc' = [pc EXCEPT ![t] = "periksa"] /\ UNCHANGED drafVars /\ mulai' = mulai /\ tugas' = tugas
        /\ salinan' = salinan /\ perlu' = perlu /\ dok' = dok /\ hitung' = hitung /\ katalog' = katalog
        /\ indukPosted' = indukPosted
    BY <1>3 DEF Ke, drafVars
  <2>5. p.kunci[1] = "document_counter" => kode[p.kunci[3]] \in Kode
    BY <1>3, <2>1, <2>2, PermintaanBenar DEF TipeData
  <2> HIDE DEF p, tiada
  <2>6. PICK w : w = p
    OBVIOUS
  <2>7. /\ KunciSah' /\ (\A u \in Sesi : u # t => Lain(u)) /\ pegang[t] \subseteq pegang'[t]
        /\ Dipenuhi(t, w)'
    BY <2>1, <2>3, <2>6, MintaSah
  <2>8. TipeKunci(PermintaanDraf)'
    BY <2>1, <2>2, <2>3, MintaMaju
  <2>9. (\A k : MemegangX(t, k) => MemegangX(t, k)') /\ (\A k : Dipegang(t, k) => Dipegang(t, k)')
    BY <2>7 DEF MemegangX, Dipegang
  <2>10. /\ dapat' \in [Sesi -> TipeDapat] /\ dapat'[t].unit = dapat[t].unit
         /\ dapat'[t].nomor = dapat[t].nomor /\ dapat'[t].kode \in {dapat[t].kode} \cup Kode
         /\ p.kunci[1] = "document_counter" => dapat'[t].kode \in Kode
         /\ \A u \in Sesi : u # t => dapat'[u] = dapat[u]
    <3>1. dapat \in [Sesi -> TipeDapat]
      BY <2>1 DEF TipeSesi
    <3>2. CASE p.kunci[1] = "document_counter"
      <4>1. dapat' = [dapat EXCEPT ![t] = [dapat[t] EXCEPT !.kode = kode[p.kunci[3]]]]
        BY <1>3, <3>1, <3>2
      <4>2. [dapat[t] EXCEPT !.kode = kode[p.kunci[3]]] \in TipeDapat
        BY <2>5, <3>1, <3>2 DEF TipeDapat
      <4>3. /\ [dapat[t] EXCEPT !.kode = kode[p.kunci[3]]].unit = dapat[t].unit
            /\ [dapat[t] EXCEPT !.kode = kode[p.kunci[3]]].nomor = dapat[t].nomor
            /\ [dapat[t] EXCEPT !.kode = kode[p.kunci[3]]].kode = kode[p.kunci[3]]
        BY <3>1 DEF TipeDapat
      <4>4. QED BY <2>5, <3>1, <3>2, <4>1, <4>2, <4>3
    <3>3. CASE p.kunci[1] # "document_counter"
      BY <1>3, <3>1, <3>3
    <3>4. QED BY <3>2, <3>3
  <2>11. TipeSesi'
    BY <2>1, <2>4, <2>10 DEF TipeSesi
  <2>12. pc'[t] = "periksa" /\ \A u \in Sesi : u # t => SesiTetap(u)
    BY <2>1, <2>4, <2>10 DEF TipeSesi, SesiTetap
  <2>13. Berbeda'
    BY <2>1, <2>4 DEF Berbeda
  <2>14. SesiBenar(t)'
    <3>1. tugas'[t] = g
      BY <2>4
    <3>2. Kerja(t) /\ Terkunci(t) /\ SeriBenar(t) /\ IndukBenar(t) /\ MasukBenar(t) /\ CabutBenar(t)
      BY <2>1 DEF SesiBenar
    <3>3. Kerja(t)'
      <4>1. g.aksi = "buat" => SahBuat(tugas[t])'
        BY <2>4, <3>2 DEF Kerja, SahBuat
      <4>2. QED BY <1>1, <2>4, <2>12, <3>1, <3>2, <4>1 DEF Kerja
    <3>4. Terkunci(t)'
      <4>1. Head(perlu'[t]) = w /\ perlu'[t] # <<>>
        BY <1>1, <2>4, <2>6 DEF p
      <4>2. Dipenuhi(t, Head(perlu[t]))'
        BY <2>7, <4>1 DEF Dipenuhi
      <4>3. g.aksi \in AksiDok =>
              MemegangX(t, KDok(g.dok)) /\ salinan[t] = dok[g.dok] /\ StatusBenar(g, dok[g.dok])
        BY <1>1, <3>2 DEF Terkunci
      <4>4. PICK k : k = KDok(g.dok)
        OBVIOUS
      <4>5. KDok(tugas[t].dok)' = k
        BY <3>1, <4>4 DEF KDok
      <4>6. g.aksi \in AksiDok => MemegangX(t, KDok(tugas[t].dok))'
        BY <2>9, <4>3, <4>4, <4>5 DEF MemegangX
      <4>7. QED BY <2>4, <2>6, <2>10, <2>12, <3>1, <4>1, <4>2, <4>3, <4>6 DEF Terkunci
    <3>5. SeriBenar(t)'
      <4> DEFINE r == Eks(KSeri(g.jenis, UnitRuang[g.isi.ruang]))
      <4>1. /\ \A q \in ToSet(perlu[t]) : q.kunci[1] = "document_counter" => g.aksi = "buat" /\ q = r
            /\ g.aksi = "buat" =>
                 \/ r \in ToSet(perlu[t])
                 \/ /\ MemegangX(t, r.kunci) /\ dapat[t].kode \in Kode
                    /\ dapat[t].nomor = hitung[<<g.jenis, UnitRuang[g.isi.ruang]>>] + 1
        BY <3>2 DEF SeriBenar
      <4> HIDE DEF r
      <4>2. PICK s : s = r
        OBVIOUS
      <4>3. MemegangX(t, s.kunci) => MemegangX(t, s.kunci)'
        BY <2>9
      <4>4. s = Eks(KSeri(tugas[t].jenis, UnitRuang[tugas[t].isi.ruang]))'
        BY <3>1, <4>2 DEF r
      <4>5. QED BY <2>4, <2>10, <3>1, <4>1, <4>2, <4>3, <4>4 DEF SeriBenar, MemegangX
    <3>6. IndukBenar(t)'
      BY <1>1, <2>4, <2>9, <2>12, <3>1, <3>2 DEF IndukBenar
    <3>7. MasukBenar(t)'
      BY <1>1, <2>4, <2>9, <2>12, <3>1, <3>2 DEF MasukBenar
    <3>8. CabutBenar(t)'
      BY <1>1, <2>4, <2>9, <2>10, <2>12, <3>1, <3>2 DEF CabutBenar
    <3>9. QED BY <3>3, <3>4, <3>5, <3>6, <3>7, <3>8 DEF SesiBenar
  <2>15. mulai' \in 0..MaksMulai
    BY <2>1, <2>4 DEF TipeData
  <2>16. QED BY <2>4, <2>7, <2>8, <2>11, <2>12, <2>13, <2>14, <2>15, Langkah
<1>4. QED BY <1>2, <1>3 DEF AmbilKunci

\* What came with the lock: the next number, or the memberships taken out.
LEMMA PeriksaDapat ==
  ASSUME IInv, NEW t \in Sesi, NEW p \in PermintaanDraf,
         dapat' = CASE p.kunci[1] = "document_counter" ->
                         [dapat EXCEPT ![t].nomor = hitung[<<p.kunci[2], p.kunci[3]>>] + 1]
                    [] p.kunci[1] = "product_unit_kerja" /\ p.mode = "X" /\ <<p.kunci[2], p.kunci[3]>> \in katalog ->
                         [dapat EXCEPT ![t].unit = @ \cup {p.kunci[3]}]
                    [] OTHER -> dapat
  PROVE  /\ dapat' \in [Sesi -> TipeDapat] /\ dapat'[t].kode = dapat[t].kode
         /\ IF p.kunci[1] = "document_counter"
            THEN dapat'[t].nomor = hitung[<<p.kunci[2], p.kunci[3]>>] + 1 /\ dapat'[t].unit = dapat[t].unit
            ELSE dapat'[t].nomor = dapat[t].nomor
         /\ \A u \in dapat'[t].unit :
              u \in dapat[t].unit \/ (p.kunci[1] = "product_unit_kerja" /\ p.mode = "X" /\ u = p.kunci[3])
         /\ \A u \in Sesi : u # t => dapat'[u] = dapat[u]
<1>1. dapat \in [Sesi -> TipeDapat] /\ hitung \in [Jenis \X Unit -> Nat]
  BY DEF IInv, TipeSesi, DataBenar, TipeData
<1>2. dapat[t] \in [kode : Kode \cup {TanpaKode}, nomor : Nat, baru : SUBSET Unit, unit : SUBSET Unit]
  BY <1>1 DEF TipeDapat
<1>3. CASE p.kunci[1] = "document_counter"
  <2> DEFINE n == hitung[<<p.kunci[2], p.kunci[3]>>] + 1
  <2>1. n \in Nat
    BY <1>1, <1>3, PermintaanBenar
  <2>2. dapat' = [dapat EXCEPT ![t] = [dapat[t] EXCEPT !.nomor = n]]
    BY <1>1, <1>3
  <2> HIDE DEF n
  <2>3. /\ [dapat[t] EXCEPT !.nomor = n] \in TipeDapat
        /\ [dapat[t] EXCEPT !.nomor = n].kode = dapat[t].kode
        /\ [dapat[t] EXCEPT !.nomor = n].unit = dapat[t].unit
        /\ [dapat[t] EXCEPT !.nomor = n].nomor = n
    BY <1>2, <2>1 DEF TipeDapat
  <2>4. QED BY <1>1, <1>3, <2>2, <2>3 DEF n
<1>4. CASE p.kunci[1] # "document_counter"
  <2>1. CASE p.kunci[1] = "product_unit_kerja" /\ p.mode = "X" /\ <<p.kunci[2], p.kunci[3]>> \in katalog
    <3> DEFINE U == dapat[t].unit \cup {p.kunci[3]}
    <3>1. U \subseteq Unit
      BY <1>2, <2>1, PermintaanBenar
    <3>2. dapat' = [dapat EXCEPT ![t] = [dapat[t] EXCEPT !.unit = U]]
      BY <1>1, <1>4, <2>1
    <3> HIDE DEF U
    <3>3. /\ [dapat[t] EXCEPT !.unit = U] \in TipeDapat
          /\ [dapat[t] EXCEPT !.unit = U].kode = dapat[t].kode
          /\ [dapat[t] EXCEPT !.unit = U].unit = U
          /\ [dapat[t] EXCEPT !.unit = U].nomor = dapat[t].nomor
      BY <1>2, <3>1 DEF TipeDapat
    <3>4. dapat' \in [Sesi -> TipeDapat] /\ dapat'[t] = [dapat[t] EXCEPT !.unit = U]
          /\ \A u \in Sesi : u # t => dapat'[u] = dapat[u]
      BY <1>1, <3>2, <3>3
    <3>5. QED BY <1>4, <2>1, <3>3, <3>4 DEF U
  <2>2. CASE ~(p.kunci[1] = "product_unit_kerja" /\ p.mode = "X" /\ <<p.kunci[2], p.kunci[3]>> \in katalog)
    <3>1. dapat' = dapat
      BY <1>4, <2>2
    <3>2. QED BY <1>1, <1>4, <3>1
  <2>3. QED BY <2>1, <2>2
<1>5. QED BY <1>3, <1>4

LEMMA PeriksaBenar == ASSUME IInv, NEW t \in Sesi, Periksa(t) PROVE IInv'
<1> DEFINE g == tugas[t]
<1> DEFINE p == Head(perlu[t])
<1>1. pc[t] = "periksa" /\ Jalan(t)
  BY DEF Periksa
<1>2. CASE ~Ada(p) /\ Gagal(t)
  BY <1>2, GagalBenar
<1>3. CASE /\ Ada(p)
           /\ dapat' = CASE p.kunci[1] = "document_counter" ->
                              [dapat EXCEPT ![t].nomor = hitung[<<p.kunci[2], p.kunci[3]>>] + 1]
                         [] p.kunci[1] = "product_unit_kerja" /\ p.mode = "X"
                              /\ <<p.kunci[2], p.kunci[3]>> \in katalog ->
                              [dapat EXCEPT ![t].unit = @ \cup {p.kunci[3]}]
                         [] OTHER -> dapat
           /\ perlu' = [perlu EXCEPT ![t] = Tail(@)]
           /\ Ke(t, "ambil")
           /\ UNCHANGED <<kunciVars, drafVars, mulai, tugas, salinan>>
  <2>1. TipeData /\ TipeSesi /\ KunciSah /\ TipeKunci(PermintaanDraf) /\ Berbeda /\ SesiBenar(t)
    BY DEF IInv, DataBenar
  <2>2. Kerja(t) /\ Terkunci(t) /\ SeriBenar(t) /\ IndukBenar(t) /\ MasukBenar(t) /\ CabutBenar(t)
    BY <2>1 DEF SesiBenar
  <2>3. perlu[t] \in Seq(PermintaanDraf) /\ perlu[t] # <<>> /\ Dipenuhi(t, p)
    BY <1>1, <2>1, <2>2 DEF Terkunci, TipeSesi
  <2>4. /\ p \in PermintaanDraf /\ Tail(perlu[t]) \in Seq(PermintaanDraf)
        /\ p \in ToSet(perlu[t]) /\ ToSet(Tail(perlu[t])) \subseteq ToSet(perlu[t])
        /\ \A q \in ToSet(perlu[t]) : q = p \/ q \in ToSet(Tail(perlu[t]))
    BY <2>3, KepalaEkor
  <2>5. Dipegang(t, p.kunci) /\ (p.mode = "X" => MemegangX(t, p.kunci))
    BY <1>1, <2>3 DEF Dipenuhi, Dipegang, MemegangX, Jalan
  <2>6. /\ dapat' \in [Sesi -> TipeDapat] /\ dapat'[t].kode = dapat[t].kode
        /\ IF p.kunci[1] = "document_counter"
           THEN dapat'[t].nomor = hitung[<<p.kunci[2], p.kunci[3]>>] + 1 /\ dapat'[t].unit = dapat[t].unit
           ELSE dapat'[t].nomor = dapat[t].nomor
        /\ \A u \in dapat'[t].unit :
             u \in dapat[t].unit \/ (p.kunci[1] = "product_unit_kerja" /\ p.mode = "X" /\ u = p.kunci[3])
        /\ \A u \in Sesi : u # t => dapat'[u] = dapat[u]
    <3> HIDE DEF p
    <3>1. QED BY <1>3, <2>4, PeriksaDapat
  <2>7. /\ pc' = [pc EXCEPT ![t] = "ambil"] /\ UNCHANGED drafVars /\ mulai' = mulai /\ tugas' = tugas
        /\ salinan' = salinan /\ dok' = dok /\ hitung' = hitung /\ katalog' = katalog
        /\ indukPosted' = indukPosted /\ UNCHANGED kunciVars
        /\ perlu' = [perlu EXCEPT ![t] = Tail(perlu[t])]
    BY <1>3, <2>1 DEF Ke, drafVars, TipeSesi
  <2>8. /\ KunciSah' /\ TipeKunci(PermintaanDraf)' /\ (\A u \in Sesi : Lain(u)) /\ Jalan(t)'
        /\ (\A k : MemegangX(t, k)' <=> MemegangX(t, k))
        /\ (\A k : Dipegang(t, k) => Dipegang(t, k)')
    BY <1>1, <2>1, <2>7, KunciDiam DEF TipeKunci, kunciVars, Dipegang, Jalan
  <2>9. TipeSesi'
    BY <2>1, <2>4, <2>6, <2>7 DEF TipeSesi
  <2>10. /\ pc'[t] = "ambil" /\ perlu'[t] = Tail(perlu[t]) /\ tugas'[t] = g /\ salinan'[t] = salinan[t]
         /\ \A u \in Sesi : u # t => SesiTetap(u)
    BY <2>1, <2>6, <2>7 DEF TipeSesi, SesiTetap
  <2>11. Berbeda'
    BY <2>1, <2>7 DEF Berbeda
  <2> HIDE DEF p
  <2>12. Kerja(t)'
    <3>1. g.aksi = "buat" => SahBuat(tugas[t])'
      BY <2>2, <2>7 DEF Kerja, SahBuat
    <3>2. QED BY <1>1, <2>2, <2>7, <2>10, <3>1 DEF Kerja
  <2>13. Terkunci(t)'
    <3>1. g.aksi \in AksiDok =>
            MemegangX(t, KDok(g.dok)) /\ salinan[t] = dok[g.dok] /\ StatusBenar(g, dok[g.dok])
      BY <1>1, <2>2 DEF Terkunci
    <3>2. PICK k : k = KDok(g.dok)
      OBVIOUS
    <3>3. KDok(tugas[t].dok)' = k
      BY <2>10, <3>2 DEF KDok
    <3>4. g.aksi \in AksiDok => MemegangX(t, KDok(tugas[t].dok))'
      BY <2>8, <3>1, <3>2, <3>3 DEF MemegangX
    <3>5. QED BY <2>7, <2>8, <2>10, <3>1, <3>4 DEF Terkunci
  <2>14. SeriBenar(t)'
    <3> DEFINE u == UnitRuang[g.isi.ruang]
    <3> DEFINE r == Eks(KSeri(g.jenis, u))
    <3>1. /\ \A q \in ToSet(perlu[t]) : q.kunci[1] = "document_counter" => g.aksi = "buat" /\ q = r
          /\ g.aksi = "buat" =>
               \/ r \in ToSet(perlu[t])
               \/ MemegangX(t, r.kunci) /\ dapat[t].kode \in Kode /\ dapat[t].nomor = hitung[<<g.jenis, u>>] + 1
      BY <2>2 DEF SeriBenar
    <3>2. /\ r.kunci[1] = "document_counter" /\ r.kunci[2] = g.jenis /\ r.kunci[3] = u /\ r.mode = "X"
      BY DEF Eks, KSeri
    <3>3. p.kunci[1] = "document_counter" => dapat[t].kode \in Kode
      BY <1>1, <2>2 DEF Terkunci, p
    <3> HIDE DEF r, u
    <3>4. p = r => /\ MemegangX(t, r.kunci) /\ dapat'[t].kode \in Kode
                   /\ dapat'[t].nomor = hitung[<<g.jenis, u>>] + 1
      BY <2>5, <2>6, <3>2, <3>3
    <3>5. g.aksi = "buat" =>
            \/ r \in ToSet(Tail(perlu[t]))
            \/ MemegangX(t, r.kunci) /\ dapat'[t].kode \in Kode /\ dapat'[t].nomor = hitung[<<g.jenis, u>>] + 1
      <4>1. CASE p = r
        BY <3>4, <4>1
      <4>2. CASE p # r
        <5>1. p.kunci[1] # "document_counter"
          BY <2>4, <3>1, <4>2
        <5>2. dapat'[t].nomor = dapat[t].nomor /\ dapat'[t].kode = dapat[t].kode
          BY <2>6, <5>1
        <5>3. QED BY <2>4, <3>1, <4>2, <5>2
      <4>3. QED BY <4>1, <4>2
    <3>6. PICK s : s = r
      OBVIOUS
    <3>7. MemegangX(t, s.kunci) => MemegangX(t, s.kunci)'
      BY <2>8
    <3>8. s = Eks(KSeri(tugas[t].jenis, UnitRuang[tugas[t].isi.ruang]))'
      BY <2>10, <3>6 DEF r, u
    <3>9. u = UnitRuang[tugas'[t].isi.ruang]
      BY <2>10 DEF u
    <3>10. QED BY <2>4, <2>7, <2>10, <3>1, <3>5, <3>6, <3>7, <3>8, <3>9 DEF SeriBenar, MemegangX
  <2>15. IndukBenar(t)'
    <3>1. p = Eks(KInduk) => MemegangX(t, KInduk) /\ indukPosted
      <4>1. Eks(KInduk).mode = "X" /\ Eks(KInduk).kunci = KInduk /\ KInduk[1] = "pembelian induk"
        BY DEF Eks, KInduk
      <4>2. QED BY <1>3, <2>5, <4>1 DEF Ada
    <3>2. QED BY <1>1, <2>2, <2>4, <2>7, <2>8, <2>10, <3>1 DEF IndukBenar
  <2>16. MasukBenar(t)'
    <3>1. \A x, v : p = Bagi(KKatalog(x, v)) => Dipegang(t, KKatalog(x, v)) /\ <<x, v>> \in katalog
      <4>1. SUFFICES ASSUME NEW x, NEW v, p = Bagi(KKatalog(x, v))
                     PROVE  Dipegang(t, KKatalog(x, v)) /\ <<x, v>> \in katalog
        OBVIOUS
      <4>2. p.mode = "S" /\ p.kunci = KKatalog(x, v)
        BY <4>1 DEF Bagi
      <4>3. p.kunci[1] = "product_unit_kerja" /\ p.kunci[2] = x /\ p.kunci[3] = v
        BY <4>2 DEF KKatalog
      <4>4. QED BY <1>3, <2>5, <4>2, <4>3 DEF Ada
    <3>2. \A x, v : KKatalog(x, v)[2] = x /\ KKatalog(x, v)[3] = v
      BY DEF KKatalog
    <3> DEFINE b == salinan[t]
    <3>3. g.aksi = "posting" => \A i \in Bergerak(b) : \A r \in MasukKe(b) :
            \/ Bagi(KKatalog(b.baris[i].barang, UnitRuang[r])) \in ToSet(Tail(perlu[t]))
            \/ /\ Dipegang(t, KKatalog(b.baris[i].barang, UnitRuang[r]))
               /\ <<b.baris[i].barang, UnitRuang[r]>> \in katalog
      BY <1>1, <2>2, <2>4, <3>1, <3>2 DEF MasukBenar
    <3>4. QED BY <2>7, <2>8, <2>10, <3>2, <3>3 DEF MasukBenar
  <2>17. CabutBenar(t)'
    <3>1. SUFFICES ASSUME g.aksi = "katalog"
                   PROVE  /\ \A q \in ToSet(perlu'[t]) : /\ q.mode = "X" /\ q.kunci[1] = "product_unit_kerja"
                                                         /\ q.kunci[2] = g.barang
                          /\ \A u \in dapat'[t].unit : MemegangX(t, KKatalog(g.barang, u))'
      BY <2>10 DEF CabutBenar, MemegangX, KKatalog
    <3>2. /\ \A q \in ToSet(perlu[t]) : /\ q.mode = "X" /\ q.kunci[1] = "product_unit_kerja"
                                        /\ q.kunci[2] = g.barang
          /\ \A u \in dapat[t].unit : MemegangX(t, KKatalog(g.barang, u))
      BY <2>2, <3>1 DEF CabutBenar
    <3>3. p.kunci = KKatalog(g.barang, p.kunci[3]) /\ p.mode = "X"
      BY <2>4, <3>2, PermintaanBenar
    <3>4. \A u \in dapat'[t].unit : MemegangX(t, KKatalog(g.barang, u))
      BY <2>5, <2>6, <3>2, <3>3
    <3>5. ASSUME NEW u \in dapat'[t].unit PROVE MemegangX(t, KKatalog(g.barang, u))'
      <4>1. PICK k : k = KKatalog(g.barang, u)
        OBVIOUS
      <4>2. MemegangX(t, k)'
        BY <2>8, <3>4, <4>1
      <4>3. KKatalog(g.barang, u)' = k
        BY <2>10, <4>1 DEF KKatalog
      <4>4. QED BY <4>2, <4>3 DEF MemegangX
    <3>6. QED BY <2>4, <2>10, <3>2, <3>5
  <2>18. SesiBenar(t)'
    BY <2>12, <2>13, <2>14, <2>15, <2>16, <2>17 DEF SesiBenar
  <2>19. mulai' \in 0..MaksMulai
    BY <2>1, <2>7 DEF TipeData
  <2>20. QED BY <2>7, <2>8, <2>9, <2>10, <2>11, <2>18, <2>19, Langkah
<1>4. QED BY <1>2, <1>3 DEF Periksa

LEMMA PeriksaStokBenar == ASSUME IInv, NEW t \in Sesi, PeriksaStok(t) PROVE IInv'
<1> DEFINE berisi == \E u \in dapat[t].unit, r \in Ruang : UnitRuang[r] = u /\ stok[<<tugas[t].barang, r>>] > 0
<1>1. pc[t] = "ambil" /\ perlu[t] = <<>> /\ tugas[t].aksi = "katalog"
  BY DEF PeriksaStok, Siap
<1>2. CASE berisi /\ Gagal(t)
  BY <1>2, GagalBenar
<1>3. CASE /\ ~berisi /\ Ke(t, "cabut")
           /\ UNCHANGED <<kunciVars, drafVars, mulai, tugas, salinan, perlu, dapat>>
  <2>1. TipeData /\ TipeSesi /\ KunciSah /\ TipeKunci(PermintaanDraf) /\ Berbeda /\ SesiBenar(t)
    BY DEF IInv, DataBenar
  <2>2. Kerja(t) /\ Terkunci(t) /\ SeriBenar(t) /\ CabutBenar(t) /\ "katalog" \notin AksiDok
    BY <2>1 DEF SesiBenar, AksiDok
  <2>3. /\ pc' = [pc EXCEPT ![t] = "cabut"] /\ UNCHANGED drafVars /\ mulai' = mulai /\ tugas' = tugas
        /\ salinan' = salinan /\ perlu' = perlu /\ dapat' = dapat /\ stok' = stok
        /\ UNCHANGED kunciVars
    BY <1>3 DEF Ke, drafVars
  <2>4. /\ KunciSah' /\ TipeKunci(PermintaanDraf)' /\ (\A u \in Sesi : Lain(u))
        /\ (\A k : MemegangX(t, k)' <=> MemegangX(t, k))
    BY <2>1, <2>3, KunciDiam DEF TipeKunci, kunciVars
  <2>5. TipeSesi'
    BY <2>1, <2>3 DEF TipeSesi
  <2>6. pc'[t] = "cabut" /\ \A u \in Sesi : u # t => SesiTetap(u)
    BY <2>1, <2>3 DEF TipeSesi, SesiTetap
  <2>7. Berbeda'
    BY <2>1, <2>3 DEF Berbeda
  <2>8. Kerja(t)'
    BY <1>1, <2>2, <2>3, <2>6 DEF Kerja
  <2>9. Terkunci(t)'
    BY <1>1, <2>2, <2>3, <2>6 DEF Terkunci, Jalan, kunciVars
  <2>10. SeriBenar(t)'
    BY <1>1, <2>2, <2>3 DEF SeriBenar
  <2>11. IndukBenar(t)' /\ MasukBenar(t)'
    BY <2>6 DEF IndukBenar, MasukBenar
  <2>12. CabutBenar(t)'
    <3>1. \A u \in dapat[t].unit : MemegangX(t, KKatalog(tugas[t].barang, u))
      BY <1>1, <2>2 DEF CabutBenar
    <3>2. ASSUME NEW u \in dapat'[t].unit PROVE MemegangX(t, KKatalog(tugas[t].barang, u))'
      <4>1. PICK k : k = KKatalog(tugas[t].barang, u)
        OBVIOUS
      <4>2. MemegangX(t, k)'
        BY <2>3, <2>4, <3>1, <3>2, <4>1
      <4>3. KKatalog(tugas[t].barang, u)' = k
        BY <2>3, <4>1 DEF KKatalog
      <4>4. QED BY <4>2, <4>3 DEF MemegangX
    <3>3. \A u \in dapat'[t].unit : \A r \in Ruang :
            ~(UnitRuang[r] = u /\ stok'[<<tugas'[t].barang, r>>] > 0)
      BY <1>3, <2>3
    <3>4. \A q \in ToSet(perlu'[t]) : /\ q.mode = "X" /\ q.kunci[1] = "product_unit_kerja"
                                      /\ q.kunci[2] = tugas'[t].barang
      BY <1>1, <2>2, <2>3 DEF CabutBenar
    <3>5. QED BY <3>2, <3>3, <3>4 DEF CabutBenar
  <2>13. SesiBenar(t)'
    BY <2>8, <2>9, <2>10, <2>11, <2>12 DEF SesiBenar
  <2>14. mulai' \in 0..MaksMulai
    BY <2>1, <2>3 DEF TipeData
  <2>15. QED BY <2>3, <2>4, <2>5, <2>6, <2>7, <2>13, <2>14, Langkah
<1>4. QED BY <1>2, <1>3 DEF PeriksaStok

\* What happens beside the sessions: a unit's kode, or the purchase.
LEMMA LatarBenar ==
  ASSUME IInv, UNCHANGED <<kunciVars, dok, hitung, katalog, stok, pernah, pc, sesiDraf>>,
         mulai' \in 0..MaksMulai, kode' \in [Unit -> Kode \cup {TanpaKode}], indukPosted' \in BOOLEAN,
         (\E t \in Sesi : MemegangX(t, KInduk)) => indukPosted' = indukPosted
  PROVE  IInv'
<1>1. /\ pegang' = pegang /\ tunggu' = tunggu /\ depan' = depan /\ dok' = dok /\ hitung' = hitung
      /\ katalog' = katalog /\ stok' = stok /\ pernah' = pernah /\ pc' = pc /\ tugas' = tugas
      /\ salinan' = salinan /\ perlu' = perlu /\ dapat' = dapat /\ UNCHANGED kunciVars
  BY DEF kunciVars, sesiDraf
<1>2. DataBenar /\ TipeSesi /\ KunciSah /\ TipeKunci(PermintaanDraf) /\ Berbeda
  BY DEF IInv
<1>3. KunciSah' /\ TipeKunci(PermintaanDraf)'
  BY <1>1, <1>2, KunciDiam DEF TipeKunci
<1>4. TipeSesi' /\ Berbeda'
  BY <1>1, <1>2 DEF TipeSesi, Berbeda
<1>5. DibawaBatal' = DibawaBatal /\ Bocor' = Bocor /\ Bernomor' = Bernomor
  BY <1>1 DEF DibawaBatal, Bocor, Bernomor
<1>6. TipeData'
  BY <1>1, <1>2 DEF DataBenar, TipeData
<1>7. NomorBeda' /\ HitungDiAtas' /\ Ditolak' /\ DisetujuiOrangLain' /\ HanyaBatalMembocorkan'
  BY <1>1, <1>2, <1>5 DEF DataBenar, NomorBeda, HitungDiAtas, Ditolak, DisetujuiOrangLain, HanyaBatalMembocorkan
<1>8. ASSUME NEW t \in Sesi PROVE SesiBenar(t)'
  <2>1. Kerja(t) /\ Terkunci(t) /\ SeriBenar(t) /\ IndukBenar(t) /\ MasukBenar(t) /\ CabutBenar(t)
    BY DEF IInv, SesiBenar
  <2>2. Kerja(t)'
    BY <1>1, <2>1 DEF Kerja, SahBuat
  <2>3. Terkunci(t)'
    BY <1>1, <2>1 DEF Terkunci, Jalan, Dipenuhi, MemegangX, KDok
  <2>4. SeriBenar(t)'
    BY <1>1, <2>1 DEF SeriBenar, MemegangX
  <2>5. IndukBenar(t)'
    <3>1. MemegangX(t, KInduk)' <=> MemegangX(t, KInduk)
      BY <1>1 DEF MemegangX
    <3>2. QED BY <1>1, <2>1, <3>1 DEF IndukBenar
  <2>6. MasukBenar(t)'
    BY <1>1, <2>1 DEF MasukBenar, Dipegang
  <2>7. CabutBenar(t)'
    BY <1>1, <1>5, <2>1 DEF CabutBenar, MemegangX
  <2>8. QED BY <2>2, <2>3, <2>4, <2>5, <2>6, <2>7 DEF SesiBenar
<1>9. QED BY <1>3, <1>4, <1>6, <1>7, <1>8 DEF IInv, DataBenar

LEMMA GantiKodeBenar == ASSUME IInv, NEW u \in Unit, GantiKode(u) PROVE IInv'
<1>1. /\ mulai < MaksMulai /\ mulai' = mulai + 1 /\ indukPosted' = indukPosted
      /\ UNCHANGED <<kunciVars, dok, hitung, katalog, stok, pernah, pc, sesiDraf>>
  BY DEF GantiKode
<1>2. TipeData
  BY DEF IInv, DataBenar
<1>3. kode' \in [Unit -> Kode \cup {TanpaKode}]
  BY <1>2 DEF GantiKode, TipeData
<1>4. mulai' \in 0..MaksMulai /\ indukPosted' \in BOOLEAN
  BY <1>1, <1>2, MulaiBertambah DEF TipeData
<1>5. QED BY <1>1, <1>3, <1>4, LatarBenar

LEMMA BatalIndukBenar == ASSUME IInv, BatalInduk PROVE IInv'
<1>1. /\ indukPosted' = FALSE /\ kode' = kode /\ mulai' = mulai
      /\ \A t \in Sesi : \A p \in pegang[t] : p.kunci # KInduk
      /\ UNCHANGED <<kunciVars, dok, hitung, katalog, stok, pernah, pc, sesiDraf>>
  BY DEF BatalInduk
<1>2. TipeData
  BY DEF IInv, DataBenar
<1>3. ~\E t \in Sesi : MemegangX(t, KInduk)
  BY <1>1 DEF MemegangX
<1>4. kode' \in [Unit -> Kode \cup {TanpaKode}] /\ mulai' \in 0..MaksMulai /\ indukPosted' \in BOOLEAN
  BY <1>1, <1>2 DEF TipeData
<1>5. QED BY <1>1, <1>3, <1>4, LatarBenar

LEMMA DiamSajaBenar == ASSUME IInv, UNCHANGED varsDraf PROVE IInv'
<1>1. /\ indukPosted' = indukPosted /\ kode' = kode /\ mulai' = mulai
      /\ UNCHANGED <<kunciVars, dok, hitung, katalog, stok, pernah, pc, sesiDraf>>
  BY DEF varsDraf, drafVars
<1>2. kode' \in [Unit -> Kode \cup {TanpaKode}] /\ mulai' \in 0..MaksMulai /\ indukPosted' \in BOOLEAN
  BY <1>1 DEF IInv, DataBenar, TipeData
<1>3. QED BY <1>1, <1>2, LatarBenar

-----------------------------------------------------------------------------
(* The beginning.                                                          *)
LEMMA HitungAwal ==
  ASSUME dok \in [Dok -> KepalaDok],
         hitung = [x \in Jenis \X Unit |->
           Max({dok[d].nomor.urut : d \in {d \in Dok : dok[d].jenis = x[1] /\ dok[d].nomor.unit = x[2]}} \cup {0})]
  PROVE  /\ hitung \in [Jenis \X Unit -> Nat]
         /\ \A d \in Dok : dok[d].nomor.urut <= hitung[<<dok[d].jenis, dok[d].nomor.unit>>]
<1> DEFINE Seri0(x) == {d \in Dok : dok[d].jenis = x[1] /\ dok[d].nomor.unit = x[2]}
<1> DEFINE Urut(x) == {dok[d].nomor.urut : d \in Seri0(x)} \cup {0}
<1>1. \A d \in Dok : dok[d].nomor \in Nomor /\ dok[d].jenis \in Jenis
  BY DEF KepalaDok
<1>2. \A d \in Dok : dok[d].nomor.urut \in Nat /\ <<dok[d].jenis, dok[d].nomor.unit>> \in Jenis \X Unit
  BY <1>1 DEF Nomor
<1>3. ASSUME NEW x \in Jenis \X Unit
      PROVE  /\ hitung[x] = Max(Urut(x)) /\ Max(Urut(x)) \in Nat
             /\ \A n \in Urut(x) : n <= Max(Urut(x))
  <2>1. IsFiniteSet(Dok)
    BY AsumsiDraf DEF AsumsiDraf
  <2>2. IsFiniteSet(Seri0(x))
    BY <2>1, FS_Subset
  <2> DEFINE f == [d \in Seri0(x) |-> dok[d].nomor.urut]
  <2>3. {f[d] : d \in Seri0(x)} = {dok[d].nomor.urut : d \in Seri0(x)}
    OBVIOUS
  <2>4. IsFiniteSet({f[d] : d \in Seri0(x)})
    <3> HIDE DEF f, Seri0
    <3>1. QED BY <2>2, Citra
  <2>5. IsFiniteSet(Urut(x))
    <3>1. IsFiniteSet({dok[d].nomor.urut : d \in Seri0(x)})
      BY <2>3, <2>4
    <3> HIDE DEF Seri0
    <3>2. QED BY <3>1, FS_AddElement
  <2>6. Urut(x) \subseteq Nat /\ Urut(x) # {} /\ Urut(x) \subseteq Int
    BY <1>2
  <2>7. hitung[x] = Max(Urut(x))
    OBVIOUS
  <2>8. \A S : S = Urut(x) => Max(S) \in S /\ \A n \in S : n <= Max(S)
    <3> HIDE DEF Urut
    <3>1. QED BY <2>5, <2>6, AdaMaks
  <2> HIDE DEF Urut
  <2>9. QED BY <2>6, <2>7, <2>8
<1>4. hitung \in [Jenis \X Unit -> Nat]
  <2>1. \A x \in Jenis \X Unit : hitung[x] \in Nat
    BY <1>3
  <2>2. hitung = [x \in Jenis \X Unit |-> hitung[x]]
    OBVIOUS
  <2>3. QED BY <2>1, <2>2
<1>5. ASSUME NEW d \in Dok PROVE dok[d].nomor.urut <= hitung[<<dok[d].jenis, dok[d].nomor.unit>>]
  <2>1. PICK x \in Jenis \X Unit : x = <<dok[d].jenis, dok[d].nomor.unit>>
    BY <1>2
  <2>2. dok[d].nomor.urut \in Urut(x)
    BY <2>1
  <2> HIDE DEF Urut
  <2>3. QED BY <1>3, <2>1, <2>2
<1>6. QED BY <1>4, <1>5

LEMMA AwalBenar == InitDraf => IInv
<1> SUFFICES ASSUME InitDraf PROVE IInv
  OBVIOUS
<1>1. /\ mulai = 0 /\ dok \in DokAwal /\ kode = KodeAwal /\ katalog = KatalogAwal /\ stok = StokAwal
      /\ pernah = {x \in Barang \X Ruang : stok[x] > 0} /\ indukPosted = TRUE
      /\ pc = [t \in Sesi |-> "idle"] /\ tugas = [t \in Sesi |-> Menganggur]
      /\ salinan = [t \in Sesi |-> Kosong] /\ perlu = [t \in Sesi |-> <<>>]
      /\ dapat = [t \in Sesi |-> Hampa] /\ InitKunci
  BY DEF InitDraf
<1>2. dok \in [Dok -> KepalaDok]
  BY <1>1, AsumsiDraf DEF AsumsiDraf
<1>3. /\ hitung \in [Jenis \X Unit -> Nat]
      /\ \A d \in Dok : dok[d].nomor.urut <= hitung[<<dok[d].jenis, dok[d].nomor.unit>>]
  BY <1>2, HitungAwal DEF InitDraf
<1>4. MaksMulai \in Nat /\ KodeAwal \in [Unit -> Kode \cup {TanpaKode}] /\ KatalogAwal \subseteq Barang \X Unit
      /\ StokAwal \in [Barang \X Ruang -> Nat] /\ UnitRuang \in [Ruang -> Unit]
  BY AsumsiDraf DEF AsumsiDraf
<1>5. TipeData
  BY <1>1, <1>2, <1>3, <1>4 DEF TipeData
<1>6. \A d \in Dok : dok[d].status # "TIADA" =>
        /\ dok[d].nomor.awalan = dok[d].jenis
        /\ \A e \in Dok \ {d} : dok[e].status # "TIADA" => Tercetak(dok[d].nomor) # Tercetak(dok[e].nomor)
        /\ dok[d].status \in {"DISETUJUI", "DITOLAK"} => dok[d].jenis = "pemakaian"
        /\ dok[d].jenis = "pemakaian" /\ dok[d].status \in {"DISETUJUI", "POSTED", "BATAL"} =>
             /\ dok[d].penyetuju \notin {NULL, dok[d].pemohon}
             /\ \A i \in DOMAIN dok[d].baris : dok[d].baris[i].setuju \in 0..dok[d].baris[i].dasar
  BY <1>1, RiwayatDraf DEF RiwayatDraf
<1>7. \A x \in Barang \X Ruang : StokAwal[x] > 0 =>
        \/ <<x[1], UnitRuang[x[2]]>> \in KatalogAwal
        \/ \E d \in Dok : /\ dok[d].status = "BATAL" /\ dok[d].jenis \in {"mutasi", "pemakaian"}
                          /\ UnitRuang[dok[d].ruang] = UnitRuang[x[2]]
                          /\ \E i \in DOMAIN dok[d].baris : dok[d].baris[i].barang = x[1]
  BY <1>1, RiwayatDraf DEF RiwayatDraf
<1>8. NomorBeda
  BY <1>6 DEF NomorBeda, Bernomor
<1>9. HitungDiAtas
  BY <1>3, <1>6 DEF HitungDiAtas, Bernomor
<1>10. Ditolak
  BY <1>6 DEF Ditolak
<1>11. DisetujuiOrangLain
  BY <1>6 DEF DisetujuiOrangLain
<1>12. HanyaBatalMembocorkan
  <2>1. SUFFICES ASSUME NEW z \in Bocor PROVE z \in DibawaBatal
    BY DEF HanyaBatalMembocorkan
  <2>2. PICK r \in Ruang : UnitRuang[r] = z[2] /\ stok[<<z[1], r>>] > 0
    BY <2>1 DEF Bocor
  <2>3. z \in Barang \X Unit /\ z \notin katalog /\ z = <<z[1], UnitRuang[r]>> /\ z[1] \in Barang
    BY <2>1, <2>2 DEF Bocor
  <2>4. PICK x \in Barang \X Ruang : x = <<z[1], r>> /\ x[1] = z[1] /\ x[2] = r
    <3>1. PICK b \in Barang : b = z[1]
      BY <2>3
    <3>2. <<b, r>> \in Barang \X Ruang /\ <<b, r>>[1] = b /\ <<b, r>>[2] = r
      OBVIOUS
    <3>3. QED BY <3>1, <3>2
  <2>5. PICK d \in Dok : /\ dok[d].status = "BATAL" /\ dok[d].jenis \in {"mutasi", "pemakaian"}
                         /\ UnitRuang[dok[d].ruang] = UnitRuang[r]
                         /\ \E i \in DOMAIN dok[d].baris : dok[d].baris[i].barang = z[1]
    BY <1>1, <1>7, <2>2, <2>3, <2>4
  <2>6. QED BY <2>3, <2>5 DEF DibawaBatal
<1>13. TipeSesi
  BY <1>1, KosongTak, KosongSemua DEF TipeSesi
<1>14. TipeKunci(PermintaanDraf) /\ KunciSah
  BY <1>1, KunciAwal DEF TipeKunci, InitKunci
<1>15. ASSUME NEW t \in Sesi PROVE SesiBenar(t)
  <2>1. /\ pc[t] = "idle" /\ tugas[t] = Menganggur /\ dapat[t] = Hampa /\ perlu[t] = <<>>
        /\ tunggu[t] = {} /\ ToSet(perlu[t]) = {}
        /\ tugas[t].aksi \notin AksiDok \cup {"buat", "katalog"}
    BY <1>1, KosongTak, KosongSemua DEF InitKunci
  <2>2. Kerja(t)
    BY <2>1 DEF Kerja
  <2>3. Terkunci(t)
    BY <2>1 DEF Terkunci, Jalan
  <2>4. SeriBenar(t)
    BY <2>1 DEF SeriBenar
  <2>5. IndukBenar(t) /\ MasukBenar(t)
    BY <2>1 DEF IndukBenar, MasukBenar
  <2>6. CabutBenar(t)
    BY <2>1 DEF CabutBenar
  <2>7. QED BY <2>2, <2>3, <2>4, <2>5, <2>6 DEF SesiBenar
<1>16. Berbeda
  BY <1>1, KosongTak DEF Berbeda
<1>17. QED BY <1>5, <1>8, <1>9, <1>10, <1>11, <1>12, <1>13, <1>14, <1>15, <1>16 DEF IInv, DataBenar

LEMMA DokDiam == ASSUME dok' = dok PROVE Melangkah
BY DEF Melangkah

LEMMA LanjutBenar == ASSUME IInv, [NextDraf]_varsDraf PROVE IInv' /\ Melangkah
<1>1. ASSUME NEW t \in Sesi, Simpan(t) PROVE IInv' /\ Melangkah
  BY <1>1, SimpanBuatBenar, SimpanUbahBenar, SimpanGantiBenar, SimpanAjukanBenar, SimpanTolakBenar,
     SimpanSetujuiBenar, SimpanPostingBenar, SimpanBatalBenar, SimpanKatalogBenar DEF Simpan
<1>2. ASSUME NEW t \in Sesi, Putus(t) PROVE IInv' /\ Melangkah
  BY <1>2, GagalBenar, GagalMelangkah DEF Putus
<1>3. ASSUME NEW t \in Sesi,
             \/ MulaiBuat(t) \/ MulaiDok(t) \/ BacaDok(t) \/ MulaiKatalog(t) \/ BacaKatalog(t)
             \/ AmbilKunci(t) \/ Periksa(t) \/ PeriksaStok(t)
      PROVE  IInv' /\ Melangkah
  <2>1. IInv'
    BY <1>3, MulaiBuatBenar, MulaiDokBenar, BacaDokBenar, MulaiKatalogBenar, BacaKatalogBenar,
       AmbilKunciBenar, PeriksaBenar, PeriksaStokBenar
  <2>2. dok' = dok
    BY <1>3 DEF MulaiBuat, MulaiDok, BacaDok, MulaiKatalog, BacaKatalog, AmbilKunci, Periksa,
                PeriksaStok, Gagal, drafVars
  <2>3. QED BY <2>1, <2>2, DokDiam
<1>4. CASE \E u \in Unit : GantiKode(u)
  BY <1>4, GantiKodeBenar, DokDiam DEF GantiKode
<1>5. CASE BatalInduk
  BY <1>5, BatalIndukBenar, DokDiam DEF BatalInduk
<1>6. CASE DiamDraf \/ UNCHANGED varsDraf
  BY <1>6, DiamSajaBenar, DokDiam DEF DiamDraf, varsDraf, drafVars
<1>7. QED BY <1>1, <1>2, <1>3, <1>4, <1>5, <1>6 DEF NextDraf

\* The rows, the locks and the requests are what they should be, at every
\* moment of any number of handlers beside each other.
THEOREM DrafSelaluTerjaga == SpecDraf => []IInv
<1>1. InitDraf => IInv
  BY AwalBenar
<1>2. IInv /\ [NextDraf]_varsDraf => IInv'
  BY LanjutBenar
<1>3. QED BY <1>1, <1>2, PTL DEF SpecDraf

\* Every variable has its type, and no balance goes below zero.
THEOREM TipeDraf == SpecDraf => []TypeOKDraf
<1>1. IInv => TypeOKDraf
  <2>1. TipeData /\ TipeSesi /\ TipeKunci(PermintaanDraf) => TypeOKDraf
    BY DEF TypeOKDraf, TipeData, TipeSesi, TipeDapat
  <2>2. QED BY <2>1 DEF IInv, DataBenar
<1>2. QED BY <1>1, DrafSelaluTerjaga, PTL

\* Two documents never print the same number, and a number drawn is only ever
\* found taken by a document of another unit's series.
THEOREM NomorSelaluUnik == SpecDraf => []NomorUnik
<1>1. IInv => NomorUnik
  <2>1. SUFFICES ASSUME IInv, NEW t \in Sesi, Siap(t, "buat"), NEW d \in Bernomor,
                        Tercetak(dok[d].nomor) = Tercetak(NomorBaru(t)),
                        dok[d].nomor.unit = NomorBaru(t).unit
                 PROVE  FALSE
    BY DEF NomorUnik, IInv, DataBenar, NomorBeda
  <2> DEFINE no == NomorBaru(t)
  <2> DEFINE k == <<tugas[t].jenis, no.unit>>
  <2>2. /\ no \in Nomor /\ no.awalan = tugas[t].jenis /\ k \in Jenis \X Unit /\ no.urut = hitung[k] + 1
    BY <2>1, SiapBuat
  <2>3. TipeData /\ HitungDiAtas
    BY <2>1 DEF IInv, DataBenar
  <2>4. dok[d].nomor.awalan = no.awalan /\ dok[d].nomor.urut = no.urut
    BY <2>1 DEF Tercetak
  <2>5. dok[d].nomor.urut <= hitung[k] /\ hitung[k] \in Nat
    BY <2>1, <2>2, <2>3, <2>4 DEF HitungDiAtas, TipeData
  <2> HIDE DEF k, no
  <2>6. QED BY <2>2, <2>4, <2>5
<1>2. QED BY <1>1, DrafSelaluTerjaga, PTL

\* No internal use goes out on its requester's own word, nor for more than
\* was asked.
THEOREM SelaluOrangLain == SpecDraf => []DisetujuiOrangLain
<1>1. IInv => DisetujuiOrangLain
  BY DEF IInv, DataBenar
<1>2. QED BY <1>1, DrafSelaluTerjaga, PTL

\* What a unit holds outside its catalog, a cancellation brought back.
THEOREM SelaluHanyaBatal == SpecDraf => []HanyaBatalMembocorkan
<1>1. IInv => HanyaBatalMembocorkan
  BY DEF IInv, DataBenar
<1>2. QED BY <1>1, DrafSelaluTerjaga, PTL

\* A document says what it said when it was submitted until it is sent back,
\* and what is void or turned down stays so.
THEOREM IsiSelaluTerkunci == SpecDraf => IsiTerkunci
<1>1. IInv /\ [NextDraf]_varsDraf =>
        [\A d \in Dok : dok[d].status \notin {"TIADA", "DRAFT"} => Tetap(dok[d], dok'[d])]_varsDraf
  <2>1. SUFFICES ASSUME IInv, [NextDraf]_varsDraf, NEW d \in Dok, dok[d].status \notin {"TIADA", "DRAFT"}
                 PROVE  Tetap(dok[d], dok'[d])
    OBVIOUS
  <2>2. CASE dok'[d] = dok[d]
    BY <2>2 DEF Tetap
  <2>3. CASE dok'[d] # dok[d]
    <3>1. Lanjut(dok[d], dok'[d])
      BY <2>1, <2>3, LanjutBenar DEF Melangkah
    <3>2. QED BY <2>1, <3>1 DEF Lanjut
  <2>4. QED BY <2>2, <2>3
<1>2. QED BY <1>1, DrafSelaluTerjaga, PTL DEF SpecDraf, IsiTerkunci, Tetap, Isi

\* A receipt or a return is only ever given lines while its purchase stands.
THEOREM SelaluIndukPosted == SpecDraf => DrafIndukPosted
<1>1. IInv /\ [NextDraf]_varsDraf =>
        [\A d \in Dok : dok[d].jenis \in Anak /\ dok'[d].baris # dok[d].baris => indukPosted]_varsDraf
  <2>1. SUFFICES ASSUME IInv, [NextDraf]_varsDraf, NEW d \in Dok, dok[d].jenis \in Anak,
                        dok'[d].baris # dok[d].baris
                 PROVE  indukPosted
    OBVIOUS
  <2>2. dok'[d] # dok[d]
    BY <2>1
  <2>3. QED BY <2>1, <2>2, LanjutBenar DEF Melangkah
<1>2. QED BY <1>1, DrafSelaluTerjaga, PTL DEF SpecDraf, DrafIndukPosted
=============================================================================
