----------------------------- MODULE MCLayanan -----------------------------
(* The components that share no row with one another, one run for all: the *)
(* initial state picks the component of a behaviour, and the others rest.  *)
EXTENDS Piutang, NilaiStok, AlokasiBiaya, Lampiran, Presensi, HargaJual, Akses, Throttle,
        Master, SatuanProduk, PembayaranUtang, Laporan, TLC

CONSTANTS
  Bagian,                      \* the components a configuration runs
  f1, f2, i1, tiada    \* model values

VARIABLE bagian

varsLayanan == <<bagian, varsPiutang, varsNilai, varsAlokasi, varsLampiran, varsPresensi,
                 varsHarga, varsAkses, varsThrottle, varsMaster, varsProduk, varsUtang,
                 varsLaporan>>

InitLayanan ==
  /\ bagian \in Bagian
  /\ InitPiutang /\ InitNilai /\ InitLampiran /\ InitPresensi /\ InitHarga
  /\ InitAkses /\ InitThrottle /\ InitProduk /\ InitLaporan
  /\ IF bagian = "utang" THEN InitUtang
     ELSE utang = <<>> /\ bayaran = [s \in Kasir |-> SebelumKerja] /\ jumlahKerja = 0
  /\ IF bagian = "alokasi" THEN InitAlokasi
     ELSE /\ kepala = <<>> /\ baris = <<>> /\ tahap = "DRAFT"
          /\ hpp = <<>> /\ alokasi = <<>> /\ masukan = <<>>
  /\ IF bagian = "master" THEN InitMaster
     ELSE /\ induk = <<>> /\ hak = <<>> /\ nomorHak = 0 /\ terpakai = {}
          /\ minta = <<>> /\ dimulai = 0 /\ diminta = [induk |-> <<>>, hak |-> <<>>]

\* One disjunct for each component.
NextLayanan ==
  \/ /\ bagian = "piutang" /\ NextPiutang
     /\ UNCHANGED <<bagian, varsNilai, varsAlokasi, varsLampiran, varsPresensi, varsHarga,
                    varsAkses, varsThrottle, varsMaster, varsProduk, varsUtang, varsLaporan>>
  \/ /\ bagian = "nilai" /\ NextNilai
     /\ UNCHANGED <<bagian, varsPiutang, varsAlokasi, varsLampiran, varsPresensi, varsHarga,
                    varsAkses, varsThrottle, varsMaster, varsProduk, varsUtang, varsLaporan>>
  \/ /\ bagian = "alokasi" /\ NextAlokasi
     /\ UNCHANGED <<bagian, varsPiutang, varsNilai, varsLampiran, varsPresensi, varsHarga,
                    varsAkses, varsThrottle, varsMaster, varsProduk, varsUtang, varsLaporan>>
  \/ /\ bagian = "lampiran" /\ NextLampiran
     /\ UNCHANGED <<bagian, varsPiutang, varsNilai, varsAlokasi, varsPresensi, varsHarga,
                    varsAkses, varsThrottle, varsMaster, varsProduk, varsUtang, varsLaporan>>
  \/ /\ bagian = "presensi" /\ NextPresensi
     /\ UNCHANGED <<bagian, varsPiutang, varsNilai, varsAlokasi, varsLampiran, varsHarga,
                    varsAkses, varsThrottle, varsMaster, varsProduk, varsUtang, varsLaporan>>
  \/ /\ bagian = "harga" /\ NextHarga
     /\ UNCHANGED <<bagian, varsPiutang, varsNilai, varsAlokasi, varsLampiran, varsPresensi,
                    varsAkses, varsThrottle, varsMaster, varsProduk, varsUtang, varsLaporan>>
  \/ /\ bagian = "akses" /\ NextAkses
     /\ UNCHANGED <<bagian, varsPiutang, varsNilai, varsAlokasi, varsLampiran, varsPresensi,
                    varsHarga, varsThrottle, varsMaster, varsProduk, varsUtang, varsLaporan>>
  \/ /\ bagian = "throttle" /\ NextThrottle
     /\ UNCHANGED <<bagian, varsPiutang, varsNilai, varsAlokasi, varsLampiran, varsPresensi,
                    varsHarga, varsAkses, varsMaster, varsProduk, varsUtang, varsLaporan>>
  \/ /\ bagian = "master" /\ NextMaster
     /\ UNCHANGED <<bagian, varsPiutang, varsNilai, varsAlokasi, varsLampiran, varsPresensi,
                    varsHarga, varsAkses, varsThrottle, varsProduk, varsUtang, varsLaporan>>
  \/ /\ bagian = "produk" /\ NextProduk
     /\ UNCHANGED <<bagian, varsPiutang, varsNilai, varsAlokasi, varsLampiran, varsPresensi,
                    varsHarga, varsAkses, varsThrottle, varsMaster, varsUtang, varsLaporan>>
  \/ /\ bagian = "utang" /\ NextUtang
     /\ UNCHANGED <<bagian, varsPiutang, varsNilai, varsAlokasi, varsLampiran, varsPresensi,
                    varsHarga, varsAkses, varsThrottle, varsMaster, varsProduk, varsLaporan>>
  \/ /\ bagian = "laporan" /\ NextLaporan
     /\ UNCHANGED <<bagian, varsPiutang, varsNilai, varsAlokasi, varsLampiran, varsPresensi,
                    varsHarga, varsAkses, varsThrottle, varsMaster, varsProduk, varsUtang>>

SpecLayanan == InitLayanan /\ [][NextLayanan]_varsLayanan

\* The types of every component (what each says beside its types: a credit
\* that the rows justify, the unique indexes of attendance, the exclusion
\* constraint of the prices).
TypeOKLayanan ==
  /\ bagian = "piutang"  => TypeOKPiutang
  /\ bagian = "nilai"    => TypeOKNilai
  /\ bagian = "alokasi"  => TypeOKAlokasi
  /\ bagian = "lampiran" => TypeOKLampiran
  /\ bagian = "presensi" => TypeOKPresensi
  /\ bagian = "harga"    => TypeOKHarga
  /\ bagian = "akses"    => TypeOKAkses
  /\ bagian = "throttle" => TypeOKThrottle
  /\ bagian = "master"   => TypeOKMaster
  /\ bagian = "produk"   => TypeOKProduk /\ SatuanDasarAda
  /\ bagian = "utang"    => TypeOKUtang
  /\ bagian = "laporan"  => TypeOKLaporan

-----------------------------------------------------------------------------
CONSTANTS t1, t2, t3, ani, umum

\* In every component two requests may change places.
Simetri == Permutations({t1, t2})

MCPelanggan == {ani}
MCPlafon == ani :> 4

Nt(s, j, p, sub, d) ==
  [status |-> s, jenis |-> j, pelanggan |-> p, subtotal |-> sub, diskon |-> d,
   total |-> sub - d, lunas |-> "BELUM"]

MCNota == {1, 2}
MCNotaAwal == <<Nt("POSTED", "KREDIT", ani, 3, 0), Nt("TIADA", "TUNAI", umum, 0, 0)>>

MCIsianNota == {[jenis |-> "KREDIT", pelanggan |-> p, diskon |-> 0] : p \in {ani, umum}}
MCPatchNota == {[diskon |-> 1], [jenis |-> "TUNAI"], [pelanggan |-> umum]}
MCSubtotal  == {0, 2}

By(s, g, n, a) ==
  [status |-> s, giro |-> g, pelanggan |-> ani, jumlah |-> n, alokasi |-> a,
   dialokasikan |-> FoldSeq(LAMBDA x, m : x.jumlah + m, 0, a)]

Al(n, j) == [nota |-> n, jumlah |-> j]

MCBayar == {1, 2}
MCBayarAwal == <<By("TIADA", "TANPA", 1, <<>>), By("POSTED", "BELUM_CAIR", 2, <<Al(1, 2)>>)>>

MCIsianBayar == {[metode |-> m, pelanggan |-> ani, jumlah |-> 3] : m \in Metode}
MCPilihanAlokasi == {<<>>, <<Al(1, 2)>>, <<Al(2, 1), Al(1, 2)>>, <<Al(1, 1), Al(1, 1)>>}

MCBaris(q, d, s, k) == [qty |-> q, datang |-> d, subtotal |-> s, koli |-> k]
MCBarisFaktur ==
  {MCBaris(3, d, s, k) : d \in {2, 3}, s \in {50, 100}, k \in {0, 100}} \cup {MCBaris(3, 0, 1000, 0), MCBaris(3, 3, 0, 0)}
MCKepalaFaktur ==
  [diskon : {0, 10}, ppn : {11}, kredit : BOOLEAN, metode : {"KOLI", "QTY"},
   totalKoli : {0, 200}, tarif : {5}]

MCTeks  == {"A", "a", "B"}
MCLower == [x \in MCTeks |-> IF x = "a" THEN "A" ELSE x]
MCIndukAwal ==
  [j \in Jenis |->
     IF j = "users" THEN <<BarisMaster(j, [username |-> "A", email |-> "A"])>>
     ELSE IF j \in {"satuan", "ekspedisi", "role"} THEN <<BarisMaster(j, [nama |-> "A"])>>
     ELSE <<BarisMaster(j, [nama |-> "A", kode |-> "A"])>>]
MCHakAwal == [u |-> 1, role |-> 1, unit |-> 0] :> 1
MCPilihanHak == {{}, {<<1, 1>>}, {<<1, 0>>, <<1, 1>>}}

Fk(p, st, t, k) == [supplier |-> p, status |-> st, total |-> t, kredit |-> k]
MCFakturUtang == <<Fk(1, "POSTED", 3, 1), Fk(1, "POSTED", 2, 0), Fk(2, "POSTED", 2, 0)>>

AlU(f, n) == [faktur |-> f, jumlah |-> n]
MCAlokasiUtang ==
  {<<>>, <<AlU(1, 2)>>, <<AlU(2, 1), AlU(1, 1)>>, <<AlU(1, 1), AlU(1, 1)>>, <<AlU(3, 1)>>}
MCIsianUtang ==
  [supplier : {1}, metode : {"GIRO", "TUNAI"}, jumlah : {2}, alokasi : MCAlokasiUtang]
Bu(g, st, a) ==
  [supplier |-> 1, giro |-> g, jumlah |-> 2, dialokasikan |-> TotalUtang(a), status |-> st,
   alokasi |-> a]
MCUtangAwal == <<Bu("BELUM_CAIR", "POSTED", <<AlU(1, 2)>>), Bu("TANPA", "DRAFT", <<>>)>>

MCUnitRuang == <<1, 1, 2>>
MCMinimum == <<1>>
=============================================================================
