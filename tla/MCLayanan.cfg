SPECIFICATION SpecLayanan
CONSTANTS
  Bagian = {"piutang", "nilai", "alokasi", "lampiran", "presensi", "harga", "akses", "throttle",
            "master", "produk", "utang", "laporan"}
  t1 = t1  t2 = t2  t3 = t3  ani = ani  umum = umum
  Sesi = {t1, t2}
  Nota <- MCNota
  Bayar <- MCBayar
  Pelanggan <- MCPelanggan
  Umum = umum
  Plafon <- MCPlafon
  IsianNota <- MCIsianNota
  PatchNota <- MCPatchNota
  Subtotal <- MCSubtotal
  IsianBayar <- MCIsianBayar
  PilihanAlokasi <- MCPilihanAlokasi
  NotaAwal <- MCNotaAwal
  BayarAwal <- MCBayarAwal
  MaksMulai = 4
  Ruang = {1, 2}  Qty = {1, 3}  Nilai = {1}  MaksDok = 4
  BarisFaktur <- MCBarisFaktur
  KepalaFaktur <- MCKepalaFaktur
  MaksBarisFaktur = 3  MaksSusulan = 2
  f1 = f1  f2 = f2  i1 = i1  tiada = tiada
  Berkas = {f1, f2}  Induk = {i1}  Petugas = {t1, t2}
  MaksLampiran = 1  BatchYatim = 1  TakAda = tiada
  Karyawan = {1}  Permintaan = {t1, t2}  PerHari = 3  BatasShift = 2
  MaksJam = 4  MaksBaris = 2
  Pemakai = {t1, t2}  AkhirTanggal = 3  Harga = {1}  MaksVersi = 3
  Akun = {1}  Pemohon = {t1, t2}  Umur = 2  MaksDetak = 2  MaksToken = 2
  KunciThrottle = {1}  Pelogin = {t1, t2, t3}  Jendela = 1  MaksGagal = 2  MaksWaktu = 2
  Peminta = {t1, t2}  Teks <- MCTeks  Lower <- MCLower
  IndukAwal <- MCIndukAwal  HakAwal <- MCHakAwal  PilihanHak <- MCPilihanHak
  MaksMinta = 2
  Pengolah = {t1, t2}  SatuanAda = {1, 2, 3}  Dasar = 1  FaktorIsian = {1, 2}
  UnitAktif = {1, 2}  UnitPensiun = {3}  MaksOlah = 3
  Kasir = {t1, t2}  FakturUtang <- MCFakturUtang  UtangAwal <- MCUtangAwal
  IsianUtang <- MCIsianUtang  AlokasiUtang <- MCAlokasiUtang  JumlahBaru = {1, 3}
  MaksUtang = 3  MaksKerja = 3
  BarangLap = {1}  RuangLap = {1, 2, 3}  UnitRuang <- MCUnitRuang  MinimumLap <- MCMinimum
  QtyLap = {1, 150}  NilaiLap = {100}  TglLap = {1, 2}  BatasMati = 2  MaksKartu = 3
SYMMETRY Simetri
CHECK_DEADLOCK FALSE
INVARIANTS TypeOKLayanan PiutangTerjaga SelisihTerbatas NilaiFakturTersalur LampiranTerjaga PresensiTerjaga RantaiHargaSatuPenghapus AksesTerjaga JendelaTerpasang PermintaanTerakhir AlokasiUtangTerjaga LaporanTerjaga
PROPERTIES PlafonSendiri PenerimaanMenyegarkan MutasiTerjaga BawaanTidakHilang StokMatiTetapMati
