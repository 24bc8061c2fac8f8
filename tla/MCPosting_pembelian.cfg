SPECIFICATION Spec
CONSTANTS
  s1 = s1
  s2 = s2
  s3 = s3
  Sesi = {s1, s2, s3}
  Barang = {1}
  Ruang = {1}
  Bulan = {1, 2}
  BulanIni = 2
  Dokumen = {1, 2, 3, 4}
  Isi <- IsiPembelian
  StatusAwal <- StatusPembelian
  KartuAwal <- KartuPembelian
  SistemAwal <- SistemKosong
  IdAwal = 2
  MaksMulai = 4
SYMMETRY Simetri
INVARIANTS IndukTerjaga
PROPERTIES PagarPeriode
