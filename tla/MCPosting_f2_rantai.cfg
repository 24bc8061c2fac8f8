SPECIFICATION Spec
CONSTANTS
  s1 = s1
  s2 = s2
  s3 = s3
  Sesi = {s1, s2, s3}
  Barang = {1}
  Ruang = {1}
  Bulan = {2}
  BulanIni = 2
  Dokumen = {1, 2}
  Isi <- IsiPembelianPenjualan
  StatusAwal <- StatusPembelianPenjualan
  KartuAwal <- KartuPembelianPenjualan
  SistemAwal <- SistemKosong
  IdAwal = 2
  MaksMulai = 3
SYMMETRY Simetri
INVARIANTS RantaiUtuh
