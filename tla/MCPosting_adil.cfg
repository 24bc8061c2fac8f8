SPECIFICATION SpecAdil
CONSTANTS
  s1 = s1
  s2 = s2
  s3 = s3
  Sesi = {s1, s2, s3}
  Barang = {1, 2}
  Ruang = {1}
  Bulan = {2}
  BulanIni = 2
  Dokumen = {1, 2, 3}
  Isi <- IsiOpnamePosted
  StatusAwal <- StatusOpnamePosted
  KartuAwal <- KartuOpnamePosted
  SistemAwal <- SistemOpnamePosted
  IdAwal = 3
  MaksMulai = 3
PROPERTIES SemuaSelesai
