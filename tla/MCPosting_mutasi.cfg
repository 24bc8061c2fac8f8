SPECIFICATION Spec
CONSTANTS
  s1 = s1
  s2 = s2
  s3 = s3
  Sesi = {s1, s2, s3}
  Barang = {1}
  Ruang = {1, 2}
  Bulan = {2}
  BulanIni = 2
  Dokumen = {1, 2, 3}
  Isi <- IsiMutasi
  StatusAwal <- StatusMutasi
  KartuAwal <- KartuMutasi
  SistemAwal <- SistemKosong
  IdAwal = 2
  MaksMulai = 5
SYMMETRY Simetri
INVARIANTS TypeOK RantaiUtuh KartuCocokStatus SaldoAwalPertama TanpaSiklus
