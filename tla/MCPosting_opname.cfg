SPECIFICATION Spec
CONSTANTS
  s1 = s1
  s2 = s2
  s3 = s3
  Sesi = {s1, s2, s3}
  Barang = {1}
  Ruang = {1, 2}
  Bulan = {2}
  BulanIni = 2
  Dokumen = {1, 2, 3}
  Isi <- IsiOpname
  StatusAwal <- StatusOpname
  KartuAwal <- KartuOpname
  SistemAwal <- SistemKosong
  IdAwal = 3
  MaksMulai = 5
SYMMETRY Simetri
INVARIANTS OpnameTidakBergeser
PROPERTIES PagarRuang ImplementasiBuku
