SPECIFICATION SpecDraf
CONSTANTS
  t1 = t1  t2 = t2
  Sesi <- MCSesi
  Dok = {1, 2}
  DokAwal <- MCDokAwal
  Ruang = {1, 2}
  Unit = {1, 2}
  UnitRuang <- MCUnitRuang
  Kode = {"A", "B"}
  KodeAwal <- MCKodeAwal
  Aktif <- MCAktif
  Semua = 0
  Barang = {1, 2}
  Faktor <- MCFaktor
  Satuan = {"pcs", "dus"}
  Orang = {1, 2}
  Isian <- MCIsian
  Patch <- MCPatch
  PilihanBaris <- MCPilihanBaris
  Putusan <- MCPutusan
  Induk <- MCInduk
  KatalogAwal <- MCKatalogAwal
  StokAwal <- MCStokAwal
  MaksMulai = 3
INVARIANT KatalogTerjaga
