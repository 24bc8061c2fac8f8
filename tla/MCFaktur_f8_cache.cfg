SPECIFICATION Spec
CONSTANTS
  t1 = t1  t2 = t2  t3 = t3
  Sesi <- MCSesi2
  Faktur <- MCFakturId
  NilaiFaktur <- MCNilai
  Dokumen <- MCDokumenBayar
  Isi <- MCIsiBayar
  StatusAwal <- MCStatusBayar
  MaksMulai = 3
SYMMETRY MCSimetri
INVARIANTS CacheBayarSetuju
