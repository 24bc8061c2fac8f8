SPECIFICATION Spec
CONSTANTS
  t1 = t1  t2 = t2  t3 = t3
  Sesi <- MCSesi3
  Faktur <- MCFakturId
  NilaiFaktur <- MCNilai
  Dokumen <- MCDokumen
  Isi <- MCIsi
  StatusAwal <- MCStatus
  MaksMulai = 3
SYMMETRY MCSimetri
INVARIANTS TypeOKFaktur FakturTerjaga KreditTertutup
PROPERTIES TidakLebihBayar KuotaTerjaga PostingMenyegarkan
