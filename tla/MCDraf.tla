------------------------------- MODULE MCDraf -------------------------------
(* One document of each kind at each stage, a second one still to be made  *)
(* (or both), two units of one room, a session of unit 1 and a global one. *)
EXTENDS Draf

CONSTANTS t1, t2

MCSesi  == {t1, t2}
MCAktif == t1 :> 1 @@ t2 :> 0
MCUnitRuang == <<1, 2>>
MCKodeAwal  == <<"A", "B">>

MCFaktor == <<[pcs |-> 1, dus |-> 2], [pcs |-> 1, dus |-> 0]>>

Ketik(b, s, n, m) == [barang |-> b, satuan |-> s, jumlah |-> n, terima |-> m, harga |-> 3, diskon |-> 0]

\* Half a box of 1; one piece of 2, still to come; half a piece.
MCPilihanBaris ==
  {<<Ketik(1, "dus", 1, 1)>>, <<Ketik(1, "pcs", 2, 2), Ketik(2, "pcs", 2, 0)>>, <<Ketik(1, "pcs", 1, 1)>>}

Hdr(r, d) == [ruang |-> r, tujuan |-> 3 - r, pemohon |-> 1, diskon |-> d]

MCIsian == [j \in Jenis |-> IF j = "pembelian" THEN {Hdr(1, 1), Hdr(2, 0)}
                            ELSE IF j \in Anak THEN {Hdr(1, 0)} ELSE {Hdr(1, 0), Hdr(2, 0)}]

MCPatch == [j \in Jenis |->
  CASE j = "pembelian"  -> {[diskon |-> 1], [diskon |-> 9]}
    [] j = "mutasi"     -> {[ruang |-> 2], [ruang |-> 2, tujuan |-> 1]}
    [] j = "pemakaian"  -> {[ruang |-> 2], [pemohon |-> 2]}
    [] j = "saldo_awal" -> {[ruang |-> 2]}
    [] OTHER            -> {<<>>}]

MCPutusan == {<<>>, <<0>>, <<2>>}
MCInduk   == <<[dasar |-> 2, diterima |-> 1, hpp |-> 1], [dasar |-> 1, diterima |-> 1, hpp |-> 2]>>
MCKatalogAwal == {<<1, 1>>, <<1, 2>>, <<2, 1>>}
MCStokAwal == [x \in {1, 2} \X {1, 2} |-> IF x = <<1, 1>> THEN 1 ELSE 0]

Brs(n, v, s) == [barang |-> 1, dasar |-> n, terima |-> n, nilai |-> v, setuju |-> s]

Dk(j, st, n, b) ==
  [jenis |-> j, status |-> st, nomor |-> [awalan |-> j, kode |-> "A", unit |-> 1, urut |-> n],
   ruang |-> 1, tujuan |-> 2, pemohon |-> 1, penyetuju |-> IF st = "DISETUJUI" THEN 2 ELSE -1,
   diskon |-> 0, total |-> IF j \in Anak \cup {"pembelian"} THEN JumlahNilai(b) ELSE 0,
   kurang |-> FALSE, baris |-> b]

Awal(j, st) == <<Dk(j, st, 1, <<Brs(1, IF j = "mutasi" THEN 0 ELSE 1, IF st = "DISETUJUI" THEN 1 ELSE -1)>>),
                 Dk(j, "TIADA", 0, <<>>)>>

MCDokAwal == {Awal(j, "DRAFT") : j \in Jenis} \cup {Awal(j, "DIAJUKAN") : j \in Jenis \ {"mutasi"}}
             \cup {Awal("pemakaian", "DISETUJUI")}
             \cup {<<Dk("mutasi", "TIADA", 0, <<>>), Dk("mutasi", "TIADA", 0, <<>>)>>}
=============================================================================
