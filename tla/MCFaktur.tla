------------------------------ MODULE MCFaktur ------------------------------
(* Two purchases and the documents that draw on them.                      *)
EXTENDS FakturBeli, TLC

CONSTANTS t1, t2, t3

MCSesi2 == {t1, t2}
MCSesi3 == {t1, t2, t3}
MCSimetri == Permutations(Sesi)

MCFakturId == {1, 2}

\* Faktur 1: odd total over two pieces, so that credits round up; one piece
\* short.  Faktur 2: all there.
MCNilai == [f \in MCFakturId |-> IF f = 1 THEN [total |-> 5, qty |-> 2, terima |-> 1]
                                 ELSE [total |-> 4, qty |-> 1, terima |-> 1]]

Al(f, n) == [faktur |-> f, jumlah |-> n]

Kas(a)   == [jenis |-> "tunai", alokasi |-> a]
Bilyet(a) == [jenis |-> "giro", alokasi |-> a]
Sus(f, n) == [jenis |-> "susulan", alokasi |-> <<Al(f, n)>>]
Ret(f, n) == [jenis |-> "retur", alokasi |-> <<Al(f, n)>>]

\* 1, 2: a payment and a giro over both purchases, typed in opposite order;
\* each fits alone, not both.  3, 4: two receipts of the one missing piece;
\* 5, 6: returns of a piece each.
MCIsi == <<Kas(<<Al(1, 3), Al(2, 2)>>), Bilyet(<<Al(2, 3), Al(1, 3)>>),
           Sus(1, 1), Sus(1, 1), Ret(1, 1), Ret(1, 1)>>

MCDokumen == DOMAIN MCIsi

MCStatus == <<"DRAFT", "POSTED", "POSTED", "DIAJUKAN", "DIAJUKAN", "DIAJUKAN">>

\* For the two findings: payments only, one more of the first purchase.
MCDokumenBayar == {1, 2, 3}
MCIsiBayar     == <<MCIsi[1], MCIsi[2], Kas(<<Al(1, 2)>>)>>
MCStatusBayar  == <<"DRAFT", "POSTED", "POSTED">>
=============================================================================
