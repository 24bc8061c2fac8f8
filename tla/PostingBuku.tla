---------------------------- MODULE PostingBuku ----------------------------
(***************************************************************************)
(* The refinement mapping from the transactions of PostingStok to the      *)
(* ledger of BukuStok: a balance is the last committed row of its pair,    *)
(* and a document has moved what its committed rows sum to.  A posting or  *)
(* a cancellation takes effect when it commits; every other step stutters. *)
(***************************************************************************)
EXTENDS PostingStok, FiniteSetsExt

SaldoBuku ==
  [p \in Barang \X Ruang |-> SaldoTerakhir(kartu, p[1], p[2])]

EfekBuku ==
  [d \in Dokumen |-> [p \in Barang \X Ruang |->
     MapThenSumSet(LAMBDA k : k.masuk - k.keluar,
                   {k \in Pasangan(kartu, p[1], p[2]) : k.dok = d})]]

\* The status a document of each kind is posted from.
StatusSiap(j) == CASE j \in {"mutasi", "penjualan"} -> "DRAFT"
                   [] j = "pemakaian"               -> "DISETUJUI"
                   [] OTHER                         -> "DIAJUKAN"

Buku == INSTANCE BukuStok WITH saldo <- SaldoBuku, efek <- EfekBuku,
                               StatusSiapDari <- StatusSiap

\* Every committed step of the transactions is one step of the serial ledger
\* or none: concurrent postings, cancellations, closings and counts add up to
\* some order of them, one at a time.
ImplementasiBuku == Buku!SpecBuku
=============================================================================
