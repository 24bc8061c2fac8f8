------------------------------ MODULE BukuStok ------------------------------
(***************************************************************************)
(* What the stock ledger promises, with no transactions, locks or rows in  *)
(* it: a balance per product and room that every document moves in one     *)
(* step when it is posted and moves back, by exactly as much, when it is   *)
(* cancelled.  Goods move only in a month that is open and in a room that  *)
(* is not under somebody else's count, and no balance is ever negative.    *)
(* PostingBuku shows that PostingStok implements it.                       *)
(***************************************************************************)
EXTENDS Integers, Sequences, FiniteSetsExt

CONSTANTS Barang, Ruang, Bulan, BulanIni, Dokumen, Isi, StatusSiapDari(_)

VARIABLES saldo,      \* [Barang \X Ruang -> Nat]
          efek,       \* what each document has moved, net
          status, tutup, sistem

varsBuku == <<saldo, efek, status, tutup, sistem>>

Tempat == Barang \X Ruang

Diam0 == [p \in Tempat |-> 0]

Jumlah(S, nilai(_)) == MapThenSumSet(nilai, S)

\* Net movement of a document: lines of product b, with the sign of the room.
EfekDari(d) ==
  LET isi == Isi[d]
      garis(b) == {i \in DOMAIN isi.baris : isi.baris[i].barang = b}
      qty(b) == Jumlah(garis(b), LAMBDA i : isi.baris[i].qty)
      masuk(p) == p[2] = isi.tujuan
      keluar(p) == p[2] = isi.ruang
  IN CASE isi.jenis = "mutasi" ->
            [p \in Tempat |-> (IF masuk(p) THEN qty(p[1]) ELSE 0)
                              - (IF keluar(p) THEN qty(p[1]) ELSE 0)]
       [] isi.jenis \in {"retur_pembelian", "penjualan", "pemakaian"} ->
            [p \in Tempat |-> IF keluar(p) THEN -qty(p[1]) ELSE 0]
       [] isi.jenis = "stok_opname" ->
            [p \in Tempat |-> IF keluar(p) /\ garis(p[1]) # {} /\ sistem[d][p[1]] >= 0
                              THEN qty(p[1]) - sistem[d][p[1]] ELSE 0]
       [] OTHER ->
            [p \in Tempat |-> IF keluar(p) THEN qty(p[1]) ELSE 0]

Dibekukan(r, selain) ==
  \E o \in Dokumen \ {selain} :
    /\ Isi[o].jenis = "stok_opname" /\ Isi[o].ruang = r
    /\ status[o] \in {"DRAFT", "DIAJUKAN"}

\* Goods move by e on behalf of d, dated in month m.
Pindah(d, e, m) ==
  /\ \A p \in Tempat : saldo[p] + e[p] >= 0
  /\ e # Diam0 => m \notin tutup
  /\ \A p \in Tempat : e[p] # 0 => ~Dibekukan(p[2], d)
  /\ saldo' = [p \in Tempat |-> saldo[p] + e[p]]

Posting(d) ==
  /\ status[d] = StatusSiapDari(Isi[d].jenis)
  /\ Pindah(d, EfekDari(d), Isi[d].bulan)
  /\ efek' = [efek EXCEPT ![d] = EfekDari(d)]
  /\ status' = [status EXCEPT ![d] = "POSTED"]
  /\ UNCHANGED <<tutup, sistem>>

Batal(d) ==
  /\ status[d] \notin {"BELUM", "BATAL"}
  /\ Pindah(d, [p \in Tempat |-> -efek[d][p]], BulanIni)
  /\ efek' = [efek EXCEPT ![d] = Diam0]
  /\ status' = [status EXCEPT ![d] = "BATAL"]
  /\ UNCHANGED <<tutup, sistem>>

TutupBuka(m) ==
  /\ tutup' = IF m \in tutup THEN tutup \ {m} ELSE tutup \cup {m}
  /\ UNCHANGED <<saldo, efek, status, sistem>>

\* The life of a count before it is posted; the balances are read at once.
UbahOpname(d) ==
  /\ Isi[d].jenis = "stok_opname"
  /\ \/ status[d] = "BELUM" /\ status' = [status EXCEPT ![d] = "DRAFT"]
        /\ ~Dibekukan(Isi[d].ruang, d)
     \/ status[d] = "DRAFT" /\ status' = [status EXCEPT ![d] = "DIAJUKAN"]
     \/ status[d] = "DIAJUKAN" /\ status' = [status EXCEPT ![d] = "DRAFT"]
  /\ UNCHANGED <<saldo, efek, tutup, sistem>>

TarikSaldo(d) ==
  /\ Isi[d].jenis = "stok_opname" /\ status[d] = "DRAFT"
  /\ \E S \in SUBSET Barang :           \* products the room has seen
       sistem' = [sistem EXCEPT ![d] =
                   [b \in Barang |-> IF b \in S THEN saldo[<<b, Isi[d].ruang>>] ELSE -1]]
  /\ UNCHANGED <<saldo, efek, status, tutup>>

\* Any balances to begin with, none below zero, and no month closed.
InitBuku == tutup = {} /\ \A p \in Tempat : saldo[p] >= 0

NextBuku ==
  \/ \E d \in Dokumen : Posting(d) \/ Batal(d) \/ UbahOpname(d) \/ TarikSaldo(d)
  \/ \E m \in Bulan : TutupBuka(m)

SpecBuku == InitBuku /\ [][NextBuku]_varsBuku
=============================================================================
