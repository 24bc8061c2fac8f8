----------------------------- MODULE MesinSaldo -----------------------------
(***************************************************************************)
(* The arithmetic of the trigger kartu_stok_hitung_saldo: what one row     *)
(* does to the running balance of a (barang, ruang).  NUMERIC columns are  *)
(* integers here: nilai in cents (scale 2), hpp in ten-thousandths (scale  *)
(* 4), so that ROUND is exact.                                             *)
(***************************************************************************)
EXTENDS Integers

\* ROUND(a / b): half away from zero, for a >= 0 and b > 0.
BulatBagi(a, b) == (2 * a + b) \div (2 * b)

SaldoKosong == [stok |-> 0, nilai |-> 0, hpp |-> 0]

\* ROUND(nilai / stok, 4) with nilai in cents.
HppDari(nilai, stok) == BulatBagi(100 * nilai, stok)

\* ROUND(qty * hpp, 2) in cents.
NilaiDari(qty, hpp) == BulatBagi(qty * hpp, 100)

\* Fault: the average becomes the price of the last receipt.
SetelahMasukTerakhir(lalu, qty, nilaiMasuk) ==
  [stok  |-> lalu.stok + qty, nilai |-> lalu.nilai + nilaiMasuk, hpp |-> HppDari(nilaiMasuk, qty)]

\* Goods in move the average.
SetelahMasuk(lalu, qty, nilaiMasuk) ==
  [stok  |-> lalu.stok + qty,
   nilai |-> lalu.nilai + nilaiMasuk,
   hpp   |-> HppDari(lalu.nilai + nilaiMasuk, lalu.stok + qty)]

\* Goods out leave at the average; an empty balance is worth nothing,
\* whatever rounding left behind.
SetelahKeluar(lalu, qty) ==
  [stok  |-> lalu.stok - qty,
   nilai |-> IF lalu.stok = qty THEN 0 ELSE lalu.nilai - NilaiDari(qty, lalu.hpp),
   hpp   |-> lalu.hpp]

\* The two RAISEs: stok tidak mencukupi, nilai persediaan negatif.
Diterima(saldo) == saldo.stok >= 0 /\ saldo.nilai >= 0
=============================================================================
