-------------------------- MODULE FakturBeli_proof --------------------------
(***************************************************************************)
(* Proofs about FakturBeli, for any purchases, documents and any number of *)
(* sessions: a POSTED payment, receipt or return never belongs to a        *)
(* cancelled purchase, although a document is posted without looking at    *)
(* the cancellation that may be under way, and the other way round; no     *)
(* purchase is paid, credited, delivered or sent back beyond what it has;  *)
(* and who locked the purchase before reading it leaves its cache right.   *)
(*                                                                         *)
(* The argument is about who holds which row.  A posting keeps, from the   *)
(* moment it has checked a purchase to its COMMIT, the row it checked; a   *)
(* cancellation looks for related documents while it holds that row.       *)
(*                                                                         *)
(* Amounts: every commit of a document locks the purchases it speaks of to *)
(* rebuild their caches, so while a session holds a purchase nothing that  *)
(* is counted of it changes (Setara): what was left of it when it was      *)
(* checked, the credit computed from it and the snapshot taken for its     *)
(* cache are still right at the COMMIT, and a sum over all documents       *)
(* changes by what the one document adds.                                  *)
(***************************************************************************)
EXTENDS FakturBeli, Dasar_proof

\* t has seen the purchase f POSTED and still holds its row.
Dijaga(t, f) == MemegangX(t, KFaktur(f)) /\ statusFaktur[f] = "POSTED"

DijagaSemua(t) == \A a \in ToSet(Isi[tugas[t].dok].alokasi) : Dijaga(t, a.faktur)

\* What a session knows, by where it is.
InvSesi(t) ==
  LET g == tugas[t] IN
  /\ pc[t] = "idle" => Jalan(t)
  /\ pc[t] = "faktur" => g.faktur \in Faktur /\ Dipenuhi(t, ForUpdate(KFaktur(g.faktur)))
  /\ pc[t] \notin {"idle", "faktur"} =>
       g.dok \in Dokumen /\ Dipenuhi(t, ForUpdate(KDok(g.dok)))
  /\ pc[t] \notin {"idle", "faktur", "dokumen"} =>
       /\ MemegangX(t, KDok(g.dok))
       /\ g.aksi # "posting" => dokumen[g.dok].status = "POSTED"
  /\ pc[t] \in {"kunci", "sisa"} /\ g.aksi = "posting" =>
       /\ daftar[t] \in Seq(Alokasi)
       /\ \A a \in ToSet(Isi[g.dok].alokasi) :
            a \in ToSet(daftar[t]) \/ Dijaga(t, a.faktur)
  /\ pc[t] = "sisa" => Dipenuhi(t, ForUpdate(KFaktur(Head(daftar[t]).faktur)))
  /\ pc[t] = "sisa" => daftar[t] # <<>>
  /\ pc[t] \in {"ulang", "tulis"} /\ g.aksi = "posting" => DijagaSemua(t)

Bentuk ==
  /\ DOMAIN dokumen = Dokumen /\ DOMAIN statusFaktur = Faktur
  /\ DOMAIN pc = Sesi /\ DOMAIN tugas = Sesi /\ DOMAIN daftar = Sesi

IInv == Bentuk /\ KunciSah /\ FakturTerjaga /\ \A t \in Sesi : InvSesi(t)

-----------------------------------------------------------------------------
\* What u holds stays as it is.
Utuh(u) ==
  /\ \A f \in Faktur : MemegangX(u, KFaktur(f)) => statusFaktur'[f] = statusFaktur[f]
  /\ \A d \in Dokumen : MemegangX(u, KDok(d)) => dokumen'[d] = dokumen[d]

\* The allocations of a document name purchases.
LEMMA TipeAlokasi ==
  ASSUME NEW d \in Dokumen
  PROVE  /\ Isi[d].alokasi \in Seq(Alokasi)
         /\ \A a \in ToSet(Isi[d].alokasi) : a.faktur \in Faktur
<1>1. Isi[d].alokasi \in Seq(Alokasi)
  BY AsumsiFaktur DEF AsumsiFaktur
<1>2. \A i \in DOMAIN Isi[d].alokasi : Isi[d].alokasi[i] \in Alokasi
  BY <1>1
<1>3. QED BY <1>1, <1>2 DEF ToSet, Alokasi

\* So what u knows stays true.
LEMMA SesiLain ==
  ASSUME NEW u \in Sesi, InvSesi(u), Lain(u), Utuh(u),
         pc'[u] = pc[u], tugas'[u] = tugas[u], daftar'[u] = daftar[u]
  PROVE  InvSesi(u)'
<1>1. /\ Jalan(u) => Jalan(u)'
      /\ \A k : MemegangX(u, k) => MemegangX(u, k)'
      /\ \A p : Dipenuhi(u, p) => Dipenuhi(u, p)'
  BY DEF Lain, Maju, Jalan, MemegangX, Dipenuhi
<1>2. \A f \in Faktur : Dijaga(u, f) => Dijaga(u, f)'
  BY <1>1 DEF Dijaga, Utuh
<1>3. pc[u] \notin {"idle", "faktur"} =>
        \A a \in ToSet(Isi[tugas[u].dok].alokasi) : Dijaga(u, a.faktur) => Dijaga(u, a.faktur)'
  BY <1>2, TipeAlokasi DEF InvSesi
<1>4. pc[u] \notin {"idle", "faktur", "dokumen"} =>
        dokumen'[tugas[u].dok] = dokumen[tugas[u].dok]
  BY DEF InvSesi, Utuh
<1>5. QED BY <1>1, <1>3, <1>4 DEF InvSesi, DijagaSemua
-----------------------------------------------------------------------------
(* The steps.                                                              *)
SemuaTahu == \A t \in Sesi : InvSesi(t)

\* A session that ends knows nothing and disturbs nobody, provided what it
\* wrote is not held by another.
LEMMA Usai ==
  ASSUME IInv, NEW t \in Sesi, Bersih(t), \A u \in Sesi : u # t => Utuh(u)
  PROVE  KunciSah' /\ SemuaTahu'
<1>1. /\ KunciSah' /\ Jalan(t)'
      /\ \A u \in Sesi : u # t => Lain(u)
  BY LepasSah DEF Bersih, IInv
<1>2. /\ pc'[t] = "idle"
      /\ \A u \in Sesi : u # t => pc'[u] = pc[u] /\ tugas'[u] = tugas[u] /\ daftar'[u] = daftar[u]
  BY DEF Bersih, IInv, Bentuk
<1>3. InvSesi(t)'
  BY <1>1, <1>2 DEF InvSesi
<1>4. \A u \in Sesi : u # t => InvSesi(u)'
  BY <1>1, <1>2, SesiLain DEF IInv
<1>5. QED BY <1>1, <1>3, <1>4 DEF SemuaTahu

LEMMA UsaiGagal ==
  ASSUME IInv, NEW t \in Sesi, Gagal(t)
  PROVE  KunciSah' /\ SemuaTahu'
<1>1. \A u \in Sesi : Utuh(u)
  BY DEF Gagal, dataVars, Utuh
<1>2. QED BY <1>1, Usai DEF Gagal

\* A step of t that asks for a lock, or for none, and writes no row.
LEMMA LangkahSaja ==
  ASSUME IInv, NEW t \in Sesi, UNCHANGED <<dokumen, statusFaktur>>,
         KunciSah', \A u \in Sesi : u # t => Lain(u),
         \A u \in Sesi : u # t => pc'[u] = pc[u] /\ tugas'[u] = tugas[u] /\ daftar'[u] = daftar[u],
         InvSesi(t)'
  PROVE  KunciSah' /\ SemuaTahu'
<1>1. \A u \in Sesi : Utuh(u)
  BY DEF Utuh
<1>2. \A u \in Sesi : u # t => InvSesi(u)'
  BY <1>1, SesiLain DEF IInv
<1>3. QED BY <1>2 DEF SemuaTahu

LEMMA LangkahMulai ==
  ASSUME IInv, NEW t \in Sesi, Mulai(t)
  PROVE  KunciSah' /\ SemuaTahu'
<1>1. PICK g \in Tugas :
        /\ tugas' = [tugas EXCEPT ![t] = g]
        /\ \/ /\ g.aksi = "batal_faktur" /\ Minta(t, ForUpdate(KFaktur(g.faktur)))
              /\ pc' = [pc EXCEPT ![t] = "faktur"]
           \/ /\ g.aksi # "batal_faktur" /\ Minta(t, ForUpdate(KDok(g.dok)))
              /\ pc' = [pc EXCEPT ![t] = "dokumen"]
  BY DEF Mulai
<1>2. /\ UNCHANGED <<dokumen, statusFaktur, daftar>> /\ pc[t] = "idle" /\ Jalan(t)
      /\ tugas'[t] = g
      /\ \A u \in Sesi : u # t => pc'[u] = pc[u] /\ tugas'[u] = tugas[u] /\ daftar'[u] = daftar[u]
  BY <1>1 DEF Mulai, dataVars, IInv, Bentuk, InvSesi
<1>3. CASE /\ g.aksi = "batal_faktur" /\ Minta(t, ForUpdate(KFaktur(g.faktur)))
           /\ pc' = [pc EXCEPT ![t] = "faktur"]
  <2>1. /\ KunciSah' /\ \A u \in Sesi : u # t => Lain(u)
        /\ Dipenuhi(t, ForUpdate(KFaktur(g.faktur)))'
    BY <1>2, <1>3, MintaSah DEF IInv
  <2>2. g.faktur \in Faktur
    BY <1>3 DEF Tugas
  <2>3. InvSesi(t)'
    BY <1>2, <1>3, <2>1, <2>2 DEF InvSesi, IInv, Bentuk
  <2>4. QED BY <1>2, <2>1, <2>3, LangkahSaja
<1>4. CASE /\ g.aksi # "batal_faktur" /\ Minta(t, ForUpdate(KDok(g.dok)))
           /\ pc' = [pc EXCEPT ![t] = "dokumen"]
  <2>1. /\ KunciSah' /\ \A u \in Sesi : u # t => Lain(u)
        /\ Dipenuhi(t, ForUpdate(KDok(g.dok)))'
    BY <1>2, <1>4, MintaSah DEF IInv
  <2>2. g.dok \in Dokumen
    BY <1>4 DEF Tugas
  <2>3. InvSesi(t)'
    BY <1>2, <1>4, <2>1, <2>2 DEF InvSesi, IInv, Bentuk
  <2>4. QED BY <1>2, <2>1, <2>3, LangkahSaja
<1>5. QED BY <1>1, <1>3, <1>4

LEMMA LangkahPeriksa ==
  ASSUME IInv, NEW t \in Sesi, PeriksaDokumen(t)
  PROVE  KunciSah' /\ SemuaTahu'
<1> DEFINE g == tugas[t]
<1>1. CASE /\ Boleh(g) /\ pc' = [pc EXCEPT ![t] = "kunci"]
           /\ daftar' = [daftar EXCEPT ![t] =
                IF g.aksi \in {"posting", "cair"} THEN Isi[g.dok].alokasi ELSE <<>>]
           /\ UNCHANGED <<kunciVars, dataVars, mulai, tugas, baru, foto, tulis>>
  <2>1. /\ UNCHANGED <<kunciVars, dokumen, statusFaktur, tugas>> /\ pc[t] = "dokumen" /\ Jalan(t)
        /\ pc'[t] = "kunci"
        /\ g.aksi = "posting" => daftar'[t] = Isi[g.dok].alokasi
        /\ \A u \in Sesi : u # t => pc'[u] = pc[u] /\ tugas'[u] = tugas[u] /\ daftar'[u] = daftar[u]
    BY <1>1 DEF PeriksaDokumen, dataVars, IInv, Bentuk
  <2>2. g.dok \in Dokumen /\ MemegangX(t, KDok(g.dok)) /\ Dipenuhi(t, ForUpdate(KDok(g.dok)))
    BY <2>1, Dapat DEF ForUpdate, IInv, InvSesi
  <2>3. g.aksi # "posting" => dokumen[g.dok].status = "POSTED"
    BY <1>1 DEF Boleh
  <2>4. g.aksi = "posting" => daftar'[t] \in Seq(Alokasi)
    BY <2>1, <2>2, TipeAlokasi
  <2>5. KunciSah' /\ (\A u \in Sesi : Lain(u)) /\ MemegangX(t, KDok(g.dok))'
        /\ Dipenuhi(t, ForUpdate(KDok(g.dok)))'
    BY <2>1, <2>2, KunciDiam DEF IInv
  <2>6. InvSesi(t)'
    BY <2>1, <2>2, <2>3, <2>4, <2>5 DEF InvSesi
  <2>7. QED BY <2>1, <2>5, <2>6, LangkahSaja
<1>2. QED BY <1>1, UsaiGagal DEF PeriksaDokumen

LEMMA LangkahKunci ==
  ASSUME IInv, NEW t \in Sesi, KunciFaktur(t)
  PROVE  KunciSah' /\ SemuaTahu'
<1>1. /\ UNCHANGED <<dokumen, statusFaktur, tugas, daftar>> /\ pc[t] = "kunci" /\ Jalan(t)
      /\ pc'[t] = "sisa" /\ daftar[t] # <<>>
      /\ \A u \in Sesi : u # t => pc'[u] = pc[u] /\ tugas'[u] = tugas[u] /\ daftar'[u] = daftar[u]
  BY DEF KunciFaktur, dataVars, IInv, Bentuk
<1>2. PICK p : p = ForUpdate(KFaktur(Head(daftar[t]).faktur))
  OBVIOUS
<1>3. /\ KunciSah' /\ \A u \in Sesi : u # t => Lain(u)
      /\ pegang[t] \subseteq pegang'[t] /\ Dipenuhi(t, p)'
  BY <1>1, <1>2, MintaSah DEF IInv, KunciFaktur
<1>4. Dipenuhi(t, ForUpdate(KFaktur(Head(daftar[t]).faktur)))'
  BY <1>1, <1>2, <1>3 DEF ForUpdate, KFaktur
<1>5. \A k : MemegangX(t, k) => MemegangX(t, k)' /\ Dipenuhi(t, ForUpdate(k))'
  BY <1>3 DEF MemegangX, Dipenuhi, ForUpdate
<1>6. \A a : Dijaga(t, a) => Dijaga(t, a)'
  BY <1>1, <1>5 DEF Dijaga
<1>7. InvSesi(t)'
  BY <1>1, <1>4, <1>5, <1>6 DEF InvSesi, IInv
<1>8. QED BY <1>1, <1>3, <1>7, LangkahSaja

LEMMA LangkahSisa ==
  ASSUME IInv, NEW t \in Sesi, PeriksaSisa(t)
  PROVE  KunciSah' /\ SemuaTahu'
<1> DEFINE a == Head(daftar[t])
<1>1. CASE /\ statusFaktur[a.faktur] = "POSTED"
           /\ daftar' = [daftar EXCEPT ![t] = Tail(@)]
           /\ pc' = [pc EXCEPT ![t] = "kunci"]
           /\ UNCHANGED <<kunciVars, dataVars, mulai, tugas, baru, foto, tulis>>
  <2>1. /\ UNCHANGED <<kunciVars, dokumen, statusFaktur, tugas>> /\ pc[t] = "sisa" /\ Jalan(t)
        /\ pc'[t] = "kunci" /\ daftar'[t] = Tail(daftar[t])
        /\ \A u \in Sesi : u # t => pc'[u] = pc[u] /\ tugas'[u] = tugas[u] /\ daftar'[u] = daftar[u]
    BY <1>1 DEF PeriksaSisa, dataVars, IInv, Bentuk
  <2>2. /\ KunciSah' /\ \A u \in Sesi : Lain(u)
        /\ \A k : MemegangX(t, k)' <=> MemegangX(t, k)
        /\ \A p : Dipenuhi(t, p)' <=> Dipenuhi(t, p)
    BY <2>1, KunciDiam DEF IInv
  <2>3. Dijaga(t, a.faktur)
    BY <1>1, <2>1, Dapat DEF ForUpdate, IInv, InvSesi, Dijaga
  <2>4. \A f : Dijaga(t, f) => Dijaga(t, f)'
    BY <2>1, <2>2 DEF Dijaga
  <2>5. ASSUME tugas[t].aksi = "posting"
        PROVE  /\ daftar'[t] \in Seq(Alokasi)
               /\ \A x \in ToSet(Isi[tugas[t].dok].alokasi) :
                    x \in ToSet(daftar'[t]) \/ Dijaga(t, x.faktur)'
    <3>1. /\ daftar[t] \in Seq(Alokasi) /\ daftar[t] # <<>>
          /\ \A x \in ToSet(Isi[tugas[t].dok].alokasi) :
               x \in ToSet(daftar[t]) \/ Dijaga(t, x.faktur)
      BY <2>1, <2>5 DEF IInv, InvSesi
    <3>2. /\ Tail(daftar[t]) \in Seq(Alokasi)
          /\ \A x \in ToSet(daftar[t]) : x = a \/ x \in ToSet(Tail(daftar[t]))
      BY <3>1, KepalaEkor
    <3>3. QED BY <2>1, <2>3, <2>4, <3>1, <3>2
  <2>6. InvSesi(t)'
    BY <2>1, <2>2, <2>5 DEF InvSesi, IInv
  <2>7. QED BY <2>1, <2>2, <2>6, LangkahSaja
<1>2. QED BY <1>1, UsaiGagal DEF PeriksaSisa
\* Every allocation has been checked when the document is rewritten.
LEMMA LangkahUbah ==
  ASSUME IInv, NEW t \in Sesi, Ubah(t)
  PROVE  KunciSah' /\ SemuaTahu'
<1>1. /\ UNCHANGED <<kunciVars, dokumen, statusFaktur, tugas>> /\ pc[t] = "kunci" /\ Jalan(t)
      /\ pc'[t] = "ulang" /\ daftar[t] = <<>>
      /\ \A u \in Sesi : u # t => pc'[u] = pc[u] /\ tugas'[u] = tugas[u] /\ daftar'[u] = daftar[u]
  BY DEF Ubah, dataVars, IInv, Bentuk
<1>2. /\ KunciSah' /\ \A u \in Sesi : Lain(u)
      /\ \A k : MemegangX(t, k)' <=> MemegangX(t, k)
      /\ \A p : Dipenuhi(t, p)' <=> Dipenuhi(t, p)
  BY <1>1, KunciDiam DEF IInv
<1>3. ToSet(daftar[t]) = {}
  BY <1>1 DEF ToSet
<1>4. tugas[t].aksi = "posting" => DijagaSemua(t)
  BY <1>1, <1>3 DEF IInv, InvSesi, DijagaSemua
<1>5. DijagaSemua(t) => DijagaSemua(t)'
  BY <1>1, <1>2 DEF DijagaSemua, Dijaga
<1>6. InvSesi(t)'
  BY <1>1, <1>2, <1>4, <1>5 DEF InvSesi, IInv
<1>7. QED BY <1>1, <1>2, <1>6, LangkahSaja

LEMMA LangkahUlang ==
  ASSUME IInv, NEW t \in Sesi, HitungUlang(t)
  PROVE  KunciSah' /\ SemuaTahu'
<1>1. /\ UNCHANGED <<dokumen, statusFaktur, tugas, daftar>> /\ pc[t] = "ulang" /\ Jalan(t)
      /\ pc'[t] = "tulis"
      /\ \A u \in Sesi : u # t => pc'[u] = pc[u] /\ tugas'[u] = tugas[u] /\ daftar'[u] = daftar[u]
  BY DEF HitungUlang, dataVars, IInv, Bentuk
<1>2. PICK p : p = ForUpdate(KFaktur(Head(daftar[t])))
  OBVIOUS
<1>3. /\ KunciSah' /\ \A u \in Sesi : u # t => Lain(u)
      /\ pegang[t] \subseteq pegang'[t]
  BY <1>1, <1>2, MintaSah DEF IInv, HitungUlang
<1>4. \A k : MemegangX(t, k) => MemegangX(t, k)' /\ Dipenuhi(t, ForUpdate(k))'
  BY <1>3 DEF MemegangX, Dipenuhi, ForUpdate
<1>5. DijagaSemua(t) => DijagaSemua(t)'
  BY <1>1, <1>4 DEF DijagaSemua, Dijaga
<1>6. InvSesi(t)'
  BY <1>1, <1>4, <1>5 DEF InvSesi, IInv
<1>7. QED BY <1>1, <1>3, <1>6, LangkahSaja

LEMMA LangkahTulis ==
  ASSUME IInv, NEW t \in Sesi, TulisUlang(t)
  PROVE  KunciSah' /\ SemuaTahu'
<1>1. /\ UNCHANGED <<kunciVars, dokumen, statusFaktur, tugas>> /\ pc[t] = "tulis"
      /\ pc'[t] = "ulang"
      /\ \A u \in Sesi : u # t => pc'[u] = pc[u] /\ tugas'[u] = tugas[u] /\ daftar'[u] = daftar[u]
  BY DEF TulisUlang, dataVars, IInv, Bentuk
<1>2. /\ KunciSah' /\ \A u \in Sesi : Lain(u)
      /\ \A k : MemegangX(t, k)' <=> MemegangX(t, k)
      /\ \A p : Dipenuhi(t, p)' <=> Dipenuhi(t, p)
  BY <1>1, KunciDiam DEF IInv
<1>3. DijagaSemua(t) => DijagaSemua(t)'
  BY <1>1, <1>2 DEF DijagaSemua, Dijaga
<1>4. InvSesi(t)'
  BY <1>1, <1>2, <1>3 DEF InvSesi, IInv
<1>5. QED BY <1>1, <1>2, <1>4, LangkahSaja

\* COMMIT: only the document whose row t holds changes.
LEMMA LangkahSelesai ==
  ASSUME IInv, NEW t \in Sesi, Selesai(t)
  PROVE  KunciSah' /\ SemuaTahu' /\ FakturTerjaga'
<1> DEFINE d == tugas[t].dok
<1>1. /\ d \in Dokumen /\ MemegangX(t, KDok(d)) /\ UNCHANGED statusFaktur /\ Bersih(t)
      /\ tugas[t].aksi = "posting" => DijagaSemua(t)
      /\ tugas[t].aksi # "posting" => dokumen[d].status = "POSTED"
  BY DEF Selesai, IInv, InvSesi
<1>2. \A e \in Dokumen : e # d => dokumen'[e] = dokumen[e]
  BY DEF Selesai, IInv, Bentuk
<1>3. \A u \in Sesi : u # t => Utuh(u)
  BY <1>1, <1>2, PemegangTunggal DEF Utuh, IInv
<1>4. \A f \in Faktur : Menunjuk(d, f) => statusFaktur[f] = "POSTED"
  <2>1. CASE tugas[t].aksi = "posting"
    BY <1>1, <2>1 DEF DijagaSemua, Dijaga, Menunjuk
  <2>2. CASE tugas[t].aksi # "posting"
    <3>1. Isi[d].jenis \in Jenis
      BY <1>1, AsumsiFaktur DEF AsumsiFaktur
    <3>2. d \in Posted(dokumen, Jenis)
      BY <1>1, <2>2, <3>1 DEF Posted
    <3>3. QED BY <3>2 DEF IInv, FakturTerjaga
  <2>3. QED BY <2>1, <2>2
<1>5. FakturTerjaga'
  BY <1>1, <1>2, <1>4 DEF IInv, FakturTerjaga, Posted
<1>6. QED BY <1>1, <1>3, <1>5, Usai

\* A cancellation: nobody else holds the purchase, and nothing POSTED is of it.
LEMMA LangkahBatalFaktur ==
  ASSUME IInv, NEW t \in Sesi, BatalFaktur(t)
  PROVE  KunciSah' /\ SemuaTahu' /\ FakturTerjaga'
<1> DEFINE f == tugas[t].faktur
<1>1. CASE /\ ~Terkait(f) /\ statusFaktur' = [statusFaktur EXCEPT ![f] = "BATAL"]
           /\ Bersih(t) /\ UNCHANGED dokumen
  <2>1. f \in Faktur /\ MemegangX(t, KFaktur(f))
    BY Dapat DEF ForUpdate, BatalFaktur, IInv, InvSesi
  <2>2. \A h \in Faktur : h # f => statusFaktur'[h] = statusFaktur[h]
    BY <1>1 DEF IInv, Bentuk
  <2>3. \A u \in Sesi : u # t => Utuh(u)
    BY <1>1, <2>1, <2>2, PemegangTunggal DEF Utuh, IInv
  <2>4. FakturTerjaga'
    BY <1>1, <2>2 DEF IInv, FakturTerjaga, Terkait, Posted
  <2>5. QED BY <1>1, <2>3, <2>4, Usai
<1>2. CASE Gagal(t)
  BY <1>2, UsaiGagal DEF Gagal, dataVars, IInv, FakturTerjaga, Posted
<1>3. QED BY <1>1, <1>2 DEF BatalFaktur

\* Submitting and rejecting: nobody holds the row, and it is not POSTED.
LEMMA LangkahPindah ==
  ASSUME IInv, NEW d \in Dokumen, Ajukan(d) \/ Tolak(d)
  PROVE  KunciSah' /\ SemuaTahu' /\ FakturTerjaga'
<1>1. PICK ke \in {"DIAJUKAN", "DRAFT"} :
        dokumen' = [dokumen EXCEPT ![d].status = ke]
  BY DEF Ajukan, Tolak, Pindah
<1>2. /\ UNCHANGED <<kunciVars, statusFaktur, pc, tugas, daftar>>
      /\ dokumen[d].status # "POSTED" /\ dokumen[d].status \in {"DIAJUKAN", "DRAFT"}
      /\ \A t \in Sesi : \A q \in pegang[t] : q.kunci # KDok(d)
  BY DEF Ajukan, Tolak, Pindah
<1>3. \A e \in Dokumen : e # d => dokumen'[e] = dokumen[e]
  BY <1>1 DEF IInv, Bentuk
<1>4. dokumen'[d].status # "POSTED"
  <2>1. dokumen'[d] = [dokumen[d] EXCEPT !.status = ke]
    BY <1>1 DEF IInv, Bentuk
  <2>2. CASE "status" \in DOMAIN dokumen[d]
    BY <2>1, <2>2
  <2>3. CASE "status" \notin DOMAIN dokumen[d]
    BY <1>2, <2>1, <2>3
  <2>4. QED BY <2>2, <2>3
<1>5. \A t \in Sesi : Utuh(t)
  BY <1>2, <1>3 DEF Utuh, MemegangX
<1>6. KunciSah' /\ \A t \in Sesi : Lain(t)
  BY <1>2, KunciDiam DEF IInv
<1>7. SemuaTahu'
  BY <1>2, <1>5, <1>6, SesiLain DEF IInv, SemuaTahu
<1>8. FakturTerjaga'
  BY <1>2, <1>3, <1>4 DEF IInv, FakturTerjaga, Posted
<1>9. QED BY <1>6, <1>7, <1>8
-----------------------------------------------------------------------------
(* The theorem.                                                            *)

LEMMA BentukTetap ==
  ASSUME Bentuk, [Next]_vars
  PROVE  Bentuk'
<1>1. ASSUME NEW t \in Sesi, Bersih(t)
      PROVE  /\ DOMAIN pc' = DOMAIN pc /\ DOMAIN tugas' = DOMAIN tugas
             /\ DOMAIN daftar' = DOMAIN daftar
  BY <1>1 DEF Bersih
<1>2. ASSUME NEW t \in Sesi, Gagal(t) PROVE Bentuk'
  BY <1>1, <1>2 DEF Gagal, dataVars, Bentuk
<1>3. ASSUME NEW t \in Sesi, Mulai(t) PROVE Bentuk'
  BY <1>3 DEF Mulai, dataVars, Bentuk
<1>4. ASSUME NEW t \in Sesi, PeriksaDokumen(t) PROVE Bentuk'
  BY <1>2, <1>4 DEF PeriksaDokumen, dataVars, Bentuk
<1>5. ASSUME NEW t \in Sesi, KunciFaktur(t) \/ Ubah(t) \/ HitungUlang(t) \/ TulisUlang(t)
      PROVE  Bentuk'
  BY <1>5 DEF KunciFaktur, Ubah, HitungUlang, TulisUlang, dataVars, Bentuk
<1>6. ASSUME NEW t \in Sesi, PeriksaSisa(t) PROVE Bentuk'
  BY <1>2, <1>6 DEF PeriksaSisa, dataVars, Bentuk
<1>7. ASSUME NEW t \in Sesi, Selesai(t) PROVE Bentuk'
  BY <1>1, <1>7 DEF Selesai, Bentuk
<1>8. ASSUME NEW t \in Sesi, BatalFaktur(t) PROVE Bentuk'
  BY <1>1, <1>2, <1>8 DEF BatalFaktur, Bentuk
<1>9. ASSUME NEW d \in Dokumen, Ajukan(d) \/ Tolak(d) PROVE Bentuk'
  BY <1>9 DEF Ajukan, Tolak, Pindah, Bentuk
<1>10. CASE UNCHANGED vars
  BY <1>10 DEF vars, dataVars, Bentuk
<1>11. QED
  BY <1>2, <1>3, <1>4, <1>5, <1>6, <1>7, <1>8, <1>9, <1>10 DEF Next, Langkah, Putus, Diam

LEMMA AwalBenar == Init => IInv
<1> SUFFICES ASSUME Init PROVE IInv
  OBVIOUS
<1>1. Bentuk
  BY DEF Init, DokumenAwal, Bentuk
<1>2. KunciSah
  <2>1. TipeKunci({})
    BY DEF Init, InitKunci, TipeKunci
  <2>2. KunciBenar
    BY DEF Init, InitKunci, KunciBenar, Eksklusif, AntreanUrut
  <2>3. QED BY <2>1, <2>2 DEF KunciSah
<1>3. FakturTerjaga
  BY DEF Init, FakturTerjaga
<1>4. \A t \in Sesi : InvSesi(t)
  BY DEF Init, InitKunci, InvSesi, Jalan
<1>5. QED BY <1>1, <1>2, <1>3, <1>4 DEF IInv

LEMMA Induktif == IInv /\ [Next]_vars => IInv'
<1> SUFFICES ASSUME IInv, [Next]_vars PROVE IInv'
  OBVIOUS
<1> DEFINE Hasil == KunciSah' /\ SemuaTahu' /\ FakturTerjaga'
<1>1. ASSUME UNCHANGED <<dokumen, statusFaktur>> PROVE FakturTerjaga'
  BY <1>1 DEF IInv, FakturTerjaga, Posted
<1>2. ASSUME NEW t \in Sesi, Putus(t) PROVE Hasil
  BY <1>1, <1>2, UsaiGagal DEF Putus, Gagal, dataVars
<1>3. ASSUME NEW t \in Sesi, Mulai(t) PROVE Hasil
  BY <1>1, <1>3, LangkahMulai DEF Mulai, dataVars
<1>4. ASSUME NEW t \in Sesi, PeriksaDokumen(t) PROVE Hasil
  BY <1>1, <1>4, LangkahPeriksa DEF PeriksaDokumen, Gagal, dataVars
<1>5. ASSUME NEW t \in Sesi, KunciFaktur(t) PROVE Hasil
  BY <1>1, <1>5, LangkahKunci DEF KunciFaktur, dataVars
<1>6. ASSUME NEW t \in Sesi, PeriksaSisa(t) PROVE Hasil
  BY <1>1, <1>6, LangkahSisa DEF PeriksaSisa, Gagal, dataVars
<1>7. ASSUME NEW t \in Sesi, Ubah(t) PROVE Hasil
  BY <1>1, <1>7, LangkahUbah DEF Ubah, dataVars
<1>8. ASSUME NEW t \in Sesi, HitungUlang(t) PROVE Hasil
  BY <1>1, <1>8, LangkahUlang DEF HitungUlang, dataVars
<1>9. ASSUME NEW t \in Sesi, TulisUlang(t) PROVE Hasil
  BY <1>1, <1>9, LangkahTulis DEF TulisUlang, dataVars
<1>10. ASSUME NEW t \in Sesi, Selesai(t) PROVE Hasil
  BY <1>10, LangkahSelesai
<1>11. ASSUME NEW t \in Sesi, BatalFaktur(t) PROVE Hasil
  BY <1>11, LangkahBatalFaktur
<1>12. ASSUME NEW d \in Dokumen, Ajukan(d) \/ Tolak(d) PROVE Hasil
  BY <1>12, LangkahPindah
<1>13. ASSUME UNCHANGED vars PROVE Hasil
  <2>1. UNCHANGED <<kunciVars, dokumen, statusFaktur, pc, tugas, daftar>>
    BY <1>13 DEF vars, dataVars
  <2>2. \A t \in Sesi : Utuh(t)
    BY <2>1 DEF Utuh
  <2>3. KunciSah' /\ \A t \in Sesi : Lain(t)
    BY <2>1, KunciDiam DEF IInv
  <2>4. SemuaTahu'
    BY <2>1, <2>2, <2>3, SesiLain DEF IInv, SemuaTahu
  <2>5. QED BY <1>1, <2>1, <2>3, <2>4
<1>14. Hasil
  BY <1>2, <1>3, <1>4, <1>5, <1>6, <1>7, <1>8, <1>9, <1>10, <1>11, <1>12, <1>13
    DEF Next, Langkah, Diam
<1>15. QED BY <1>14, BentukTetap DEF IInv, SemuaTahu

\* Whatever the purchases and documents are and however many sessions run: a
\* POSTED payment, receipt or return always belongs to a POSTED purchase.
THEOREM FakturSelaluTerjaga == Spec => []FakturTerjaga
<1>1. IInv => FakturTerjaga
  BY DEF IInv
<1>2. QED BY <1>1, AwalBenar, Induktif, PTL DEF Spec

-----------------------------------------------------------------------------
(* What the sums are: of all documents, those that do not count add 0.     *)
Bobot(S, e, f) == IF e \in S THEN Bagian[e][f] ELSE 0

Kredit(D, e, f) == IF e \in Posted(D, {"retur"}) /\ Menunjuk(e, f) THEN D[e].kredit ELSE 0

\* What a document says of a purchase: its line, when it has one.
LEMMA BagianBenar ==
  ASSUME NEW d \in Dokumen, NEW f \in Faktur
  PROVE  /\ Bagian[d][f] \in Nat
         /\ ~Menunjuk(d, f) => Bagian[d][f] = 0
         /\ \A a \in ToSet(Isi[d].alokasi) : a.faktur = f => Bagian[d][f] = a.jumlah
<1> DEFINE T == {x \in ToSet(Isi[d].alokasi) : x.faktur = f}
<1> DEFINE S == {a.jumlah : a \in T}
<1>1. Bagian[d][f] = SumSet(S)
  BY DEF Bagian
<1>2. /\ IsFiniteSet(ToSet(Isi[d].alokasi)) /\ ToSet(Isi[d].alokasi) \subseteq Alokasi
      /\ \A a \in ToSet(Isi[d].alokasi) : a.jumlah \in Nat /\ a.jumlah \in Int
  <2>1. Isi[d].alokasi \in Seq(Alokasi)
    BY TipeAlokasi
  <2>2. IsFiniteSet(ToSet(Isi[d].alokasi)) /\ ToSet(Isi[d].alokasi) \subseteq Alokasi
    BY <2>1, ToSetTerhingga
  <2>3. \A a \in Alokasi : a.jumlah \in Nat /\ a.jumlah \in Int
    BY DEF Alokasi
  <2>4. QED BY <2>2, <2>3
<1>3. S \in SUBSET Nat /\ IsFiniteSet(S)
  <2> DEFINE j == [a \in T |-> a.jumlah]
  <2>1. IsFiniteSet(T)
    BY <1>2, FS_Subset
  <2>2. IsFiniteSet({j[x] : x \in T})
    BY <2>1, Citra
  <2>3. {j[x] : x \in T} = S
    OBVIOUS
  <2>4. QED BY <1>2, <2>2, <2>3
<1>4. Bagian[d][f] \in Nat
  BY <1>1, <1>3, SumSetAlami
<1>5. ASSUME ~Menunjuk(d, f) PROVE Bagian[d][f] = 0
  <2>1. S = {}
    BY <1>5 DEF Menunjuk
  <2>2. QED BY <1>1, <2>1, SumSetKecil
<1>6. ASSUME NEW a \in ToSet(Isi[d].alokasi), a.faktur = f PROVE Bagian[d][f] = a.jumlah
  <2>1. IsInjective([i \in DOMAIN Isi[d].alokasi |-> Isi[d].alokasi[i].faktur])
    BY AsumsiFaktur DEF AsumsiFaktur
  <2>2. \A x \in T : x = a
    BY <1>6, <2>1 DEF IsInjective, ToSet
  <2>3. S = {a.jumlah}
    BY <1>6, <2>2
  <2>4. QED BY <1>1, <1>2, <2>3, SumSetKecil
<1>7. QED BY <1>4, <1>5, <1>6

LEMMA BobotAlami ==
  ASSUME NEW S, NEW e \in Dokumen, NEW f \in Faktur
  PROVE  Bobot(S, e, f) \in Nat
BY BagianBenar DEF Bobot

LEMMA JumlahBobot ==
  ASSUME NEW S \in SUBSET Dokumen, NEW f \in Faktur
  PROVE  JumlahBagian(S, f) = Jml([e \in Dokumen |-> Bobot(S, e, f)], Dokumen)
<1> DEFINE h == [e \in Dokumen |-> Bobot(S, e, f)]
<1> DEFINE G == CHOOSE G : G = [s \in SUBSET S |-> IF s = {} THEN 0
                   ELSE Bagian[CHOOSE x \in s : TRUE][f] + G[s \ {CHOOSE x \in s : TRUE}]]
<1>0. IsFiniteSet(S) /\ IsFiniteSet(Dokumen)
  BY AsumsiFaktur, FS_Subset DEF AsumsiFaktur
<1>1. PICK F : Menjumlah(F, h, SUBSET S)
  BY <1>0, PenjumlahAda
<1>2. \A s \in SUBSET S : s # {} => h[Ambil(s)] = Bagian[CHOOSE x \in s : TRUE][f]
  <2>1. \A e \in S : h[e] = Bagian[e][f]
    BY DEF Bobot
  <2>2. QED BY <2>1, Ambilan DEF Ambil
<1>3. JumlahBagian(S, f) = G[S]
  BY DEF JumlahBagian, MapThenSumSet, MapThenFoldSet
<1>4. /\ \A e \in Dokumen : h[e] \in Int
      /\ \A e \in Dokumen \ S : h[e] = 0
  BY BobotAlami DEF Bobot
<1> HIDE DEF h
<1>5. F = [s \in SUBSET S |-> IF s = {} THEN 0
             ELSE Bagian[CHOOSE x \in s : TRUE][f] + F[s \ {CHOOSE x \in s : TRUE}]]
  BY <1>1, <1>2 DEF Ambil, Menjumlah
<1>6. G = [s \in SUBSET S |-> IF s = {} THEN 0
             ELSE Bagian[CHOOSE x \in s : TRUE][f] + G[s \ {CHOOSE x \in s : TRUE}]]
  BY <1>5
<1> HIDE DEF G
<1>7. Menjumlah(G, h, SUBSET S)
  BY <1>6, <1>2 DEF Menjumlah, Ambil
<1>8. Jml(h, S) = G[S]
  BY <1>0, <1>7, JmlAdalah
<1>9. Jml(h, S) = Jml(h, Dokumen)
  BY <1>0, <1>4, JmlSempit
<1>10. QED BY <1>3, <1>8, <1>9 DEF h

\* Two sums that agree on every document but d differ by what d adds.
LEMMA JumlahPisah ==
  ASSUME NEW S \in SUBSET Dokumen, NEW T \in SUBSET Dokumen, NEW f \in Faktur, NEW d \in Dokumen,
         \A e \in Dokumen \ {d} : Menunjuk(e, f) => (e \in S <=> e \in T)
  PROVE  /\ JumlahBagian(S, f) \in Nat /\ JumlahBagian(T, f) \in Nat
         /\ JumlahBagian(T, f) + Bobot(S, d, f) = JumlahBagian(S, f) + Bobot(T, d, f)
<1> DEFINE h == [e \in Dokumen |-> Bobot(S, e, f)]
<1> DEFINE k == [e \in Dokumen |-> Bobot(T, e, f)]
<1>0. IsFiniteSet(Dokumen) /\ IsFiniteSet(Dokumen \ {d})
  BY AsumsiFaktur, FS_Subset DEF AsumsiFaktur
<1>1. \A e \in Dokumen : h[e] \in Nat /\ k[e] \in Nat /\ h[e] \in Int /\ k[e] \in Int
  BY BobotAlami
<1>2. \A e \in Dokumen \ {d} : h[e] = k[e]
  BY BagianBenar DEF Bobot
<1>3. JumlahBagian(S, f) = Jml(h, Dokumen) /\ JumlahBagian(T, f) = Jml(k, Dokumen)
  BY JumlahBobot
<1>4. h[d] = Bobot(S, d, f) /\ k[d] = Bobot(T, d, f)
  OBVIOUS
<1> HIDE DEF h, k
<1>5. Jml(h, Dokumen) \in Nat /\ Jml(k, Dokumen) \in Nat
  BY <1>0, <1>1, JmlAlami
<1>6. /\ Jml(h, Dokumen) = h[d] + Jml(h, Dokumen \ {d})
      /\ Jml(k, Dokumen) = k[d] + Jml(k, Dokumen \ {d})
  BY <1>0, <1>1, JmlAmbil
<1>7. Jml(h, Dokumen \ {d}) = Jml(k, Dokumen \ {d}) /\ Jml(h, Dokumen \ {d}) \in Int
  <2>1. Jml(h, Dokumen \ {d}) = Jml(k, Dokumen \ {d})
    BY <1>0, <1>2, JmlSama
  <2>2. Jml(h, Dokumen \ {d}) \in Int
    BY <1>0, <1>1, JmlBulat
  <2>3. QED BY <2>1, <2>2
<1>8. QED BY <1>1, <1>3, <1>4, <1>5, <1>6, <1>7

LEMMA KreditAlami ==
  ASSUME NEW D \in [Dokumen -> RekamDok], NEW e \in Dokumen, NEW f
  PROVE  Kredit(D, e, f) \in Nat
BY DEF Kredit, RekamDok

LEMMA KreditJumlah ==
  ASSUME NEW D \in [Dokumen -> RekamDok], NEW f \in Faktur
  PROVE  KreditRetur(D, f) = Jml([e \in Dokumen |-> Kredit(D, e, f)], Dokumen)
<1> DEFINE S == {e \in Posted(D, {"retur"}) : Menunjuk(e, f)}
<1> DEFINE h == [e \in Dokumen |-> Kredit(D, e, f)]
<1> DEFINE G == CHOOSE G : G = [s \in SUBSET S |-> IF s = {} THEN 0
                   ELSE D[CHOOSE x \in s : TRUE].kredit + G[s \ {CHOOSE x \in s : TRUE}]]
<1>0. IsFiniteSet(S) /\ IsFiniteSet(Dokumen) /\ S \in SUBSET Dokumen
  BY AsumsiFaktur, FS_Subset DEF AsumsiFaktur, Posted
<1>1. PICK F : Menjumlah(F, h, SUBSET S)
  BY <1>0, PenjumlahAda
<1>2. \A s \in SUBSET S : s # {} => h[Ambil(s)] = D[CHOOSE x \in s : TRUE].kredit
  <2>1. \A e \in S : h[e] = D[e].kredit
    BY <1>0 DEF Kredit
  <2>2. QED BY <2>1, Ambilan DEF Ambil
<1>3. KreditRetur(D, f) = G[S]
  BY DEF KreditRetur, MapThenSumSet, MapThenFoldSet
<1>4. /\ \A e \in Dokumen : h[e] \in Int
      /\ \A e \in Dokumen \ S : h[e] = 0
  BY KreditAlami DEF Kredit
<1> HIDE DEF h, S
<1>5. F = [s \in SUBSET S |-> IF s = {} THEN 0
             ELSE D[CHOOSE x \in s : TRUE].kredit + F[s \ {CHOOSE x \in s : TRUE}]]
  BY <1>1, <1>2 DEF Ambil, Menjumlah
<1>6. G = [s \in SUBSET S |-> IF s = {} THEN 0
             ELSE D[CHOOSE x \in s : TRUE].kredit + G[s \ {CHOOSE x \in s : TRUE}]]
  BY <1>5
<1> HIDE DEF G
<1>7. Menjumlah(G, h, SUBSET S)
  BY <1>6, <1>2 DEF Menjumlah, Ambil
<1>8. Jml(h, S) = G[S]
  BY <1>0, <1>7, JmlAdalah
<1>9. Jml(h, S) = Jml(h, Dokumen)
  BY <1>0, <1>4, JmlSempit
<1>10. QED BY <1>3, <1>8, <1>9 DEF h

LEMMA KreditPisah ==
  ASSUME NEW D \in [Dokumen -> RekamDok], NEW E \in [Dokumen -> RekamDok], NEW f \in Faktur,
         NEW d \in Dokumen, \A e \in Dokumen \ {d} : Kredit(E, e, f) = Kredit(D, e, f)
  PROVE  /\ KreditRetur(D, f) \in Nat /\ KreditRetur(E, f) \in Nat
         /\ KreditRetur(E, f) + Kredit(D, d, f) = KreditRetur(D, f) + Kredit(E, d, f)
<1> DEFINE h == [e \in Dokumen |-> Kredit(D, e, f)]
<1> DEFINE k == [e \in Dokumen |-> Kredit(E, e, f)]
<1>0. IsFiniteSet(Dokumen) /\ IsFiniteSet(Dokumen \ {d})
  BY AsumsiFaktur, FS_Subset DEF AsumsiFaktur
<1>1. \A e \in Dokumen : h[e] \in Nat /\ k[e] \in Nat /\ h[e] \in Int /\ k[e] \in Int
  BY KreditAlami
<1>2. \A e \in Dokumen \ {d} : h[e] = k[e]
  OBVIOUS
<1>3. KreditRetur(D, f) = Jml(h, Dokumen) /\ KreditRetur(E, f) = Jml(k, Dokumen)
  BY KreditJumlah
<1>4. h[d] = Kredit(D, d, f) /\ k[d] = Kredit(E, d, f)
  OBVIOUS
<1> HIDE DEF h, k
<1>5. Jml(h, Dokumen) \in Nat /\ Jml(k, Dokumen) \in Nat
  BY <1>0, <1>1, JmlAlami
<1>6. /\ Jml(h, Dokumen) = h[d] + Jml(h, Dokumen \ {d})
      /\ Jml(k, Dokumen) = k[d] + Jml(k, Dokumen \ {d})
  BY <1>0, <1>1, JmlAmbil
<1>7. Jml(h, Dokumen \ {d}) = Jml(k, Dokumen \ {d}) /\ Jml(h, Dokumen \ {d}) \in Int
  <2>1. Jml(h, Dokumen \ {d}) = Jml(k, Dokumen \ {d})
    BY <1>0, <1>2, JmlSama
  <2>2. Jml(h, Dokumen \ {d}) \in Int
    BY <1>0, <1>1, JmlBulat
  <2>3. QED BY <2>1, <2>2
<1>8. QED BY <1>1, <1>3, <1>4, <1>5, <1>6, <1>7

\* Two sums that agree on every document are the same.
LEMMA JumlahSama ==
  ASSUME NEW S \in SUBSET Dokumen, NEW T \in SUBSET Dokumen, NEW f \in Faktur, NEW d \in Dokumen,
         \A e \in Dokumen : Menunjuk(e, f) => (e \in S <=> e \in T)
  PROVE  JumlahBagian(S, f) \in Nat /\ JumlahBagian(T, f) = JumlahBagian(S, f)
<1>1. /\ JumlahBagian(S, f) \in Nat /\ JumlahBagian(T, f) \in Nat
      /\ JumlahBagian(T, f) + Bobot(S, d, f) = JumlahBagian(S, f) + Bobot(T, d, f)
  BY JumlahPisah
<1>2. Bobot(S, d, f) = Bobot(T, d, f) /\ Bobot(S, d, f) \in Nat
  BY BagianBenar DEF Bobot
<1>3. QED BY <1>1, <1>2

-----------------------------------------------------------------------------
(* Rows that say the same of a purchase.                                   *)
Terbuka == {"DRAFT", "DIAJUKAN"}

\* What the rows D and E say of the purchase f is the same.
Setara(D, E, f) ==
  \A e \in Dokumen : Menunjuk(e, f) =>
    D[e] = E[e] \/ (D[e].status \in Terbuka /\ E[e].status \in Terbuka)

LEMMA SetaraSama ==
  ASSUME NEW D \in [Dokumen -> RekamDok], NEW E \in [Dokumen -> RekamDok], NEW f \in Faktur,
         NEW d \in Dokumen, Setara(D, E, f)
  PROVE  /\ AlokasiEfektif(E, f) = AlokasiEfektif(D, f)
         /\ JumlahBagian(Berlaku(E) \ {d}, f) = JumlahBagian(Berlaku(D) \ {d}, f)
         /\ Susulan(E, f) = Susulan(D, f) /\ Retur(E, f) = Retur(D, f)
         /\ KreditRetur(E, f) = KreditRetur(D, f)
         /\ StatusPembayaran(E, f) = StatusPembayaran(D, f)
         /\ StatusPenerimaan(E, f) = StatusPenerimaan(D, f)
<1>1. \A e \in Dokumen : Menunjuk(e, f) =>
        /\ \A jenis : e \in Posted(D, jenis) <=> e \in Posted(E, jenis)
        /\ e \in Berlaku(D) <=> e \in Berlaku(E)
  BY DEF Setara, Terbuka, Posted, Berlaku
<1>2. /\ Berlaku(D) \in SUBSET Dokumen /\ Berlaku(E) \in SUBSET Dokumen
      /\ Berlaku(D) \ {d} \in SUBSET Dokumen /\ Berlaku(E) \ {d} \in SUBSET Dokumen
      /\ \A jenis : Posted(D, jenis) \in SUBSET Dokumen /\ Posted(E, jenis) \in SUBSET Dokumen
  BY DEF Posted, Berlaku
<1>3. AlokasiEfektif(E, f) = AlokasiEfektif(D, f)
  BY <1>1, <1>2, JumlahSama DEF AlokasiEfektif
<1>4. JumlahBagian(Berlaku(E) \ {d}, f) = JumlahBagian(Berlaku(D) \ {d}, f)
  <2>1. \A e \in Dokumen : Menunjuk(e, f) => (e \in Berlaku(D) \ {d} <=> e \in Berlaku(E) \ {d})
    BY <1>1
  <2>2. QED BY <1>2, <2>1, JumlahSama
<1>5. Susulan(E, f) = Susulan(D, f) /\ Retur(E, f) = Retur(D, f)
  BY <1>1, <1>2, JumlahSama DEF Susulan, Retur
<1>6. KreditRetur(E, f) = KreditRetur(D, f)
  <2>1. \A e \in Dokumen : Kredit(E, e, f) = Kredit(D, e, f)
    BY DEF Kredit, Setara, Terbuka, Posted
  <2>2. QED BY <2>1, KreditJumlah
<1>7. QED BY <1>3, <1>4, <1>5, <1>6 DEF StatusPembayaran, StatusPenerimaan

\* So they do once a document has the same row in both.
LEMMA SetaraGanti ==
  ASSUME NEW D \in [Dokumen -> RekamDok], NEW E \in [Dokumen -> RekamDok], NEW f \in Faktur,
         NEW d \in Dokumen, NEW b \in RekamDok, Setara(D, E, f)
  PROVE  /\ [D EXCEPT ![d] = b] \in [Dokumen -> RekamDok]
         /\ [E EXCEPT ![d] = b] \in [Dokumen -> RekamDok]
         /\ Setara([D EXCEPT ![d] = b], [E EXCEPT ![d] = b], f)
BY DEF Setara

\* A credit is a number, and depends on what the others say only.
LEMMA KreditTipe ==
  ASSUME NEW D \in [Dokumen -> RekamDok], NEW d \in Dokumen, NEW f \in Faktur, NEW q \in Nat
  PROVE  /\ HitungKredit(D, d, f, q) \in Nat
         /\ KreditRetur([D EXCEPT ![d].status = "DIAJUKAN"], f) \in Nat
         /\ KreditRetur([D EXCEPT ![d].status = "DIAJUKAN"], f) <= NilaiFaktur[f].total =>
              HitungKredit(D, d, f, q) + KreditRetur([D EXCEPT ![d].status = "DIAJUKAN"], f)
                <= NilaiFaktur[f].total
<1> DEFINE E == [D EXCEPT ![d].status = "DIAJUKAN"]
<1>1. E \in [Dokumen -> RekamDok]
  BY DEF RekamDok, StatusDok
<1>2. KreditRetur(E, f) \in Nat
  BY <1>1, KreditPisah
<1>3. NilaiFaktur[f].total \in Nat /\ NilaiFaktur[f].qty \in Nat \ {0}
  BY AsumsiFaktur DEF AsumsiFaktur
<1> DEFINE bagian == (2 * NilaiFaktur[f].total * q + NilaiFaktur[f].qty) \div (2 * NilaiFaktur[f].qty)
<1> DEFINE sisa == NilaiFaktur[f].total - KreditRetur(E, f)
<1>4. bagian \in Nat
  <2>1. \A x \in Nat, y \in Nat \ {0} : x \div y \in Nat
    OBVIOUS
  <2>2. 2 * NilaiFaktur[f].qty \in Nat \ {0}
    BY <1>3
  <2>3. 2 * NilaiFaktur[f].total * q + NilaiFaktur[f].qty \in Nat
    BY <1>3
  <2>4. QED BY <2>1, <2>2, <2>3
<1>5. sisa \in Int
  BY <1>2, <1>3
<1>6. HitungKredit(D, d, f, q) = Min({bagian, Max({sisa, 0})})
  BY DEF HitungKredit
<1> HIDE DEF E, bagian, sisa
<1>7. PICK m : m = Max({sisa, 0})
  OBVIOUS
<1>8. m \in {sisa, 0} /\ m >= sisa /\ m >= 0
  BY <1>5, <1>7 DEF Max
<1>9. PICK k : k = Min({bagian, m})
  OBVIOUS
<1>10. k \in {bagian, m} /\ k <= bagian /\ k <= m
  BY <1>4, <1>5, <1>8, <1>9 DEF Min
<1>11. HitungKredit(D, d, f, q) = k
  BY <1>6, <1>7, <1>9
<1>12. k \in Nat
  BY <1>4, <1>5, <1>8, <1>10
<1>13. KreditRetur(E, f) <= NilaiFaktur[f].total => k + KreditRetur(E, f) <= NilaiFaktur[f].total
  BY <1>2, <1>3, <1>5, <1>8, <1>10, <1>12 DEF sisa
<1>14. QED BY <1>2, <1>11, <1>12, <1>13 DEF E

-----------------------------------------------------------------------------
(* Amounts.  What a session knows of what is left of its purchases.        *)
Menerima(t) == tugas[t].aksi \in {"posting", "cair"}

\* t has checked the allocation a and still holds its purchase.
Terjamin(t, a) == MemegangX(t, KFaktur(a.faktur)) /\ a.jumlah <= Sisa(tugas[t].dok, a.faktur)

NilaiUntuk(d) ==
  IF Isi[d].jenis = "susulan" THEN {"KURANG", "LENGKAP"} ELSE {"BELUM", "SEBAGIAN", "LUNAS"}

\* What the cache of f has to be in the rows D after a commit of d.
NilaiCacheDi(D, d, f) ==
  IF Isi[d].jenis = "susulan" THEN StatusPenerimaan(D, f) ELSE StatusPembayaran(D, f)

\* ... once t has committed.
NilaiBaru(t, f) == NilaiCacheDi([dokumen EXCEPT ![tugas[t].dok] = baru[t]], tugas[t].dok, f)

TahuDokumen(t) ==
  LET g == tugas[t] IN
  g.aksi # "batal_faktur" /\ MemegangX(t, KDok(g.dok)) /\ Boleh(g)

TahuSisa(t) ==
  /\ daftar[t] \in Seq(Alokasi)
  /\ Menerima(t) => \A a \in ToSet(Isi[tugas[t].dok].alokasi) :
                      a \in ToSet(daftar[t]) \/ Terjamin(t, a)

TulisanBenar(t, w) ==
  /\ w \in [faktur : Faktur, nilai : NilaiUntuk(tugas[t].dok)]
  /\ MemegangX(t, KFaktur(w.faktur))
  /\ Menerima(t) => w.nilai = NilaiBaru(t, w.faktur)

TahuUlang(t) ==
  LET d == tugas[t].dok IN
  /\ daftar[t] \in Seq(Faktur) /\ \A f \in ToSet(daftar[t]) : Menunjuk(d, f)
  /\ baru[t] = RekamBaru(tugas[t])
  /\ Menerima(t) => \A a \in ToSet(Isi[d].alokasi) : Terjamin(t, a)
  /\ \A f \in Faktur : Menunjuk(d, f) => f \in ToSet(daftar[t]) \/ \E w \in tulis[t] : w.faktur = f
  /\ \A w \in tulis[t] : TulisanBenar(t, w)

TahuTulis(t) ==
  LET f == Head(daftar[t]) IN
  /\ daftar[t] # <<>> /\ Dipenuhi(t, ForUpdate(KFaktur(f)))
  /\ foto[t] \in NilaiUntuk(tugas[t].dok)
  /\ Menerima(t) => foto[t] = NilaiBaru(t, f)

Tahu(t) ==
  LET g == tugas[t] IN
  /\ pc[t] \in {"idle", "dokumen", "faktur", "kunci", "sisa", "ulang", "tulis"}
  /\ pc[t] = "idle" => g = Menganggur
  /\ pc[t] # "idle" => g \in Tugas
  /\ pc[t] = "dokumen" => g.aksi # "batal_faktur"
  /\ pc[t] \in {"idle", "dokumen", "faktur"} => daftar[t] = <<>>
  /\ pc[t] \notin {"ulang", "tulis"} => baru[t] = Kosong /\ tulis[t] = {}
  /\ pc[t] # "tulis" => foto[t] = ""
  /\ pc[t] \in {"kunci", "sisa", "ulang", "tulis"} => TahuDokumen(t)
  /\ pc[t] \in {"kunci", "sisa"} => TahuSisa(t)
  /\ pc[t] \in {"ulang", "tulis"} => TahuUlang(t)
  /\ pc[t] = "tulis" => TahuTulis(t)

TipeDok ==
  /\ dokumen \in [Dokumen -> RekamDok]
  /\ \A d \in Dokumen : Isi[d].jenis # "giro" <=> dokumen[d].giro = "TANPA"

TipeBaris ==
  /\ statusFaktur \in [Faktur -> {"POSTED", "BATAL"}] /\ mulai \in Nat
  /\ bayar \in [Faktur -> {"BELUM", "SEBAGIAN", "LUNAS"}]
  /\ terima \in [Faktur -> {"KURANG", "LENGKAP"}]

TipeSesi ==
  /\ pc = [t \in Sesi |-> pc[t]]
  /\ tugas = [t \in Sesi |-> tugas[t]]
  /\ daftar = [t \in Sesi |-> daftar[t]]
  /\ baru = [t \in Sesi |-> baru[t]]
  /\ foto = [t \in Sesi |-> foto[t]]
  /\ tulis = [t \in Sesi |-> tulis[t]]

Tercukupi == \A f \in Faktur : NilaiFaktur[f].terima + Susulan(dokumen, f) <= NilaiFaktur[f].qty

-----------------------------------------------------------------------------
\* What u holds says what it said.
Tenang(u) ==
  /\ \A f \in Faktur : MemegangX(u, KFaktur(f)) => Setara(dokumen, dokumen', f)
  /\ \A d \in Dokumen : MemegangX(u, KDok(d)) => dokumen'[d] = dokumen[d]

Di(u) ==
  /\ pc'[u] = pc[u] /\ tugas'[u] = tugas[u] /\ daftar'[u] = daftar[u]
  /\ baru'[u] = baru[u] /\ foto'[u] = foto[u] /\ tulis'[u] = tulis[u]

LEMMA TugasDok ==
  ASSUME NEW g \in Tugas, g.aksi # "batal_faktur"
  PROVE  /\ g.dok \in Dokumen /\ g.aksi \in {"posting", "batal", "cair", "tolak"}
         /\ g.aksi \in {"cair", "tolak"} => Isi[g.dok].jenis \in Pembayaran
BY DEF Tugas

\* A receipt and a return have one line.
LEMMA SatuBaris ==
  ASSUME NEW d \in Dokumen
  PROVE  /\ Isi[d].jenis \in Jenis
         /\ Isi[d].jenis \notin Pembayaran =>
              /\ Isi[d].alokasi[1] \in Alokasi /\ Isi[d].alokasi[1] \in ToSet(Isi[d].alokasi)
              /\ \A a \in ToSet(Isi[d].alokasi) : a = Isi[d].alokasi[1]
<1>1. /\ Isi[d].jenis \in Jenis /\ Isi[d].alokasi \in Seq(Alokasi)
      /\ Isi[d].jenis \notin Pembayaran => Len(Isi[d].alokasi) = 1
  BY AsumsiFaktur DEF AsumsiFaktur
<1>2. PICK s \in Seq(Alokasi) : s = Isi[d].alokasi
  BY <1>1
<1>3. Len(s) = 1 => DOMAIN s = {1} /\ s[1] \in Alokasi
  <2>1. DOMAIN s = 1..Len(s) /\ \A i \in 1..Len(s) : s[i] \in Alokasi
    OBVIOUS
  <2>2. QED BY <2>1
<1>4. QED BY <1>1, <1>2, <1>3 DEF ToSet

\* The new row is a row, and what has been checked stays so by who holds it.
LEMMA RekamTipe ==
  ASSUME TipeDok, NEW g \in Tugas, g.aksi # "batal_faktur", Boleh(g)
  PROVE  /\ RekamBaru(g) \in RekamDok
         /\ Isi[g.dok].jenis # "giro" <=> RekamBaru(g).giro = "TANPA"
<1>1. /\ g.dok \in Dokumen /\ g.aksi \in {"posting", "batal", "cair", "tolak"}
      /\ g.aksi \in {"cair", "tolak"} => Isi[g.dok].jenis \in Pembayaran
  BY TugasDok
<1>2. /\ dokumen[g.dok] \in RekamDok
      /\ Isi[g.dok].jenis # "giro" <=> dokumen[g.dok].giro = "TANPA"
  BY <1>1 DEF TipeDok
<1>3. CASE g.aksi = "posting" /\ Isi[g.dok].jenis = "retur"
  <2> DEFINE a == Isi[g.dok].alokasi[1]
  <2>1. a \in Alokasi
    BY <1>1, <1>3, SatuBaris DEF Pembayaran
  <2>2. a.faktur \in Faktur /\ a.jumlah \in Nat
    BY <2>1 DEF Alokasi
  <2>3. HitungKredit(dokumen, g.dok, a.faktur, a.jumlah) \in Nat
    BY <1>1, <2>2, KreditTipe DEF TipeDok
  <2>4. RekamBaru(g) = [dokumen[g.dok] EXCEPT !.status = "POSTED",
                          !.kredit = HitungKredit(dokumen, g.dok, a.faktur, a.jumlah)]
    BY <1>3 DEF RekamBaru
  <2> HIDE DEF a
  <2>5. QED BY <1>2, <2>3, <2>4 DEF RekamDok, StatusDok
<1>4. CASE g.aksi = "posting" /\ Isi[g.dok].jenis # "retur"
  BY <1>2, <1>4 DEF RekamBaru, RekamDok, StatusDok
<1>5. CASE g.aksi = "batal"
  BY <1>2, <1>5 DEF RekamBaru, RekamDok, StatusDok
<1>6. CASE g.aksi = "cair"
  BY <1>2, <1>6 DEF RekamBaru, RekamDok, StatusDok, StatusGiro, Boleh
<1>7. CASE g.aksi = "tolak"
  BY <1>2, <1>7 DEF RekamBaru, RekamDok, StatusDok, StatusGiro, Boleh
<1>8. QED BY <1>1, <1>3, <1>4, <1>5, <1>6, <1>7

\* What is left of a purchase u holds is what was left of it.
LEMMA SisaTetap ==
  ASSUME TipeDok, dokumen' \in [Dokumen -> RekamDok], NEW u, Tenang(u),
         NEW d \in Dokumen, NEW f \in Faktur, MemegangX(u, KFaktur(f))
  PROVE  Sisa(d, f)' = Sisa(d, f)
<1>1. PICK D \in [Dokumen -> RekamDok] : D = dokumen
  BY DEF TipeDok
<1>2. PICK E \in [Dokumen -> RekamDok] : E = dokumen'
  OBVIOUS
<1>3. Setara(D, E, f)
  BY <1>1, <1>2 DEF Tenang
<1>4. /\ JumlahBagian(Berlaku(E) \ {d}, f) = JumlahBagian(Berlaku(D) \ {d}, f)
      /\ Susulan(E, f) = Susulan(D, f) /\ Retur(E, f) = Retur(D, f)
      /\ KreditRetur(E, f) = KreditRetur(D, f)
  BY <1>3, SetaraSama
<1>5. /\ SisaUtang(d, f)' = NilaiFaktur[f].total - JumlahBagian(Berlaku(E) \ {d}, f) - KreditRetur(E, f)
      /\ SisaUtang(d, f) = NilaiFaktur[f].total - JumlahBagian(Berlaku(D) \ {d}, f) - KreditRetur(D, f)
  BY <1>1, <1>2 DEF SisaUtang
<1>6. SisaSusulan(f)' = SisaSusulan(f) /\ DapatDiretur(f)' = DapatDiretur(f)
  BY <1>1, <1>2, <1>4 DEF SisaSusulan, DapatDiretur
<1>7. QED BY <1>4, <1>5, <1>6 DEF Sisa

\* So is the row that u is about to write: the credit of a return depends on
\* the other returns of its purchase, which u holds.
LEMMA RekamTetap ==
  ASSUME TipeDok, dokumen' \in [Dokumen -> RekamDok], NEW u, Tenang(u),
         NEW g \in Tugas, g.aksi # "batal_faktur", MemegangX(u, KDok(g.dok)),
         g.aksi = "posting" => \A a \in ToSet(Isi[g.dok].alokasi) : MemegangX(u, KFaktur(a.faktur))
  PROVE  RekamBaru(g)' = RekamBaru(g) /\ Boleh(g)' = Boleh(g)
<1> DEFINE d == g.dok
<1>1. d \in Dokumen /\ dokumen'[d] = dokumen[d]
  BY TugasDok DEF Tenang
<1>2. CASE g.aksi = "posting" /\ Isi[d].jenis = "retur"
  <2> DEFINE a == Isi[d].alokasi[1]
  <2>1. a \in Alokasi /\ a \in ToSet(Isi[d].alokasi)
    BY <1>1, <1>2, SatuBaris DEF Pembayaran
  <2>2. PICK f \in Faktur : f = a.faktur
    BY <2>1 DEF Alokasi
  <2>3. MemegangX(u, KFaktur(f))
    BY <1>2, <2>1, <2>2
  <2>4. PICK D \in [Dokumen -> RekamDok] : D = dokumen
    BY DEF TipeDok
  <2>5. PICK E \in [Dokumen -> RekamDok] : E = dokumen'
    OBVIOUS
  <2>6. Setara(D, E, f) /\ D[d] = E[d]
    BY <1>1, <2>3, <2>4, <2>5 DEF Tenang
  <2>7. PICK b \in RekamDok : b = [D[d] EXCEPT !.status = "DIAJUKAN"]
    <3>1. D[d] \in RekamDok
      BY <1>1
    <3>2. QED BY <3>1 DEF RekamDok, StatusDok
  <2>8. /\ [D EXCEPT ![d] = b] \in [Dokumen -> RekamDok] /\ [E EXCEPT ![d] = b] \in [Dokumen -> RekamDok]
        /\ Setara([D EXCEPT ![d] = b], [E EXCEPT ![d] = b], f)
    BY <1>1, <2>6, SetaraGanti
  <2>9. KreditRetur([E EXCEPT ![d] = b], f) = KreditRetur([D EXCEPT ![d] = b], f)
    BY <1>1, <2>8, SetaraSama
  <2>10. /\ [D EXCEPT ![d].status = "DIAJUKAN"] = [D EXCEPT ![d] = b]
         /\ [E EXCEPT ![d].status = "DIAJUKAN"] = [E EXCEPT ![d] = b]
    BY <2>6, <2>7
  <2>11. HitungKredit(E, d, f, a.jumlah) = HitungKredit(D, d, f, a.jumlah)
    BY <2>9, <2>10 DEF HitungKredit
  <2>12. /\ RekamBaru(g) = [D[d] EXCEPT !.status = "POSTED", !.kredit = HitungKredit(D, d, f, a.jumlah)]
         /\ RekamBaru(g)' = [E[d] EXCEPT !.status = "POSTED", !.kredit = HitungKredit(E, d, f, a.jumlah)]
    BY <1>2, <2>2, <2>4, <2>5 DEF RekamBaru
  <2>13. RekamBaru(g)' = RekamBaru(g)
    BY <2>6, <2>11, <2>12
  <2>14. QED BY <1>1, <2>13 DEF Boleh
<1>3. CASE ~(g.aksi = "posting" /\ Isi[d].jenis = "retur")
  BY <1>1, <1>3, TugasDok DEF RekamBaru, Boleh
<1>4. QED BY <1>2, <1>3

LEMMA NilaiTetap ==
  ASSUME TipeDok, dokumen' \in [Dokumen -> RekamDok], NEW u, Tenang(u), tugas'[u] = tugas[u],
         baru'[u] = baru[u], baru[u] \in RekamDok, tugas[u].dok \in Dokumen,
         NEW f \in Faktur, MemegangX(u, KFaktur(f))
  PROVE  NilaiBaru(u, f)' = NilaiBaru(u, f)
<1>1. PICK D \in [Dokumen -> RekamDok] : D = dokumen
  BY DEF TipeDok
<1>2. PICK E \in [Dokumen -> RekamDok] : E = dokumen'
  OBVIOUS
<1>3. PICK d \in Dokumen : d = tugas[u].dok
  OBVIOUS
<1>4. PICK b \in RekamDok : b = baru[u]
  OBVIOUS
<1>5. /\ [D EXCEPT ![d] = b] \in [Dokumen -> RekamDok] /\ [E EXCEPT ![d] = b] \in [Dokumen -> RekamDok]
      /\ Setara([D EXCEPT ![d] = b], [E EXCEPT ![d] = b], f)
  BY <1>1, <1>2, SetaraGanti DEF Tenang
<1>6. NilaiCacheDi([E EXCEPT ![d] = b], d, f) = NilaiCacheDi([D EXCEPT ![d] = b], d, f)
  BY ZenonT(30), <1>5, SetaraSama DEF NilaiCacheDi
<1>7. /\ NilaiBaru(u, f) = NilaiCacheDi([D EXCEPT ![d] = b], d, f)
      /\ NilaiBaru(u, f)' = NilaiCacheDi([E EXCEPT ![d] = b], d, f)
  BY <1>1, <1>2, <1>3, <1>4 DEF NilaiBaru
<1>8. QED BY <1>6, <1>7

\* So what u knows stays true.
LEMMA TahuLain ==
  ASSUME TipeDok, dokumen' \in [Dokumen -> RekamDok], NEW u \in Sesi, Tahu(u), Lain(u), Tenang(u), Di(u)
  PROVE  Tahu(u)'
<1>0. /\ \A k : MemegangX(u, k) => MemegangX(u, k)'
      /\ \A p : Dipenuhi(u, p) => Dipenuhi(u, p)'
  BY LainTetap
<1>1. CASE pc[u] \in {"idle", "dokumen", "faktur"}
  BY <1>1 DEF Tahu, Di
<1>2. CASE pc[u] \in {"kunci", "sisa", "ulang", "tulis"}
  <2>0. PICK g \in Tugas : g = tugas[u]
    BY <1>2 DEF Tahu
  <2>1. /\ g.aksi # "batal_faktur" /\ g.dok \in Dokumen /\ MemegangX(u, KDok(g.dok)) /\ Boleh(g)
        /\ dokumen'[g.dok] = dokumen[g.dok]
    BY <1>2, <2>0, TugasDok DEF Tahu, TahuDokumen, Tenang
  <2>a. PICK d \in Dokumen : d = g.dok
    BY <2>1
  <2>b. tugas'[u] = g /\ (Menerima(u)' <=> Menerima(u))
    BY <2>0 DEF Di, Menerima
  <2>c. MemegangX(u, KDok(d))'
    BY <1>0, <2>1, <2>a DEF KDok
  <2>2. TahuDokumen(u)'
    <3>1. Boleh(g)'
      BY <2>1 DEF Boleh
    <3>2. QED BY <2>1, <2>a, <2>b, <2>c, <3>1 DEF TahuDokumen
  <2>3. ASSUME NEW a \in ToSet(Isi[d].alokasi), Terjamin(u, a) PROVE Terjamin(u, a)'
    <3>1. PICK f \in Faktur : f = a.faktur
      BY TipeAlokasi
    <3>2. MemegangX(u, KFaktur(f)) /\ a.jumlah <= Sisa(d, f)
      BY <2>0, <2>a, <2>3, <3>1 DEF Terjamin
    <3>3. Sisa(d, f)' = Sisa(d, f)
      BY <3>2, SisaTetap
    <3>4. MemegangX(u, KFaktur(f))'
      BY <1>0, <3>2 DEF KFaktur
    <3>5. QED BY <2>a, <2>b, <3>1, <3>2, <3>3, <3>4 DEF Terjamin
  <2>4. pc[u] \in {"kunci", "sisa"} => TahuSisa(u)'
    <3>1. pc[u] \in {"kunci", "sisa"} => TahuSisa(u)
      BY DEF Tahu
    <3>2. daftar'[u] = daftar[u]
      BY DEF Di
    <3>3. QED BY <2>0, <2>3, <2>a, <2>b, <3>1, <3>2 DEF TahuSisa
  <2>5. ASSUME pc[u] \in {"ulang", "tulis"}
        PROVE  TahuUlang(u)' /\ (pc[u] = "tulis" => TahuTulis(u)')
    <3>0. daftar'[u] = daftar[u] /\ baru'[u] = baru[u] /\ tulis'[u] = tulis[u] /\ foto'[u] = foto[u]
      BY DEF Di
    <3>1. /\ daftar[u] \in Seq(Faktur) /\ \A f \in ToSet(daftar[u]) : Menunjuk(d, f)
          /\ baru[u] = RekamBaru(g)
          /\ Menerima(u) => \A a \in ToSet(Isi[d].alokasi) : Terjamin(u, a)
          /\ \A f \in Faktur : Menunjuk(d, f) => f \in ToSet(daftar[u]) \/ \E w \in tulis[u] : w.faktur = f
          /\ \A w \in tulis[u] : TulisanBenar(u, w)
      BY <2>0, <2>5, <2>a DEF Tahu, TahuUlang
    <3>2. RekamBaru(g)' = RekamBaru(g) /\ RekamBaru(g) \in RekamDok
      <4>1. g.aksi = "posting" => \A a \in ToSet(Isi[g.dok].alokasi) : MemegangX(u, KFaktur(a.faktur))
        BY <2>0, <2>a, <3>1 DEF Menerima, Terjamin
      <4>2. RekamBaru(g)' = RekamBaru(g)
        BY <2>1, <4>1, RekamTetap
      <4>3. QED BY <2>1, <4>2, RekamTipe
    <3>3. baru[u] \in RekamDok
      BY <3>1, <3>2
    <3>4. ASSUME NEW f \in Faktur, MemegangX(u, KFaktur(f))
          PROVE  NilaiBaru(u, f)' = NilaiBaru(u, f) /\ MemegangX(u, KFaktur(f))'
      <4>1. tugas'[u] = tugas[u] /\ tugas[u].dok \in Dokumen
        BY <2>0, <2>1 DEF Di
      <4>2. NilaiBaru(u, f)' = NilaiBaru(u, f)
        BY <3>0, <3>3, <3>4, <4>1, NilaiTetap
      <4>3. QED BY <1>0, <3>4, <4>2 DEF KFaktur
    <3>5. ASSUME NEW w \in tulis[u], TulisanBenar(u, w) PROVE TulisanBenar(u, w)'
      <4>1. PICK f \in Faktur : f = w.faktur
        BY <3>5 DEF TulisanBenar
      <4>2. /\ w \in [faktur : Faktur, nilai : NilaiUntuk(d)] /\ MemegangX(u, KFaktur(f))
            /\ Menerima(u) => w.nilai = NilaiBaru(u, f)
        BY <2>0, <2>a, <3>5, <4>1 DEF TulisanBenar
      <4>3. NilaiBaru(u, f)' = NilaiBaru(u, f) /\ MemegangX(u, KFaktur(f))'
        BY <3>4, <4>2
      <4>4. QED BY <2>a, <2>b, <4>1, <4>2, <4>3 DEF TulisanBenar
    <3>6. TahuUlang(u)'
      BY <2>3, <2>a, <2>b, <3>0, <3>1, <3>2, <3>5 DEF TahuUlang
    <3>7. ASSUME pc[u] = "tulis" PROVE TahuTulis(u)'
      <4>1. TahuTulis(u)
        BY <3>7 DEF Tahu
      <4>2. PICK f \in Faktur : f = Head(daftar[u]) /\ Menunjuk(d, f)
        BY <3>1, <4>1, KepalaEkor DEF TahuTulis
      <4>3. /\ daftar[u] # <<>> /\ Dipenuhi(u, ForUpdate(KFaktur(f)))
            /\ foto[u] \in NilaiUntuk(d) /\ (Menerima(u) => foto[u] = NilaiBaru(u, f))
        BY <2>0, <2>a, <4>1, <4>2 DEF TahuTulis
      <4>4. Menerima(u) => MemegangX(u, KFaktur(f))
        BY <3>1, <4>2 DEF Menunjuk, Terjamin
      <4>5. Menerima(u) => NilaiBaru(u, f)' = NilaiBaru(u, f)
        BY <3>4, <4>4
      <4>6. Dipenuhi(u, ForUpdate(KFaktur(f)))'
        BY <1>0, <4>3 DEF ForUpdate, KFaktur
      <4>7. QED BY <2>a, <2>b, <3>0, <4>2, <4>3, <4>5, <4>6 DEF TahuTulis
    <3>8. QED BY <3>6, <3>7
  <2>6. QED BY <1>2, <2>0, <2>2, <2>4, <2>5, <2>b DEF Tahu, Di
<1>3. QED BY <1>1, <1>2 DEF Tahu

-----------------------------------------------------------------------------
(* The steps, once more: what sessions know of amounts.                    *)
JumlahTahu == TipeKunci(Permintaan) /\ TipeSesi /\ \A t \in Sesi : Tahu(t)

JumlahData == TipeDok /\ TipeBaris /\ Tercukupi /\ KreditTertutup

\* A step of t that changes no row.
LEMMA DiamTenang ==
  ASSUME UNCHANGED dokumen
  PROVE  \A u : Tenang(u)
BY DEF Tenang, Setara

LEMMA DataDiam ==
  ASSUME JumlahData, UNCHANGED dataVars, mulai' \in Nat
  PROVE  JumlahData'
<1>1. dokumen' = dokumen /\ statusFaktur' = statusFaktur /\ bayar' = bayar /\ terima' = terima
  BY DEF dataVars
<1>2. TipeDok' /\ TipeBaris'
  BY <1>1 DEF JumlahData, TipeDok, TipeBaris
<1>3. \A f : Susulan(dokumen, f)' = Susulan(dokumen, f) /\ KreditRetur(dokumen, f)' = KreditRetur(dokumen, f)
  BY <1>1
<1>4. Tercukupi' /\ KreditTertutup'
  BY <1>3 DEF JumlahData, Tercukupi, KreditTertutup
<1>5. QED BY <1>2, <1>4 DEF JumlahData

LEMMA LainTahu ==
  ASSUME JumlahTahu, TipeDok, dokumen' \in [Dokumen -> RekamDok], NEW t \in Sesi, Tahu(t)',
         TipeKunci(Permintaan)', TipeSesi',
         \A u \in Sesi : u # t => Lain(u) /\ Tenang(u) /\ Di(u)
  PROVE  JumlahTahu'
<1>1. ASSUME NEW u \in Sesi, u # t PROVE Tahu(u)'
  BY <1>1, TahuLain DEF JumlahTahu
<1>2. QED BY <1>1 DEF JumlahTahu

LEMMA UsaiTahu ==
  ASSUME IInv, JumlahTahu, TipeDok, dokumen' \in [Dokumen -> RekamDok], NEW t \in Sesi, Bersih(t),
         \A u \in Sesi : u # t => Tenang(u)
  PROVE  JumlahTahu' /\ mulai' = mulai
<1>1. TipeKunci(Permintaan)' /\ \A u \in Sesi : u # t => Lain(u)
  BY LepasMaju, LepasSah DEF Bersih, JumlahTahu, IInv
<1>2. TipeSesi' /\ \A u \in Sesi : u # t => Di(u)
  BY DEF Bersih, JumlahTahu, TipeSesi, Di
<1>3. Tahu(t)'
  BY DEF Bersih, JumlahTahu, TipeSesi, Tahu
<1>4. QED BY <1>1, <1>2, <1>3, LainTahu DEF Bersih

LEMMA GagalTahu ==
  ASSUME IInv, JumlahTahu, JumlahData, NEW t \in Sesi, Gagal(t)
  PROVE  JumlahTahu' /\ JumlahData'
<1>1. /\ UNCHANGED dataVars /\ dokumen' = dokumen /\ Bersih(t) /\ TipeDok
      /\ dokumen \in [Dokumen -> RekamDok] /\ mulai \in Nat
  BY DEF Gagal, dataVars, JumlahData, TipeDok, TipeBaris
<1>2. \A u : Tenang(u)
  BY <1>1, DiamTenang
<1>3. JumlahTahu' /\ mulai' = mulai
  BY <1>1, <1>2, UsaiTahu
<1>4. QED BY <1>1, <1>3, DataDiam

\* A step of t that asks for a lock, or for none, and changes no row.
LEMMA SajaTahu ==
  ASSUME IInv, JumlahTahu, JumlahData, NEW t \in Sesi, UNCHANGED dataVars, mulai' \in Nat,
         TipeKunci(Permintaan)', \A u \in Sesi : u # t => Lain(u) /\ Di(u), TipeSesi', Tahu(t)'
  PROVE  JumlahTahu' /\ JumlahData'
<1>1. dokumen' = dokumen /\ dokumen \in [Dokumen -> RekamDok] /\ TipeDok
  BY DEF dataVars, JumlahData, TipeDok
<1>2. \A u : Tenang(u)
  BY <1>1, DiamTenang
<1>3. JumlahTahu'
  BY <1>1, <1>2, LainTahu
<1>4. QED BY <1>3, DataDiam

\* What t itself knew is still true, the rows being the same.
LEMMA SendiriTetap ==
  ASSUME TipeDok, UNCHANGED dokumen, NEW t, pegang[t] \subseteq pegang'[t], tugas'[t] = tugas[t],
         NEW g \in Tugas, g = tugas[t], g.aksi # "batal_faktur"
  PROVE  /\ \A k : MemegangX(t, k) => MemegangX(t, k)'
         /\ TahuDokumen(t) => TahuDokumen(t)'
         /\ \A a \in ToSet(Isi[g.dok].alokasi) : Terjamin(t, a) => Terjamin(t, a)'
<1>1. \A k : MemegangX(t, k) => MemegangX(t, k)'
  BY DEF MemegangX
<1>2. PICK d \in Dokumen : d = g.dok
  BY TugasDok
<1>3. Boleh(g)' <=> Boleh(g)
  BY DEF Boleh
<1>4. TahuDokumen(t) => TahuDokumen(t)'
  <2>1. SUFFICES ASSUME TahuDokumen(t) PROVE TahuDokumen(t)'
    OBVIOUS
  <2>2. MemegangX(t, KDok(d)) /\ Boleh(g)
    BY <1>2, <2>1 DEF TahuDokumen
  <2>3. MemegangX(t, KDok(d))'
    BY <1>1, <2>2 DEF KDok
  <2>4. QED BY <1>2, <1>3, <2>2, <2>3 DEF TahuDokumen
<1>5. ASSUME NEW a \in ToSet(Isi[d].alokasi), Terjamin(t, a) PROVE Terjamin(t, a)'
  <2>1. PICK f \in Faktur : f = a.faktur
    BY TipeAlokasi
  <2>2. MemegangX(t, KFaktur(f)) /\ a.jumlah <= Sisa(d, f)
    BY <1>2, <1>5, <2>1 DEF Terjamin
  <2>3. Tenang(t) /\ dokumen' \in [Dokumen -> RekamDok]
    BY DiamTenang DEF TipeDok
  <2>4. Sisa(d, f)' = Sisa(d, f)
    BY <2>2, <2>3, SisaTetap
  <2>5. MemegangX(t, KFaktur(f))'
    BY <1>1, <2>2 DEF KFaktur
  <2>6. QED BY <1>2, <2>1, <2>2, <2>4, <2>5 DEF Terjamin
<1>6. QED BY <1>1, <1>2, <1>4, <1>5

LEMMA TulisanTetap ==
  ASSUME TipeDok, UNCHANGED dokumen, NEW t, pegang[t] \subseteq pegang'[t], tugas'[t] = tugas[t],
         NEW g \in Tugas, g = tugas[t], g.aksi # "batal_faktur",
         baru'[t] = baru[t], baru[t] \in RekamDok
  PROVE  /\ \A f \in Faktur : MemegangX(t, KFaktur(f)) => NilaiBaru(t, f)' = NilaiBaru(t, f)
         /\ \A w \in tulis[t] : TulisanBenar(t, w) => TulisanBenar(t, w)'
<1>1. Tenang(t) /\ dokumen' \in [Dokumen -> RekamDok]
  BY DiamTenang DEF TipeDok
<1>2. PICK d \in Dokumen : d = g.dok
  BY TugasDok
<1>3. ASSUME NEW f \in Faktur, MemegangX(t, KFaktur(f)) PROVE NilaiBaru(t, f)' = NilaiBaru(t, f)
  BY <1>1, <1>2, <1>3, NilaiTetap
<1>4. ASSUME NEW w \in tulis[t], TulisanBenar(t, w) PROVE TulisanBenar(t, w)'
  <2>1. PICK f \in Faktur : f = w.faktur
    BY <1>4 DEF TulisanBenar
  <2>2. /\ w \in [faktur : Faktur, nilai : NilaiUntuk(d)] /\ MemegangX(t, KFaktur(f))
        /\ Menerima(t) => w.nilai = NilaiBaru(t, f)
    BY <1>2, <1>4, <2>1 DEF TulisanBenar
  <2>3. NilaiBaru(t, f)' = NilaiBaru(t, f)
    BY <1>3, <2>2
  <2>4. MemegangX(t, KFaktur(f))'
    BY <2>2 DEF MemegangX, KFaktur
  <2>5. Menerima(t)' <=> Menerima(t)
    BY DEF Menerima
  <2>6. QED BY <1>2, <2>1, <2>2, <2>3, <2>4, <2>5 DEF TulisanBenar
<1>5. QED BY <1>3, <1>4

\* Where the locks of the requests come from.
LEMMA Diminta ==
  /\ \A d \in Dokumen : ForUpdate(KDok(d)) \in Permintaan
  /\ \A f \in Faktur : ForUpdate(KFaktur(f)) \in Permintaan
BY DEF Permintaan, ForUpdate

LEMMA MulaiTahu ==
  ASSUME IInv, JumlahTahu, JumlahData, NEW t \in Sesi, Mulai(t)
  PROVE  JumlahTahu' /\ JumlahData'
<1>1. PICK g \in Tugas :
        /\ tugas' = [tugas EXCEPT ![t] = g]
        /\ \/ /\ g.aksi = "batal_faktur" /\ Minta(t, ForUpdate(KFaktur(g.faktur)))
              /\ pc' = [pc EXCEPT ![t] = "faktur"]
           \/ /\ g.aksi # "batal_faktur" /\ Minta(t, ForUpdate(KDok(g.dok)))
              /\ pc' = [pc EXCEPT ![t] = "dokumen"]
  BY DEF Mulai
<1>2. PICK p \in Permintaan : Minta(t, p)
  <2>1. g.aksi = "batal_faktur" => g.faktur \in Faktur
    BY DEF Tugas
  <2>2. QED BY <1>1, <2>1, TugasDok, Diminta
<1>3. /\ UNCHANGED <<dataVars, daftar, baru, foto, tulis>> /\ mulai' \in Nat
      /\ pc[t] = "idle" /\ Jalan(t)
  BY DEF Mulai, JumlahData, TipeBaris, IInv, InvSesi
<1>4. TipeKunci(Permintaan)' /\ \A u \in Sesi : u # t => Lain(u)
  BY <1>2, <1>3, MintaMaju, MintaSah DEF JumlahTahu, IInv
<1>5. /\ TipeSesi' /\ \A u \in Sesi : u # t => Di(u)
      /\ tugas'[t] = g /\ pc'[t] = IF g.aksi = "batal_faktur" THEN "faktur" ELSE "dokumen"
  BY <1>1, <1>3 DEF JumlahTahu, TipeSesi, Di
<1>6. Tahu(t)
  BY DEF JumlahTahu
<1>7. Tahu(t)'
  BY <1>3, <1>5, <1>6 DEF Tahu
<1>8. QED BY <1>3, <1>4, <1>5, <1>7, SajaTahu

LEMMA PeriksaTahu ==
  ASSUME IInv, JumlahTahu, JumlahData, NEW t \in Sesi, PeriksaDokumen(t)
  PROVE  JumlahTahu' /\ JumlahData'
<1>0. Tahu(t) /\ pc[t] = "dokumen" /\ Jalan(t)
  BY DEF JumlahTahu, PeriksaDokumen
<1>a. PICK g \in Tugas : g = tugas[t] /\ g.aksi # "batal_faktur" /\ g.dok \in Dokumen
  BY <1>0, TugasDok DEF Tahu
<1>1. CASE /\ Boleh(g) /\ pc' = [pc EXCEPT ![t] = "kunci"]
           /\ daftar' = [daftar EXCEPT ![t] =
                IF g.aksi \in {"posting", "cair"} THEN Isi[g.dok].alokasi ELSE <<>>]
           /\ UNCHANGED <<kunciVars, dataVars, mulai, tugas, baru, foto, tulis>>
  <2>1. /\ UNCHANGED <<kunciVars, dataVars, tugas, baru, foto, tulis>> /\ mulai' \in Nat
        /\ dokumen' = dokumen
    BY <1>1 DEF JumlahData, TipeBaris, dataVars
  <2>2. /\ TipeSesi' /\ \A u \in Sesi : u # t => Di(u)
        /\ pc'[t] = "kunci" /\ tugas'[t] = g
        /\ daftar'[t] = IF g.aksi \in {"posting", "cair"} THEN Isi[g.dok].alokasi ELSE <<>>
    BY <1>1, <1>a, <2>1 DEF JumlahTahu, TipeSesi, Di
  <2>3. TipeKunci(Permintaan)' /\ \A u \in Sesi : Lain(u)
    <3>1. TipeKunci(Permintaan)'
      BY <2>1 DEF JumlahTahu, TipeKunci, kunciVars
    <3>2. QED BY <2>1, <3>1, KunciDiam DEF IInv
  <2>4. PICK d \in Dokumen : d = g.dok
    BY <1>a
  <2>5. MemegangX(t, KDok(d))' /\ Boleh(g)'
    <3>1. MemegangX(t, KDok(d))
      BY <1>0, <1>a, <2>4, Dapat DEF ForUpdate, IInv, InvSesi
    <3>2. MemegangX(t, KDok(d))'
      BY <2>1, <3>1 DEF MemegangX, KDok, kunciVars
    <3>3. QED BY <1>1, <2>1, <3>2 DEF Boleh
  <2>6. TahuDokumen(t)'
    BY <1>a, <2>2, <2>4, <2>5 DEF TahuDokumen
  <2>7. Isi[d].alokasi \in Seq(Alokasi) /\ <<>> \in Seq(Alokasi)
    BY TipeAlokasi
  <2>8. TahuSisa(t)'
    BY <2>2, <2>4, <2>7 DEF TahuSisa, Menerima
  <2>9. Tahu(t)'
    BY <1>0, <2>1, <2>2, <2>6, <2>8 DEF Tahu
  <2>10. QED BY <2>1, <2>2, <2>3, <2>9, SajaTahu
<1>2. QED BY <1>1, <1>a, GagalTahu DEF PeriksaDokumen

LEMMA KunciTahu ==
  ASSUME IInv, JumlahTahu, JumlahData, NEW t \in Sesi, KunciFaktur(t)
  PROVE  JumlahTahu' /\ JumlahData'
<1>0. Tahu(t) /\ pc[t] = "kunci" /\ Jalan(t) /\ daftar[t] # <<>>
  BY DEF JumlahTahu, KunciFaktur
<1>a. PICK g \in Tugas : g = tugas[t] /\ g.aksi # "batal_faktur" /\ g.dok \in Dokumen
  BY <1>0, TugasDok DEF Tahu, TahuDokumen
<1>1. /\ UNCHANGED <<dataVars, tugas, daftar, baru, foto, tulis>> /\ mulai' \in Nat
      /\ dokumen' = dokumen /\ TipeDok
  BY DEF KunciFaktur, JumlahData, TipeBaris, dataVars
<1>2. TahuDokumen(t) /\ TahuSisa(t)
  BY <1>0 DEF Tahu
<1>3. PICK p \in Permintaan : Minta(t, p)
  <2>1. PICK a \in Alokasi : a = Head(daftar[t])
    BY <1>0, <1>2, KepalaEkor DEF TahuSisa
  <2>2. a.faktur \in Faktur
    BY DEF Alokasi
  <2>3. QED BY <2>1, <2>2, Diminta DEF KunciFaktur
<1>4. /\ TipeKunci(Permintaan)' /\ (\A u \in Sesi : u # t => Lain(u))
      /\ pegang[t] \subseteq pegang'[t]
  BY <1>0, <1>3, MintaMaju, MintaSah DEF JumlahTahu, IInv
<1>5. /\ TipeSesi' /\ (\A u \in Sesi : u # t => Di(u))
      /\ pc'[t] = "sisa" /\ tugas'[t] = g /\ daftar'[t] = daftar[t]
  BY <1>1, <1>a DEF KunciFaktur, JumlahTahu, TipeSesi, Di
<1>6. /\ TahuDokumen(t)'
      /\ \A a \in ToSet(Isi[g.dok].alokasi) : Terjamin(t, a) => Terjamin(t, a)'
  BY <1>1, <1>2, <1>4, <1>5, <1>a, SendiriTetap
<1>7. TahuSisa(t)'
  BY <1>2, <1>5, <1>6, <1>a DEF TahuSisa, Menerima
<1>8. Tahu(t)'
  BY <1>0, <1>1, <1>5, <1>6, <1>7 DEF Tahu
<1>9. QED BY <1>1, <1>4, <1>5, <1>8, SajaTahu

LEMMA SisaTahu ==
  ASSUME IInv, JumlahTahu, JumlahData, NEW t \in Sesi, PeriksaSisa(t)
  PROVE  JumlahTahu' /\ JumlahData'
<1>0. Tahu(t) /\ pc[t] = "sisa" /\ Jalan(t)
  BY DEF JumlahTahu, PeriksaSisa
<1>a. PICK g \in Tugas : g = tugas[t] /\ g.aksi # "batal_faktur" /\ g.dok \in Dokumen
  BY <1>0, TugasDok DEF Tahu, TahuDokumen
<1>b. TahuDokumen(t) /\ TahuSisa(t) /\ daftar[t] # <<>>
  BY <1>0 DEF Tahu, IInv, InvSesi
<1>c. PICK a \in Alokasi : a = Head(daftar[t])
  BY <1>b, KepalaEkor DEF TahuSisa
<1>1. CASE /\ a.jumlah <= Sisa(g.dok, a.faktur)
           /\ daftar' = [daftar EXCEPT ![t] = Tail(@)]
           /\ pc' = [pc EXCEPT ![t] = "kunci"]
           /\ UNCHANGED <<kunciVars, dataVars, mulai, tugas, baru, foto, tulis>>
  <2>1. /\ UNCHANGED <<kunciVars, dataVars, tugas, baru, foto, tulis>> /\ mulai' \in Nat
        /\ dokumen' = dokumen /\ TipeDok
    BY <1>1 DEF JumlahData, TipeBaris, dataVars
  <2>2. /\ TipeSesi' /\ (\A u \in Sesi : u # t => Di(u))
        /\ pc'[t] = "kunci" /\ tugas'[t] = g /\ daftar'[t] = Tail(daftar[t])
    BY <1>1, <1>a, <2>1 DEF JumlahTahu, TipeSesi, Di
  <2>3. TipeKunci(Permintaan)' /\ (\A u \in Sesi : Lain(u)) /\ pegang[t] \subseteq pegang'[t]
    <3>1. TipeKunci(Permintaan)'
      BY <2>1 DEF JumlahTahu, TipeKunci, kunciVars
    <3>2. QED BY <2>1, <3>1, KunciDiam DEF IInv, kunciVars
  <2>4. /\ TahuDokumen(t)'
        /\ \A x \in ToSet(Isi[g.dok].alokasi) : Terjamin(t, x) => Terjamin(t, x)'
    BY <1>a, <1>b, <2>1, <2>2, <2>3, SendiriTetap
  <2>5. Terjamin(t, a)
    BY <1>0, <1>1, <1>a, <1>b, <1>c, Dapat DEF ForUpdate, IInv, InvSesi, Terjamin
  <2>6. /\ Tail(daftar[t]) \in Seq(Alokasi)
        /\ \A x \in ToSet(daftar[t]) : x = a \/ x \in ToSet(Tail(daftar[t]))
    BY <1>b, <1>c, KepalaEkor DEF TahuSisa
  <2>7. TahuSisa(t)'
    BY <1>a, <1>b, <2>2, <2>4, <2>5, <2>6 DEF TahuSisa, Menerima
  <2>8. Tahu(t)'
    BY <1>0, <2>1, <2>2, <2>4, <2>7 DEF Tahu
  <2>9. QED BY <2>1, <2>2, <2>3, <2>8, SajaTahu
<1>2. QED BY <1>1, <1>a, <1>c, GagalTahu DEF PeriksaSisa

\* The purchases of a document, each once.
LEMMA FakturDariBenar ==
  ASSUME NEW d \in Dokumen
  PROVE  /\ FakturDari[d] \in Seq(Faktur)
         /\ \A f \in Faktur : f \in ToSet(FakturDari[d]) <=> Menunjuk(d, f)
<1> DEFINE S == {a.faktur : a \in ToSet(Isi[d].alokasi)}
<1>1. /\ \A a \in ToSet(Isi[d].alokasi) : a.faktur \in Faktur
      /\ IsFiniteSet(ToSet(Isi[d].alokasi))
  BY TipeAlokasi, ToSetTerhingga
<1>2. IsFiniteSet(S)
  <2> DEFINE j == [a \in ToSet(Isi[d].alokasi) |-> a.faktur]
  <2>1. IsFiniteSet({j[a] : a \in ToSet(Isi[d].alokasi)})
    BY <1>1, Citra
  <2>2. {j[a] : a \in ToSet(Isi[d].alokasi)} = S
    OBVIOUS
  <2>3. QED BY <2>1, <2>2
<1>3. S \subseteq Faktur /\ S \in SUBSET Nat
  <2>1. Faktur \subseteq Nat
    BY AsumsiFaktur DEF AsumsiFaktur
  <2>2. QED BY <1>1, <2>1
<1>4. FakturDari[d] = UrutNaik(S)
  BY DEF FakturDari
<1>5. \A f : f \in S <=> Menunjuk(d, f)
  BY DEF Menunjuk
<1> HIDE DEF S
<1>6. UrutNaik(S) \in Seq(S) /\ ToSet(UrutNaik(S)) = S
  BY <1>2, <1>3, UrutNaikBenar
<1>7. UrutNaik(S) \in Seq(Faktur)
  <2>1. PICK s \in Seq(S) : s = UrutNaik(S)
    BY <1>6
  <2>2. DOMAIN s = 1..Len(s) /\ Len(s) \in Nat /\ \A i \in 1..Len(s) : s[i] \in S
    OBVIOUS
  <2>3. \A i \in 1..Len(s) : s[i] \in Faktur
    BY <1>3, <2>2
  <2>4. s = [i \in 1..Len(s) |-> s[i]]
    BY <2>2
  <2>5. [i \in 1..Len(s) |-> s[i]] \in Seq(Faktur)
    BY <2>2, <2>3
  <2>6. s \in Seq(Faktur)
    BY <2>4, <2>5
  <2>7. QED BY <2>1, <2>6
<1>8. QED BY <1>4, <1>5, <1>6, <1>7

LEMMA UbahTahu ==
  ASSUME IInv, JumlahTahu, JumlahData, NEW t \in Sesi, Ubah(t)
  PROVE  JumlahTahu' /\ JumlahData'
<1>0. Tahu(t) /\ pc[t] = "kunci" /\ Jalan(t) /\ daftar[t] = <<>>
  BY DEF JumlahTahu, Ubah
<1>a. PICK g \in Tugas : g = tugas[t] /\ g.aksi # "batal_faktur" /\ g.dok \in Dokumen
  BY <1>0, TugasDok DEF Tahu, TahuDokumen
<1>b. TahuDokumen(t) /\ TahuSisa(t) /\ ToSet(daftar[t]) = {}
  <2>1. TahuDokumen(t) /\ TahuSisa(t)
    BY <1>0 DEF Tahu
  <2>2. QED BY <1>0, <2>1 DEF ToSet
<1>1. /\ UNCHANGED <<kunciVars, dataVars, tugas, foto, tulis>> /\ mulai' \in Nat
      /\ dokumen' = dokumen /\ dokumen' \in [Dokumen -> RekamDok] /\ TipeDok
  BY DEF Ubah, JumlahData, TipeBaris, TipeDok, dataVars
<1>2. /\ TipeSesi' /\ (\A u \in Sesi : u # t => Di(u))
      /\ pc'[t] = "ulang" /\ tugas'[t] = g /\ daftar'[t] = FakturDari[g.dok]
      /\ baru'[t] = RekamBaru(g)
  BY <1>1, <1>a DEF Ubah, JumlahTahu, TipeSesi, Di
<1>3. TipeKunci(Permintaan)' /\ (\A u \in Sesi : Lain(u)) /\ pegang[t] \subseteq pegang'[t]
  <2>1. TipeKunci(Permintaan)'
    BY <1>1 DEF JumlahTahu, TipeKunci, kunciVars
  <2>2. QED BY <1>1, <2>1, KunciDiam DEF IInv, kunciVars
<1>4. /\ TahuDokumen(t)'
      /\ \A x \in ToSet(Isi[g.dok].alokasi) : Terjamin(t, x) => Terjamin(t, x)'
  BY <1>a, <1>b, <1>1, <1>2, <1>3, SendiriTetap
<1>5. PICK d \in Dokumen : d = g.dok
  BY <1>a
<1>6. Menerima(t) => \A x \in ToSet(Isi[d].alokasi) : Terjamin(t, x)
  BY <1>a, <1>b, <1>5 DEF TahuSisa
<1>7. RekamBaru(g)' = RekamBaru(g)
  <2>1. g.aksi = "posting" => \A x \in ToSet(Isi[g.dok].alokasi) : MemegangX(t, KFaktur(x.faktur))
    BY <1>a, <1>5, <1>6 DEF Menerima, Terjamin
  <2>2. MemegangX(t, KDok(g.dok)) /\ Tenang(t)
    BY <1>1, <1>a, <1>b, DiamTenang DEF TahuDokumen
  <2>3. QED BY <1>1, <1>a, <2>1, <2>2, RekamTetap
<1>8. TahuUlang(t)'
  <2>1. /\ daftar'[t] \in Seq(Faktur)
        /\ \A f \in ToSet(daftar'[t]) : Menunjuk(d, f)
        /\ \A f \in Faktur : Menunjuk(d, f) => f \in ToSet(daftar'[t])
    <3>1. PICK s \in Seq(Faktur) : s = FakturDari[d]
      BY FakturDariBenar
    <3>2. ToSet(s) \subseteq Faktur
      BY ToSetTerhingga
    <3>3. QED BY <1>2, <1>5, <3>1, <3>2, FakturDariBenar
  <2>2. tulis'[t] = {}
    BY <1>0, <1>1 DEF Tahu
  <2>3. Menerima(t)' => Menerima(t)
    BY <1>a, <1>2 DEF Menerima
  <2>4. QED BY <1>2, <1>4, <1>5, <1>6, <1>7, <2>1, <2>2, <2>3 DEF TahuUlang
<1>9. Tahu(t)'
  BY <1>0, <1>1, <1>2, <1>4, <1>8 DEF Tahu
<1>10. QED BY <1>1, <1>2, <1>3, <1>9, SajaTahu

\* What t knows when its document is to be rewritten.
LEMMA Rekamannya ==
  ASSUME JumlahData, NEW t, Tahu(t), pc[t] \in {"ulang", "tulis"}
  PROVE  \E g \in Tugas, d \in Dokumen :
           /\ g = tugas[t] /\ g.aksi # "batal_faktur" /\ d = g.dok
           /\ TahuDokumen(t) /\ TahuUlang(t) /\ MemegangX(t, KDok(d)) /\ Boleh(g)
           /\ baru[t] = RekamBaru(g) /\ baru[t] \in RekamDok
           /\ (Isi[d].jenis # "giro" <=> baru[t].giro = "TANPA")
           /\ Menerima(t) => \A f \in Faktur : Menunjuk(d, f) => MemegangX(t, KFaktur(f))
<1>1. PICK g \in Tugas : g = tugas[t]
  BY DEF Tahu
<1>2. /\ TahuDokumen(t) /\ TahuUlang(t) /\ g.aksi # "batal_faktur" /\ Boleh(g)
      /\ MemegangX(t, KDok(g.dok))
  BY <1>1 DEF Tahu, TahuDokumen
<1>3. PICK d \in Dokumen : d = g.dok
  BY <1>2, TugasDok
<1>4. baru[t] = RekamBaru(g)
  BY <1>1, <1>2 DEF TahuUlang
<1>5. baru[t] \in RekamDok /\ (Isi[d].jenis # "giro" <=> baru[t].giro = "TANPA")
  BY <1>2, <1>3, <1>4, RekamTipe DEF JumlahData
<1>6. Menerima(t) => \A f \in Faktur : Menunjuk(d, f) => MemegangX(t, KFaktur(f))
  BY <1>1, <1>2, <1>3 DEF TahuUlang, Terjamin, Menunjuk
<1>7. QED BY <1>1, <1>2, <1>3, <1>4, <1>5, <1>6

\* With the rows unchanged, what t knows of its rewriting stays true.
LEMMA UlangTetap ==
  ASSUME JumlahData, UNCHANGED dokumen, NEW t \in Sesi, Tahu(t), pc[t] \in {"ulang", "tulis"},
         pegang[t] \subseteq pegang'[t], tugas'[t] = tugas[t], baru'[t] = baru[t],
         NEW d \in Dokumen, d = tugas[t].dok
  PROVE  /\ TahuDokumen(t)' /\ baru'[t] = RekamBaru(tugas[t])'
         /\ Menerima(t)' <=> Menerima(t)
         /\ Menerima(t) => \A a \in ToSet(Isi[d].alokasi) : Terjamin(t, a)'
         /\ \A w \in tulis[t] : TulisanBenar(t, w)'
         /\ \A f \in Faktur : MemegangX(t, KFaktur(f)) => NilaiBaru(t, f)' = NilaiBaru(t, f)
<1>1. PICK g \in Tugas : g = tugas[t] /\ g.aksi # "batal_faktur" /\ d = g.dok
  BY Rekamannya
<1>2. /\ TahuDokumen(t) /\ TahuUlang(t) /\ MemegangX(t, KDok(d)) /\ TipeDok
      /\ baru[t] = RekamBaru(g) /\ baru[t] \in RekamDok
      /\ Menerima(t) => \A f \in Faktur : Menunjuk(d, f) => MemegangX(t, KFaktur(f))
  BY <1>1, Rekamannya DEF JumlahData
<1>3. /\ TahuDokumen(t)'
      /\ \A a \in ToSet(Isi[d].alokasi) : Terjamin(t, a) => Terjamin(t, a)'
  BY <1>1, <1>2, SendiriTetap
<1>4. /\ \A f \in Faktur : MemegangX(t, KFaktur(f)) => NilaiBaru(t, f)' = NilaiBaru(t, f)
      /\ \A w \in tulis[t] : TulisanBenar(t, w) => TulisanBenar(t, w)'
  BY <1>1, <1>2, TulisanTetap
<1>5. /\ \A w \in tulis[t] : TulisanBenar(t, w)
      /\ Menerima(t) => \A a \in ToSet(Isi[d].alokasi) : Terjamin(t, a)
  BY <1>1, <1>2 DEF TahuUlang
<1>6. RekamBaru(g)' = RekamBaru(g)
  <2>1. g.aksi = "posting" => \A a \in ToSet(Isi[g.dok].alokasi) : MemegangX(t, KFaktur(a.faktur))
    BY <1>1, <1>5 DEF Menerima, Terjamin
  <2>2. Tenang(t) /\ dokumen' \in [Dokumen -> RekamDok]
    BY <1>2, DiamTenang DEF TipeDok
  <2>3. MemegangX(t, KDok(g.dok))
    BY <1>1, <1>2
  <2>4. QED BY <1>1, <1>2, <2>1, <2>2, <2>3, RekamTetap
<1>7. baru'[t] = RekamBaru(tugas[t])'
  <2>1. RekamBaru(tugas[t])' = RekamBaru(g)'
    BY <1>1
  <2>2. QED BY <1>2, <1>6, <2>1
<1>8. Menerima(t)' <=> Menerima(t)
  BY DEF Menerima
<1>9. QED BY <1>3, <1>4, <1>5, <1>7, <1>8

\* The snapshot is of the documents as they will be once t has committed.
LEMMA UlangTahu ==
  ASSUME IInv, JumlahTahu, JumlahData, NEW t \in Sesi, HitungUlang(t)
  PROVE  JumlahTahu' /\ JumlahData'
<1>0. Tahu(t) /\ pc[t] = "ulang" /\ Jalan(t) /\ daftar[t] # <<>>
  BY DEF JumlahTahu, HitungUlang
<1>a. PICK g \in Tugas, d \in Dokumen :
        /\ g = tugas[t] /\ g.aksi # "batal_faktur" /\ d = g.dok
        /\ TahuUlang(t) /\ baru[t] \in RekamDok
        /\ Menerima(t) => \A f \in Faktur : Menunjuk(d, f) => MemegangX(t, KFaktur(f))
  BY <1>0, Rekamannya
<1>b. PICK f \in Faktur : f = Head(daftar[t]) /\ Menunjuk(d, f)
  BY <1>0, <1>a, KepalaEkor DEF TahuUlang
<1>1. /\ UNCHANGED <<dataVars, tugas, daftar, baru, tulis>> /\ mulai' \in Nat
      /\ dokumen' = dokumen /\ TipeDok
  BY DEF HitungUlang, JumlahData, TipeBaris, dataVars
<1>2. PICK p \in Permintaan : Minta(t, p) /\ p = ForUpdate(KFaktur(f))
  BY <1>b, Diminta DEF HitungUlang
<1>3. /\ TipeKunci(Permintaan)' /\ (\A u \in Sesi : u # t => Lain(u))
      /\ pegang[t] \subseteq pegang'[t] /\ Dipenuhi(t, p)'
  BY <1>0, <1>2, MintaMaju, MintaSah DEF JumlahTahu, IInv
<1>4. /\ TipeSesi' /\ (\A u \in Sesi : u # t => Di(u))
      /\ pc'[t] = "tulis" /\ tugas'[t] = g /\ daftar'[t] = daftar[t] /\ baru'[t] = baru[t]
      /\ foto'[t] = IF Isi[d].jenis = "susulan" THEN StatusPenerimaan(Lihat(t), f)
                    ELSE StatusPembayaran(Lihat(t), f)
  BY <1>1, <1>a, <1>b DEF HitungUlang, JumlahTahu, TipeSesi, Di
<1>5. foto'[t] = NilaiBaru(t, f)
  BY <1>0, <1>4, <1>a DEF Lihat, NilaiBaru, NilaiCacheDi
<1>6. foto'[t] \in NilaiUntuk(d)
  BY <1>4 DEF NilaiUntuk, StatusPembayaran, StatusPenerimaan
<1>7. /\ TahuDokumen(t)' /\ baru'[t] = RekamBaru(tugas[t])'
      /\ Menerima(t)' <=> Menerima(t)
      /\ Menerima(t) => \A a \in ToSet(Isi[d].alokasi) : Terjamin(t, a)'
      /\ \A w \in tulis[t] : TulisanBenar(t, w)'
      /\ \A h \in Faktur : MemegangX(t, KFaktur(h)) => NilaiBaru(t, h)' = NilaiBaru(t, h)
  <2>1. pc[t] \in {"ulang", "tulis"} /\ d = tugas[t].dok /\ tugas'[t] = tugas[t] /\ baru'[t] = baru[t]
    BY <1>0, <1>1, <1>a
  <2>2. QED BY <1>0, <1>1, <1>3, <2>1, UlangTetap
<1>8. TahuUlang(t)'
  BY <1>1, <1>4, <1>7, <1>a DEF TahuUlang
<1>9. TahuTulis(t)'
  <2>1. Dipenuhi(t, ForUpdate(KFaktur(f)))'
    BY <1>2, <1>3 DEF ForUpdate, KFaktur
  <2>2. Menerima(t)' => foto'[t] = NilaiBaru(t, f)'
    BY <1>5, <1>7, <1>a, <1>b
  <2>3. QED BY <1>0, <1>4, <1>6, <1>a, <1>b, <2>1, <2>2 DEF TahuTulis
<1>10. Tahu(t)'
  BY <1>4, <1>7, <1>8, <1>9 DEF Tahu
<1>11. QED BY <1>1, <1>3, <1>4, <1>10, SajaTahu

LEMMA TulisTahu ==
  ASSUME IInv, JumlahTahu, JumlahData, NEW t \in Sesi, TulisUlang(t)
  PROVE  JumlahTahu' /\ JumlahData'
<1>0. Tahu(t) /\ pc[t] = "tulis" /\ Jalan(t) /\ TahuTulis(t)
  BY DEF JumlahTahu, TulisUlang, Tahu
<1>a. PICK g \in Tugas, d \in Dokumen :
        /\ g = tugas[t] /\ g.aksi # "batal_faktur" /\ d = g.dok
        /\ TahuUlang(t) /\ baru[t] \in RekamDok
        /\ Menerima(t) => \A f \in Faktur : Menunjuk(d, f) => MemegangX(t, KFaktur(f))
  BY <1>0, Rekamannya
<1>b. /\ daftar[t] \in Seq(Faktur) /\ daftar[t] # <<>>
      /\ \A f \in ToSet(daftar[t]) : Menunjuk(d, f)
      /\ \A f \in Faktur : Menunjuk(d, f) => f \in ToSet(daftar[t]) \/ \E w \in tulis[t] : w.faktur = f
  BY <1>0, <1>a DEF TahuUlang, TahuTulis
<1>c. PICK f \in Faktur : f = Head(daftar[t])
  BY <1>b, KepalaEkor
<1>d. /\ Tail(daftar[t]) \in Seq(Faktur) /\ ToSet(Tail(daftar[t])) \subseteq ToSet(daftar[t])
      /\ \A x \in ToSet(daftar[t]) : x = f \/ x \in ToSet(Tail(daftar[t]))
  BY <1>b, <1>c, KepalaEkor
<1>e. PICK w : w = [faktur |-> f, nilai |-> foto[t]]
  OBVIOUS
<1>1. /\ UNCHANGED <<kunciVars, dataVars, tugas, baru>> /\ mulai' \in Nat
      /\ dokumen' = dokumen /\ TipeDok
  BY DEF TulisUlang, JumlahData, TipeBaris, dataVars
<1>2. TipeKunci(Permintaan)' /\ (\A u \in Sesi : Lain(u)) /\ pegang[t] \subseteq pegang'[t]
  <2>1. TipeKunci(Permintaan)'
    BY <1>1 DEF JumlahTahu, TipeKunci, kunciVars
  <2>2. QED BY <1>1, <2>1, KunciDiam DEF IInv, kunciVars
<1>3. /\ TipeSesi' /\ (\A u \in Sesi : u # t => Di(u))
      /\ pc'[t] = "ulang" /\ tugas'[t] = g /\ daftar'[t] = Tail(daftar[t]) /\ baru'[t] = baru[t]
      /\ foto'[t] = "" /\ tulis'[t] = tulis[t] \cup {w}
  BY <1>1, <1>a, <1>c, <1>e DEF TulisUlang, JumlahTahu, TipeSesi, Di
<1>4. /\ TahuDokumen(t)' /\ baru'[t] = RekamBaru(tugas[t])'
      /\ Menerima(t)' <=> Menerima(t)
      /\ Menerima(t) => \A a \in ToSet(Isi[d].alokasi) : Terjamin(t, a)'
      /\ \A v \in tulis[t] : TulisanBenar(t, v)'
      /\ \A h \in Faktur : MemegangX(t, KFaktur(h)) => NilaiBaru(t, h)' = NilaiBaru(t, h)
  <2>1. pc[t] \in {"ulang", "tulis"} /\ d = tugas[t].dok /\ tugas'[t] = tugas[t] /\ baru'[t] = baru[t]
    BY <1>0, <1>1, <1>a
  <2>2. QED BY <1>0, <1>1, <1>2, <2>1, UlangTetap
<1>5. TulisanBenar(t, w)'
  <2>1. /\ foto[t] \in NilaiUntuk(d) /\ Dipenuhi(t, ForUpdate(KFaktur(f)))
        /\ Menerima(t) => foto[t] = NilaiBaru(t, f)
    BY <1>0, <1>a, <1>c DEF TahuTulis
  <2>2. MemegangX(t, KFaktur(f))
    BY <1>0, <2>1, Dapat DEF ForUpdate
  <2>3. MemegangX(t, KFaktur(f))'
    BY <1>2, <2>2 DEF MemegangX, KFaktur
  <2>4. NilaiBaru(t, f)' = NilaiBaru(t, f)
    BY <1>4, <2>2
  <2>5. w.faktur = f /\ w.nilai = foto[t] /\ w \in [faktur : Faktur, nilai : NilaiUntuk(d)]
    BY <1>e, <2>1
  <2>6. QED BY <1>3, <1>4, <1>a, <2>1, <2>3, <2>4, <2>5 DEF TulisanBenar
<1>6. TahuUlang(t)'
  <2>1. \A v \in tulis'[t] : TulisanBenar(t, v)'
    BY <1>3, <1>4, <1>5
  <2>2. \A h \in Faktur : Menunjuk(d, h) => h \in ToSet(daftar'[t]) \/ \E v \in tulis'[t] : v.faktur = h
    <3>1. w.faktur = f /\ w \in tulis'[t] /\ tulis[t] \subseteq tulis'[t]
      BY <1>3, <1>e
    <3>2. ASSUME NEW h \in Faktur, Menunjuk(d, h)
          PROVE  h = f \/ h \in ToSet(Tail(daftar[t])) \/ \E v \in tulis[t] : v.faktur = h
      BY <1>b, <1>d, <3>2
    <3>3. QED BY <1>3, <3>1, <3>2
  <2>3. daftar'[t] \in Seq(Faktur) /\ \A h \in ToSet(daftar'[t]) : Menunjuk(d, h)
    BY <1>3, <1>b, <1>d
  <2>4. QED BY <1>3, <1>4, <1>a, <2>1, <2>2, <2>3 DEF TahuUlang
<1>7. Tahu(t)'
  BY <1>3, <1>4, <1>6 DEF Tahu
<1>8. QED BY <1>1, <1>2, <1>3, <1>7, SajaTahu

-----------------------------------------------------------------------------
(* The COMMIT.                                                             *)
\* The document d of t goes from the rows D to the rows E.
Terikat(t, g, d, D, E) ==
  /\ D = dokumen /\ E = dokumen' /\ g = tugas[t] /\ d = g.dok
  /\ D \in [Dokumen -> RekamDok] /\ E \in [Dokumen -> RekamDok]
  /\ g.aksi # "batal_faktur" /\ g.aksi \in {"posting", "batal", "cair", "tolak"}
  /\ g.aksi \in {"cair", "tolak"} => Isi[d].jenis \in Pembayaran
  /\ Boleh(g) /\ MemegangX(t, KDok(d)) /\ E = [D EXCEPT ![d] = RekamBaru(g)]
  /\ Isi[d].jenis # "giro" <=> E[d].giro = "TANPA"
  /\ \A f \in Faktur : Menunjuk(d, f) => MemegangX(t, KFaktur(f))
  /\ g.aksi \in {"posting", "cair"} =>
       \A a \in ToSet(Isi[d].alokasi) : a.jumlah <= Sisa(d, a.faktur)

LEMMA SelesaiTerikat ==
  ASSUME JumlahTahu, JumlahData, NEW t \in Sesi, Selesai(t)
  PROVE  \E g, d, D, E : g \in Tugas /\ d \in Dokumen /\ Terikat(t, g, d, D, E)
<1>0. Tahu(t) /\ pc[t] = "ulang" /\ daftar[t] = <<>>
  BY DEF JumlahTahu, Selesai
<1>1. PICK g \in Tugas, d \in Dokumen :
        /\ g = tugas[t] /\ g.aksi # "batal_faktur" /\ d = g.dok
        /\ TahuDokumen(t) /\ TahuUlang(t) /\ MemegangX(t, KDok(d)) /\ Boleh(g)
        /\ baru[t] = RekamBaru(g) /\ baru[t] \in RekamDok
        /\ (Isi[d].jenis # "giro" <=> baru[t].giro = "TANPA")
  BY <1>0, Rekamannya
<1>2. /\ g.aksi \in {"posting", "batal", "cair", "tolak"}
      /\ g.aksi \in {"cair", "tolak"} => Isi[d].jenis \in Pembayaran
  BY <1>1, TugasDok
<1>3. dokumen \in [Dokumen -> RekamDok] /\ dokumen' = [dokumen EXCEPT ![d] = RekamBaru(g)]
  BY <1>1 DEF JumlahData, TipeDok, Selesai
<1>4. dokumen' \in [Dokumen -> RekamDok] /\ dokumen'[d] = baru[t]
  BY <1>1, <1>3
<1>5. \A f \in Faktur : Menunjuk(d, f) => MemegangX(t, KFaktur(f))
  <2>1. ToSet(daftar[t]) = {}
    BY <1>0 DEF ToSet
  <2>2. /\ \A f \in Faktur : Menunjuk(d, f) => f \in ToSet(daftar[t]) \/ \E w \in tulis[t] : w.faktur = f
        /\ \A w \in tulis[t] : TulisanBenar(t, w)
    BY <1>1 DEF TahuUlang
  <2>3. QED BY <2>1, <2>2 DEF TulisanBenar
<1>6. g.aksi \in {"posting", "cair"} => \A a \in ToSet(Isi[d].alokasi) : a.jumlah <= Sisa(d, a.faktur)
  BY <1>1 DEF TahuUlang, Menerima, Terjamin
<1>7. Terikat(t, g, d, dokumen, dokumen')
  BY <1>1, <1>2, <1>3, <1>4, <1>5, <1>6 DEF Terikat
<1>8. QED BY <1>7

\* What d adds to a sum of the purchase f, once it counts.
LEMMA BobotJumlah ==
  ASSUME NEW S, NEW d \in Dokumen, NEW f \in Faktur, NEW x \in Int, 0 <= x,
         \A a \in ToSet(Isi[d].alokasi) : a.faktur = f => a.jumlah <= x
  PROVE  Bobot(S, d, f) \in Nat /\ Bobot(S, d, f) <= x
<1>1. CASE Menunjuk(d, f)
  <2>1. PICK a \in ToSet(Isi[d].alokasi) : a.faktur = f
    BY <1>1 DEF Menunjuk
  <2>2. Bagian[d][f] = a.jumlah /\ a.jumlah <= x
    BY <2>1, BagianBenar
  <2>3. QED BY <2>2, BobotAlami DEF Bobot
<1>2. CASE ~Menunjuk(d, f)
  BY <1>2, BagianBenar, BobotAlami DEF Bobot
<1>3. QED BY <1>1, <1>2

\* Who counts after the commit counted before, d apart.
LEMMA SelesaiPosted ==
  ASSUME NEW t, NEW g \in Tugas, NEW d \in Dokumen, NEW D, NEW E, Terikat(t, g, d, D, E)
  PROVE  /\ \A e \in Dokumen \ {d} :
              /\ D[e] = E[e]
              /\ \A jenis : e \in Posted(E, jenis) <=> e \in Posted(D, jenis)
              /\ e \in Berlaku(E) <=> e \in Berlaku(D)
         /\ \A jenis : d \in Posted(E, jenis) => g.aksi \in {"posting", "cair", "tolak"} /\ Isi[d].jenis \in jenis
         /\ \A jenis : g.aksi \in {"batal", "cair", "tolak"} => (d \in Posted(E, jenis) => d \in Posted(D, jenis))
         /\ g.aksi \in {"batal", "tolak"} => d \notin Berlaku(E)
         /\ d \in Berlaku(E) => Isi[d].jenis \in Pembayaran
<1>1. \A e \in Dokumen \ {d} : D[e] = E[e]
  BY DEF Terikat
<1>2. E[d] = RekamBaru(g) /\ D[d] = dokumen[g.dok] /\ D[d] \in RekamDok
  BY DEF Terikat
<1>3. /\ g.aksi = "batal" => E[d].status = "BATAL"
      /\ g.aksi \in {"cair", "tolak"} => E[d].status = D[d].status
      /\ g.aksi = "tolak" => E[d].giro = "TOLAK"
  BY <1>2 DEF RekamBaru, RekamDok, Terikat
<1>4. D \in [Dokumen -> RekamDok] /\ g.aksi \in {"posting", "batal", "cair", "tolak"}
  BY DEF Terikat
<1>5. QED BY <1>1, <1>3, <1>4 DEF Posted, Berlaku

LEMMA SelesaiSusulan ==
  ASSUME Tercukupi, NEW t, NEW g \in Tugas, NEW d \in Dokumen, NEW D, NEW E,
         Terikat(t, g, d, D, E), NEW f \in Faktur
  PROVE  NilaiFaktur[f].terima + Susulan(E, f) <= NilaiFaktur[f].qty
<1> DEFINE S == Posted(D, {"susulan"})
<1> DEFINE T == Posted(E, {"susulan"})
<1>0. /\ \A e \in Dokumen \ {d} : e \in Posted(E, {"susulan"}) <=> e \in Posted(D, {"susulan"})
      /\ d \in Posted(E, {"susulan"}) => g.aksi \in {"posting", "cair", "tolak"} /\ Isi[d].jenis \in {"susulan"}
      /\ g.aksi \in {"batal", "cair", "tolak"} => (d \in Posted(E, {"susulan"}) => d \in Posted(D, {"susulan"}))
  BY SelesaiPosted
<1>1. S \in SUBSET Dokumen /\ T \in SUBSET Dokumen /\ \A e \in Dokumen \ {d} : e \in S <=> e \in T
  BY <1>0 DEF Posted
<1>2. Susulan(D, f) = JumlahBagian(S, f) /\ Susulan(E, f) = JumlahBagian(T, f) /\ D = dokumen
  BY DEF Susulan, Terikat
<1>3. d \in T => g.aksi \in {"posting", "cair", "tolak"} /\ Isi[d].jenis = "susulan"
  BY <1>0
<1>3a. g.aksi \in {"batal", "cair", "tolak"} => (d \in T => d \in S)
  BY <1>0
<1> HIDE DEF S, T
<1>4. /\ JumlahBagian(S, f) \in Nat /\ JumlahBagian(T, f) \in Nat
      /\ JumlahBagian(T, f) + Bobot(S, d, f) = JumlahBagian(S, f) + Bobot(T, d, f)
      /\ Bobot(S, d, f) \in Nat /\ Bobot(T, d, f) \in Nat
  BY <1>1, JumlahPisah, BobotAlami
<1>5. /\ NilaiFaktur[f].terima \in Nat /\ NilaiFaktur[f].qty \in Nat
      /\ NilaiFaktur[f].terima + JumlahBagian(S, f) <= NilaiFaktur[f].qty
  BY <1>2, AsumsiFaktur DEF Tercukupi, AsumsiFaktur
<1>6. CASE d \in T /\ g.aksi = "posting"
  <2> DEFINE x == NilaiFaktur[f].qty - NilaiFaktur[f].terima - JumlahBagian(S, f)
  <2>1. Sisa(d, f) = x
    BY <1>2, <1>3, <1>6 DEF Sisa, SisaSusulan, Pembayaran
  <2>2. \A a \in ToSet(Isi[d].alokasi) : a.faktur = f => a.jumlah <= x
    BY <1>6, <2>1 DEF Terikat
  <2>3. x \in Int /\ 0 <= x
    BY <1>4, <1>5
  <2>4. Bobot(T, d, f) <= x
    <3> HIDE DEF x
    <3>1. QED BY <2>2, <2>3, BobotJumlah
  <2>5. QED BY <1>2, <1>4, <1>5, <2>4
<1>7. CASE d \notin T \/ g.aksi # "posting"
  <2>1. d \in T => d \in S
    BY <1>3, <1>3a, <1>7
  <2>2. Bobot(T, d, f) <= Bobot(S, d, f)
    BY <1>4, <2>1 DEF Bobot
  <2>3. QED BY <1>2, <1>4, <1>5, <2>2
<1>8. QED BY <1>6, <1>7

LEMMA SelesaiRetur ==
  ASSUME NEW t, NEW g \in Tugas, NEW d \in Dokumen, NEW D, NEW E,
         Terikat(t, g, d, D, E), NEW f \in Faktur, Retur(E, f) > Retur(D, f)
  PROVE  Retur(E, f) <= NilaiFaktur[f].terima + Susulan(E, f)
<1> DEFINE S == Posted(D, {"retur"})
<1> DEFINE T == Posted(E, {"retur"})
<1> DEFINE P == Posted(D, {"susulan"})
<1> DEFINE Q == Posted(E, {"susulan"})
<1>0. PICK J, K : J = {"retur"} /\ K = {"susulan"}
  OBVIOUS
<1>0a. \A e \in Dokumen \ {d} : e \in Posted(E, K) <=> e \in Posted(D, K)
  BY SelesaiPosted
<1>0b. \A e \in Dokumen \ {d} : e \in Posted(E, J) <=> e \in Posted(D, J)
  BY SelesaiPosted
<1>0c. d \in Posted(E, J) => g.aksi \in {"posting", "cair", "tolak"} /\ Isi[d].jenis \in J
  BY SelesaiPosted
<1>0d. g.aksi \in {"batal", "cair", "tolak"} => (d \in Posted(E, J) => d \in Posted(D, J))
  BY SelesaiPosted
<1>1. /\ S \in SUBSET Dokumen /\ T \in SUBSET Dokumen /\ P \in SUBSET Dokumen /\ Q \in SUBSET Dokumen
      /\ \A e \in Dokumen \ {d} : (e \in S <=> e \in T) /\ (e \in P <=> e \in Q)
  BY <1>0, <1>0a, <1>0b DEF Posted
<1>2. /\ Retur(D, f) = JumlahBagian(S, f) /\ Retur(E, f) = JumlahBagian(T, f)
      /\ Susulan(D, f) = JumlahBagian(P, f) /\ Susulan(E, f) = JumlahBagian(Q, f) /\ D = dokumen
  BY DEF Susulan, Retur, Terikat
<1>3. d \in T => g.aksi \in {"posting", "cair", "tolak"} /\ Isi[d].jenis = "retur"
  BY <1>0, <1>0c
<1>3a. g.aksi \in {"batal", "cair", "tolak"} => (d \in T => d \in S)
  BY <1>0, <1>0d
<1>3b. Isi[d].jenis = "retur" => d \notin P /\ d \notin Q
  BY DEF Posted
<1> HIDE DEF S, T, P, Q
<1>4. /\ JumlahBagian(S, f) \in Nat /\ JumlahBagian(T, f) \in Nat
      /\ JumlahBagian(T, f) + Bobot(S, d, f) = JumlahBagian(S, f) + Bobot(T, d, f)
      /\ Bobot(S, d, f) \in Nat /\ Bobot(T, d, f) \in Nat
  BY <1>1, JumlahPisah, BobotAlami
<1>4a. /\ JumlahBagian(P, f) \in Nat /\ JumlahBagian(Q, f) \in Nat
       /\ JumlahBagian(Q, f) + Bobot(P, d, f) = JumlahBagian(P, f) + Bobot(Q, d, f)
  BY <1>1, JumlahPisah
<1>5. NilaiFaktur[f].terima \in Nat
  BY AsumsiFaktur DEF AsumsiFaktur
<1>6. Bobot(T, d, f) > Bobot(S, d, f)
  BY <1>2, <1>4
<1>7. d \in T /\ d \notin S
  BY <1>4, <1>6 DEF Bobot
<1>8. g.aksi = "posting" /\ Isi[d].jenis = "retur"
  BY <1>3, <1>3a, <1>7
<1>9. JumlahBagian(Q, f) = JumlahBagian(P, f)
  BY <1>3b, <1>4a, <1>8 DEF Bobot
<1>10. Bobot(T, d, f) <= NilaiFaktur[f].terima + JumlahBagian(P, f) - JumlahBagian(S, f)
  <2> DEFINE x == NilaiFaktur[f].terima + JumlahBagian(P, f) - JumlahBagian(S, f)
  <2>1. Sisa(d, f) = x
    BY <1>2, <1>8 DEF Sisa, DapatDiretur, Pembayaran
  <2>2. \A a \in ToSet(Isi[d].alokasi) : a.faktur = f => a.jumlah <= x
    BY <1>8, <2>1 DEF Terikat
  <2>3. x \in Int
    BY <1>4, <1>4a, <1>5
  <2>4. Menunjuk(d, f)
    BY <1>4, <1>6, BagianBenar DEF Bobot
  <2>5. PICK a \in ToSet(Isi[d].alokasi) : a.faktur = f
    BY <2>4 DEF Menunjuk
  <2>6. Bobot(T, d, f) = a.jumlah
    BY <1>7, <2>5, BagianBenar DEF Bobot
  <2>7. QED BY <2>2, <2>5, <2>6
<1>11. QED BY <1>2, <1>4, <1>4a, <1>5, <1>9, <1>10

\* The credit a return freezes is what the others leave of the total.
LEMMA SelesaiKredit ==
  ASSUME KreditTertutup, NEW t, NEW g \in Tugas, NEW d \in Dokumen, NEW D, NEW E,
         Terikat(t, g, d, D, E), NEW f \in Faktur
  PROVE  /\ KreditRetur(E, f) <= NilaiFaktur[f].total
         /\ KreditRetur(D, f) \in Nat /\ KreditRetur(E, f) \in Nat
         /\ Isi[d].jenis # "retur" => KreditRetur(E, f) = KreditRetur(D, f)
<1>1. /\ D \in [Dokumen -> RekamDok] /\ E \in [Dokumen -> RekamDok] /\ D = dokumen /\ d = g.dok
      /\ \A e \in Dokumen \ {d} : E[e] = D[e]
      /\ E[d] = RekamBaru(g) /\ E = [D EXCEPT ![d] = RekamBaru(g)] /\ Boleh(g)
  BY DEF Terikat
<1>2. \A e \in Dokumen \ {d} : Kredit(E, e, f) = Kredit(D, e, f)
  BY <1>1 DEF Kredit, Posted
<1>3. /\ KreditRetur(D, f) \in Nat /\ KreditRetur(E, f) \in Nat
      /\ KreditRetur(E, f) + Kredit(D, d, f) = KreditRetur(D, f) + Kredit(E, d, f)
  <2>1. D \in [Dokumen -> RekamDok] /\ E \in [Dokumen -> RekamDok]
    BY <1>1
  <2>2. QED BY <1>2, <2>1, KreditPisah
<1>4. Kredit(D, d, f) \in Nat /\ Kredit(E, d, f) \in Nat
  BY <1>1, KreditAlami
<1>5. KreditRetur(D, f) <= NilaiFaktur[f].total /\ NilaiFaktur[f].total \in Nat
  BY <1>1, AsumsiFaktur DEF KreditTertutup, AsumsiFaktur
<1>6. CASE Isi[d].jenis # "retur"
  <2>1. Kredit(D, d, f) = 0 /\ Kredit(E, d, f) = 0
    BY <1>6 DEF Kredit, Posted
  <2>2. QED BY <1>3, <1>5, <2>1
<1>7. CASE Isi[d].jenis = "retur" /\ (g.aksi # "posting" \/ ~Menunjuk(d, f))
  <2>1. Menunjuk(d, f) => g.aksi = "batal"
    BY <1>7 DEF Terikat, Pembayaran
  <2>2. Menunjuk(d, f) => E[d].status = "BATAL"
    <3> SUFFICES ASSUME Menunjuk(d, f) PROVE E[d].status = "BATAL"
      OBVIOUS
    <3>1. PICK lama \in RekamDok : lama = dokumen[d]
      BY <1>1
    <3>2. g.aksi = "batal" /\ dokumen[g.dok] = lama
      BY <1>1, <2>1, <3>1
    <3>3. RekamBaru(g) = [lama EXCEPT !.status = "BATAL"]
      BY <3>2 DEF RekamBaru
    <3>4. QED BY <1>1, <3>1, <3>3 DEF RekamDok
  <2>3. Kredit(E, d, f) = 0
    BY <2>2 DEF Kredit, Posted
  <2>4. QED BY <1>3, <1>4, <1>5, <1>7, <2>3
<1>8. CASE Isi[d].jenis = "retur" /\ g.aksi = "posting" /\ Menunjuk(d, f)
  <2>1. PICK a \in Alokasi : a = Isi[d].alokasi[1] /\ \A x \in ToSet(Isi[d].alokasi) : x = a
    BY <1>8, SatuBaris DEF Pembayaran
  <2>2. a.faktur = f /\ a.jumlah \in Nat
    BY <1>8, <2>1 DEF Menunjuk, Alokasi
  <2>3. D[d].status = "DIAJUKAN"
    BY <1>1, <1>8 DEF Boleh, StatusSiap, Pembayaran
  <2>4. [D EXCEPT ![d].status = "DIAJUKAN"] = D
    BY <1>1, <2>3 DEF RekamDok
  <2>5. HitungKredit(D, d, f, a.jumlah) \in Nat
        /\ HitungKredit(D, d, f, a.jumlah) + KreditRetur(D, f) <= NilaiFaktur[f].total
    BY <1>1, <1>5, <2>2, <2>4, KreditTipe
  <2>6. E[d] = [D[d] EXCEPT !.status = "POSTED", !.kredit = HitungKredit(D, d, f, a.jumlah)]
    BY <1>1, <1>8, <2>1, <2>2 DEF RekamBaru
  <2>7. E[d].kredit = HitungKredit(D, d, f, a.jumlah)
    BY <1>1, <2>6 DEF RekamDok
  <2>8. Kredit(E, d, f) <= HitungKredit(D, d, f, a.jumlah)
    BY <2>5, <2>7 DEF Kredit
  <2>9. QED BY <1>3, <1>4, <1>5, <1>8, <2>5, <2>8
<1>9. QED BY <1>6, <1>7, <1>8

\* What a payment makes effective is what the others leave of the total.
LEMMA SelesaiBayar ==
  ASSUME KreditTertutup, NEW t, NEW g \in Tugas, NEW d \in Dokumen, NEW D, NEW E,
         Terikat(t, g, d, D, E), NEW f \in Faktur, AlokasiEfektif(E, f) > AlokasiEfektif(D, f)
  PROVE  AlokasiEfektif(E, f) + KreditRetur(E, f) <= NilaiFaktur[f].total
<1> DEFINE S == Berlaku(D)
<1> DEFINE T == Berlaku(E)
<1> DEFINE R == Berlaku(D) \ {d}
<1>1. \A e \in Dokumen \ {d} : e \in T <=> e \in S
  BY SelesaiPosted
<1>2. S \in SUBSET Dokumen /\ T \in SUBSET Dokumen /\ R \in SUBSET Dokumen
  BY DEF Berlaku, Posted
<1>3. \A e \in Dokumen \ {d} : e \in R <=> e \in S
  OBVIOUS
<1>4. /\ AlokasiEfektif(D, f) = JumlahBagian(S, f) /\ AlokasiEfektif(E, f) = JumlahBagian(T, f)
      /\ SisaUtang(d, f) = NilaiFaktur[f].total - JumlahBagian(R, f) - KreditRetur(D, f)
  BY DEF AlokasiEfektif, Terikat, SisaUtang
<1>5. (d \in T => Isi[d].jenis \in Pembayaran) /\ (g.aksi \in {"batal", "tolak"} => d \notin T) /\ d \notin R
  BY SelesaiPosted
<1> HIDE DEF S, T, R
<1>6. /\ JumlahBagian(S, f) \in Nat /\ JumlahBagian(T, f) \in Nat /\ JumlahBagian(R, f) \in Nat
      /\ JumlahBagian(T, f) + Bobot(S, d, f) = JumlahBagian(S, f) + Bobot(T, d, f)
  BY <1>1, <1>2, <1>3, JumlahPisah
<1>6a. JumlahBagian(T, f) + Bobot(R, d, f) = JumlahBagian(R, f) + Bobot(T, d, f)
  BY <1>1, <1>2, <1>3, JumlahPisah
<1>7. Bobot(S, d, f) \in Nat /\ Bobot(T, d, f) \in Nat /\ Bobot(R, d, f) = 0
  BY <1>5, BobotAlami DEF Bobot
<1>8. Bobot(T, d, f) > 0
  BY <1>4, <1>6, <1>7
<1>9. d \in T /\ Menunjuk(d, f)
  BY <1>8, BagianBenar DEF Bobot
<1>10. g.aksi \in {"posting", "cair"} /\ Isi[d].jenis \in Pembayaran
  BY <1>5, <1>9 DEF Terikat
<1>11. PICK a \in ToSet(Isi[d].alokasi) : a.faktur = f
  BY <1>9 DEF Menunjuk
<1>12. Bobot(T, d, f) = a.jumlah
  BY <1>9, <1>11, BagianBenar DEF Bobot
<1>13. a.jumlah <= NilaiFaktur[f].total - JumlahBagian(R, f) - KreditRetur(D, f)
  <2>1. a.jumlah <= Sisa(d, f)
    BY <1>10, <1>11 DEF Terikat
  <2>2. Sisa(d, f) = SisaUtang(d, f)
    BY <1>10 DEF Sisa, Pembayaran
  <2>3. QED BY <1>4, <2>1, <2>2
<1>14. /\ KreditRetur(D, f) \in Nat /\ KreditRetur(E, f) = KreditRetur(D, f)
       /\ NilaiFaktur[f].total \in Nat
  <2>1. Isi[d].jenis # "retur"
    BY <1>10 DEF Pembayaran
  <2>2. KreditRetur(D, f) \in Nat /\ KreditRetur(E, f) = KreditRetur(D, f)
    BY <2>1, SelesaiKredit
  <2>3. QED BY <2>2, AsumsiFaktur DEF AsumsiFaktur
<1>15. QED BY <1>4, <1>6, <1>6a, <1>7, <1>12, <1>13, <1>14

\* Who holds the row of another document or purchase sees nothing of it.
LEMMA SelesaiTenang ==
  ASSUME IInv, NEW t \in Sesi, NEW g \in Tugas, NEW d \in Dokumen, NEW D, NEW E,
         Terikat(t, g, d, D, E), NEW u \in Sesi, u # t
  PROVE  Tenang(u)
<1>1. \A e \in Dokumen \ {d} : E[e] = D[e]
  BY DEF Terikat
<1>2. ASSUME NEW f \in Faktur, MemegangX(u, KFaktur(f)) PROVE Setara(D, E, f)
  <2>1. ~MemegangX(t, KFaktur(f))
    BY <1>2, PemegangTunggal DEF IInv
  <2>2. ~Menunjuk(d, f)
    BY <2>1 DEF Terikat
  <2>3. QED BY <1>1, <2>2 DEF Setara
<1>3. ASSUME NEW e \in Dokumen, MemegangX(u, KDok(e)) PROVE E[e] = D[e]
  <2>1. e # d
    BY <1>3, PemegangTunggal DEF IInv, Terikat
  <2>2. QED BY <1>1, <2>1
<1>4. D = dokumen /\ E = dokumen'
  BY DEF Terikat
<1>5. QED BY <1>2, <1>3, <1>4 DEF Tenang

\* What t wrote to a cache is a value of it, and in its place.
LEMMA TulisanPas ==
  ASSUME NEW t, \A w \in tulis[t] : TulisanBenar(t, w),
         NEW c \in [Faktur -> NilaiUntuk(tugas[t].dok)]
  PROVE  /\ DenganTulisan(c, t) \in [Faktur -> NilaiUntuk(tugas[t].dok)]
         /\ Menerima(t) => \A f \in Faktur :
              (\E w \in tulis[t] : w.faktur = f) => DenganTulisan(c, t)[f] = NilaiBaru(t, f)
<1>1. ASSUME NEW f \in Faktur, \E w \in tulis[t] : w.faktur = f
      PROVE  \E w \in tulis[t] : w.faktur = f /\ DenganTulisan(c, t)[f] = w.nilai
  <2>1. PICK w : w = CHOOSE v \in tulis[t] : v.faktur = f
    OBVIOUS
  <2>2. w \in tulis[t] /\ w.faktur = f
    BY <1>1, <2>1
  <2>3. DenganTulisan(c, t)[f] = w.nilai
    BY <1>1, <2>1 DEF DenganTulisan
  <2>4. QED BY <2>2, <2>3
<1>2. ASSUME NEW f \in Faktur, ~\E w \in tulis[t] : w.faktur = f
      PROVE  DenganTulisan(c, t)[f] = c[f]
  BY <1>2 DEF DenganTulisan
<1>3. \A w \in tulis[t] : w.nilai \in NilaiUntuk(tugas[t].dok)
  BY DEF TulisanBenar
<1>4. \A f \in Faktur : DenganTulisan(c, t)[f] \in NilaiUntuk(tugas[t].dok)
  BY <1>1, <1>2, <1>3
<1>5. DenganTulisan(c, t) = [f \in Faktur |-> DenganTulisan(c, t)[f]]
  BY DEF DenganTulisan
<1>6. Menerima(t) => \A w \in tulis[t] : w.nilai = NilaiBaru(t, w.faktur)
  BY DEF TulisanBenar
<1>7. ASSUME Menerima(t), NEW f \in Faktur, \E w \in tulis[t] : w.faktur = f
      PROVE  DenganTulisan(c, t)[f] = NilaiBaru(t, f)
  <2>1. PICK w \in tulis[t] : w.faktur = f /\ DenganTulisan(c, t)[f] = w.nilai
    BY <1>1, <1>7
  <2>2. w.nilai = NilaiBaru(t, w.faktur)
    BY <1>6, <1>7
  <2>3. NilaiBaru(t, w.faktur) = NilaiBaru(t, f)
    BY <2>1
  <2>4. QED BY <2>1, <2>2, <2>3
<1>8. QED BY <1>4, <1>5, <1>7

LEMMA SelesaiTahu ==
  ASSUME IInv, JumlahTahu, JumlahData, NEW t \in Sesi, Selesai(t)
  PROVE  JumlahTahu' /\ JumlahData'
<1>1. PICK g, d, D, E : g \in Tugas /\ d \in Dokumen /\ Terikat(t, g, d, D, E)
  BY SelesaiTerikat
<1>2. /\ D = dokumen /\ E = dokumen' /\ E \in [Dokumen -> RekamDok]
      /\ \A e \in Dokumen \ {d} : E[e] = D[e]
      /\ Isi[d].jenis # "giro" <=> E[d].giro = "TANPA"
  BY <1>1 DEF Terikat
<1>3. TipeDok'
  BY <1>2 DEF JumlahData, TipeDok
<1>4. Tercukupi'
  <2>1. \A f \in Faktur : NilaiFaktur[f].terima + Susulan(E, f) <= NilaiFaktur[f].qty
    BY <1>1, SelesaiSusulan DEF JumlahData
  <2>2. QED BY <1>2, <2>1 DEF Tercukupi
<1>5. KreditTertutup'
  <2>1. \A f \in Faktur : KreditRetur(E, f) <= NilaiFaktur[f].total
    BY <1>1, SelesaiKredit DEF JumlahData
  <2>2. QED BY <1>2, <2>1 DEF KreditTertutup
<1>6. \A u \in Sesi : u # t => Tenang(u)
  BY <1>1, SelesaiTenang
<1>7. Bersih(t) /\ UNCHANGED statusFaktur /\ pc[t] = "ulang" /\ Tahu(t)
  BY DEF Selesai, JumlahTahu
<1>8. JumlahTahu' /\ mulai' = mulai
  BY <1>2, <1>6, <1>7, UsaiTahu DEF JumlahData
<1>9. TipeBaris'
  <2>1. \A w \in tulis[t] : TulisanBenar(t, w)
    BY <1>7 DEF Tahu, TahuUlang
  <2>2. /\ Isi[tugas[t].dok].jenis = "susulan" => terima \in [Faktur -> NilaiUntuk(tugas[t].dok)]
        /\ Isi[tugas[t].dok].jenis # "susulan" => bayar \in [Faktur -> NilaiUntuk(tugas[t].dok)]
    BY DEF JumlahData, TipeBaris, NilaiUntuk
  <2>3. /\ Isi[tugas[t].dok].jenis = "susulan" => terima' \in [Faktur -> {"KURANG", "LENGKAP"}] /\ bayar' = bayar
        /\ Isi[tugas[t].dok].jenis # "susulan" => bayar' \in [Faktur -> {"BELUM", "SEBAGIAN", "LUNAS"}] /\ terima' = terima
    <3>1. CASE Isi[tugas[t].dok].jenis = "susulan"
      <4>1. terima' = DenganTulisan(terima, t) /\ bayar' = bayar
        BY <3>1 DEF Selesai
      <4>2. DenganTulisan(terima, t) \in [Faktur -> NilaiUntuk(tugas[t].dok)]
        BY <2>1, <2>2, <3>1, TulisanPas
      <4>3. QED BY <3>1, <4>1, <4>2 DEF NilaiUntuk
    <3>2. CASE Isi[tugas[t].dok].jenis # "susulan"
      <4>1. bayar' = DenganTulisan(bayar, t) /\ terima' = terima
        BY <3>2 DEF Selesai
      <4>2. DenganTulisan(bayar, t) \in [Faktur -> NilaiUntuk(tugas[t].dok)]
        BY <2>1, <2>2, <3>2, TulisanPas
      <4>3. QED BY <3>2, <4>1, <4>2 DEF NilaiUntuk
    <3>3. QED BY <3>1, <3>2
  <2>4. QED BY <1>7, <1>8, <2>3 DEF JumlahData, TipeBaris
<1>10. QED BY <1>3, <1>4, <1>5, <1>8, <1>9 DEF JumlahData

LEMMA BatalFakturTahu ==
  ASSUME IInv, JumlahTahu, JumlahData, NEW t \in Sesi, BatalFaktur(t)
  PROVE  JumlahTahu' /\ JumlahData'
<1>1. CASE /\ statusFaktur' = [statusFaktur EXCEPT ![tugas[t].faktur] = "BATAL"]
           /\ Bersih(t) /\ UNCHANGED <<dokumen, bayar, terima>>
  <2>1. dokumen' \in [Dokumen -> RekamDok] /\ TipeDok /\ dokumen' = dokumen
    BY <1>1 DEF JumlahData, TipeDok
  <2>2. \A u : Tenang(u)
    BY <2>1, DiamTenang
  <2>3. JumlahTahu' /\ mulai' = mulai
    BY <1>1, <2>1, <2>2, UsaiTahu
  <2>4. TipeBaris' /\ TipeDok'
    BY <1>1, <2>3 DEF JumlahData, TipeBaris, TipeDok
  <2>5. \A f : Susulan(dokumen, f)' = Susulan(dokumen, f) /\ KreditRetur(dokumen, f)' = KreditRetur(dokumen, f)
    BY <2>1
  <2>6. QED BY <2>3, <2>4, <2>5 DEF JumlahData, Tercukupi, KreditTertutup
<1>2. CASE Gagal(t)
  BY <1>2, GagalTahu
<1>3. QED BY <1>1, <1>2 DEF BatalFaktur

\* Submitting and rejecting: no sum counts the row, and nobody holds it.
LEMMA PindahSetara ==
  ASSUME JumlahData, NEW d \in Dokumen, Ajukan(d) \/ Tolak(d)
  PROVE  /\ dokumen' \in [Dokumen -> RekamDok] /\ \A f : Setara(dokumen, dokumen', f)
         /\ \A e \in Dokumen : e # d => dokumen'[e] = dokumen[e]
         /\ dokumen'[d].giro = dokumen[d].giro
<1>1. PICK ke \in {"DIAJUKAN", "DRAFT"} : dokumen' = [dokumen EXCEPT ![d].status = ke]
  BY DEF Ajukan, Tolak, Pindah
<1>2. dokumen \in [Dokumen -> RekamDok] /\ dokumen[d].status \in Terbuka
  BY DEF Ajukan, Tolak, Pindah, JumlahData, TipeDok, Terbuka
<1>3. dokumen' \in [Dokumen -> RekamDok] /\ dokumen'[d].status \in Terbuka /\ dokumen'[d].giro = dokumen[d].giro
  BY <1>1, <1>2 DEF RekamDok, StatusDok, Terbuka
<1>4. \A e \in Dokumen : e # d => dokumen'[e] = dokumen[e]
  BY <1>1, <1>2
<1>5. QED BY <1>2, <1>3, <1>4 DEF Setara

LEMMA SetaraData ==
  ASSUME JumlahData, dokumen' \in [Dokumen -> RekamDok], \A f : Setara(dokumen, dokumen', f),
         NEW d \in Dokumen, NEW f \in Faktur
  PROVE  /\ Susulan(dokumen', f) = Susulan(dokumen, f)
         /\ Retur(dokumen', f) = Retur(dokumen, f)
         /\ KreditRetur(dokumen', f) = KreditRetur(dokumen, f)
         /\ AlokasiEfektif(dokumen', f) = AlokasiEfektif(dokumen, f)
<1>1. PICK D \in [Dokumen -> RekamDok] : D = dokumen
  BY DEF JumlahData, TipeDok
<1>2. PICK E \in [Dokumen -> RekamDok] : E = dokumen'
  OBVIOUS
<1>3. Setara(D, E, f)
  BY <1>1, <1>2
<1>4. /\ Susulan(E, f) = Susulan(D, f) /\ Retur(E, f) = Retur(D, f)
      /\ KreditRetur(E, f) = KreditRetur(D, f) /\ AlokasiEfektif(E, f) = AlokasiEfektif(D, f)
  BY <1>3, SetaraSama
<1>5. QED BY <1>1, <1>2, <1>4

LEMMA PindahTahu ==
  ASSUME IInv, JumlahTahu, JumlahData, NEW d \in Dokumen, Ajukan(d) \/ Tolak(d)
  PROVE  JumlahTahu' /\ JumlahData'
<1>1. /\ dokumen' \in [Dokumen -> RekamDok] /\ \A f : Setara(dokumen, dokumen', f)
      /\ \A e \in Dokumen : e # d => dokumen'[e] = dokumen[e]
      /\ dokumen'[d].giro = dokumen[d].giro
  BY PindahSetara
<1>2. /\ UNCHANGED <<kunciVars, statusFaktur, bayar, terima, mulai, pc, tugas, daftar, baru, foto, tulis>>
      /\ \A t \in Sesi : \A q \in pegang[t] : q.kunci # KDok(d)
  BY DEF Ajukan, Tolak, Pindah
<1>3. \A t \in Sesi : Tenang(t)
  BY <1>1, <1>2 DEF Tenang, MemegangX
<1>4. \A t \in Sesi : Lain(t) /\ Di(t)
  BY <1>2, KunciDiam DEF IInv, Di
<1>5. TipeKunci(Permintaan)' /\ TipeSesi'
  BY <1>2 DEF JumlahTahu, TipeKunci, TipeSesi, kunciVars
<1>6. \A t \in Sesi : Tahu(t)'
  BY <1>1, <1>3, <1>4, TahuLain DEF JumlahTahu, JumlahData
<1>7. TipeDok' /\ TipeBaris'
  BY <1>1, <1>2 DEF JumlahData, TipeDok, TipeBaris
<1>8. Tercukupi' /\ KreditTertutup'
  BY <1>1, SetaraData DEF JumlahData, Tercukupi, KreditTertutup
<1>9. QED BY <1>5, <1>6, <1>7, <1>8 DEF JumlahTahu, JumlahData

-----------------------------------------------------------------------------
(* The theorems about amounts.                                             *)
IJumlah == IInv /\ JumlahTahu /\ JumlahData

LEMMA JumlahAwal == Init => JumlahTahu /\ JumlahData
<1> SUFFICES ASSUME Init PROVE JumlahTahu /\ JumlahData
  OBVIOUS
<1>1. JumlahTahu
  <2>1. TipeKunci(Permintaan)
    BY DEF Init, InitKunci, TipeKunci
  <2>2. TipeSesi
    BY DEF Init, TipeSesi
  <2>3. \A t \in Sesi : Tahu(t)
    BY DEF Init, Tahu
  <2>4. QED BY <2>1, <2>2, <2>3 DEF JumlahTahu
<1>2. PICK D : D = dokumen
  OBVIOUS
<1>3. /\ D \in [Dokumen -> RekamDok]
      /\ \A d \in Dokumen : /\ Isi[d].jenis # "giro" <=> D[d].giro = "TANPA"
                            /\ Isi[d].jenis = "retur" => D[d].status # "POSTED"
  BY <1>2, AsumsiFaktur DEF Init, DokumenAwal, AsumsiFaktur, RekamDok, StatusGiro
<1>4. TipeDok
  BY <1>2, <1>3 DEF TipeDok
<1>5. TipeBaris
  BY DEF Init, TipeBaris, StatusPembayaran, StatusPenerimaan
<1>6. Tercukupi
  BY RiwayatFaktur DEF Init, Tercukupi
<1>7. KreditTertutup
  <2>1. ASSUME NEW f \in Faktur PROVE KreditRetur(D, f) <= NilaiFaktur[f].total
    <3> DEFINE h == [d \in Dokumen |-> Kredit(D, d, f)]
    <3>1. \A d \in Dokumen : h[d] = 0
      BY <1>3 DEF Kredit, Posted
    <3>2. KreditRetur(D, f) = Jml(h, Dokumen)
      BY <1>3, KreditJumlah
    <3>3. IsFiniteSet(Dokumen) /\ NilaiFaktur[f].total \in Nat
      BY AsumsiFaktur DEF AsumsiFaktur
    <3> HIDE DEF h
    <3>4. Jml(h, Dokumen) = 0
      BY <3>1, <3>3, JmlNol
    <3>5. QED BY <3>2, <3>3, <3>4
  <2>2. QED BY <1>2, <2>1 DEF KreditTertutup
<1>8. QED BY <1>1, <1>4, <1>5, <1>6, <1>7 DEF JumlahData

LEMMA JumlahInduktif ==
  ASSUME IJumlah, [Next]_vars
  PROVE  JumlahTahu' /\ JumlahData'
<1> DEFINE Hasil == JumlahTahu' /\ JumlahData'
<1>0. IInv /\ JumlahTahu /\ JumlahData
  BY DEF IJumlah
<1>1. ASSUME NEW t \in Sesi, Mulai(t) PROVE Hasil
  BY <1>0, <1>1, MulaiTahu
<1>2. ASSUME NEW t \in Sesi, PeriksaDokumen(t) PROVE Hasil
  BY <1>0, <1>2, PeriksaTahu
<1>3. ASSUME NEW t \in Sesi, KunciFaktur(t) PROVE Hasil
  BY <1>0, <1>3, KunciTahu
<1>4. ASSUME NEW t \in Sesi, PeriksaSisa(t) PROVE Hasil
  BY <1>0, <1>4, SisaTahu
<1>5. ASSUME NEW t \in Sesi, Ubah(t) PROVE Hasil
  BY <1>0, <1>5, UbahTahu
<1>6. ASSUME NEW t \in Sesi, HitungUlang(t) PROVE Hasil
  BY <1>0, <1>6, UlangTahu
<1>7. ASSUME NEW t \in Sesi, TulisUlang(t) PROVE Hasil
  BY <1>0, <1>7, TulisTahu
<1>8. ASSUME NEW t \in Sesi, Selesai(t) PROVE Hasil
  BY <1>0, <1>8, SelesaiTahu
<1>9. ASSUME NEW t \in Sesi, BatalFaktur(t) PROVE Hasil
  BY <1>0, <1>9, BatalFakturTahu
<1>10. ASSUME NEW t \in Sesi, Putus(t) PROVE Hasil
  BY <1>0, <1>10, GagalTahu DEF Putus
<1>11. ASSUME NEW d \in Dokumen, Ajukan(d) \/ Tolak(d) PROVE Hasil
  BY <1>0, <1>11, PindahTahu
<1>12. ASSUME UNCHANGED vars PROVE Hasil
  <2>1. UNCHANGED <<kunciVars, dataVars, mulai, pc, tugas, daftar, baru, foto, tulis>>
    BY <1>12 DEF vars
  <2>2. dokumen' = dokumen /\ mulai' = mulai /\ dokumen' \in [Dokumen -> RekamDok] /\ TipeDok /\ mulai \in Nat
    BY <1>0, <2>1 DEF dataVars, JumlahData, TipeDok, TipeBaris
  <2>3. \A t \in Sesi : Lain(t) /\ Di(t) /\ Tenang(t)
    BY <1>0, <2>1, <2>2, KunciDiam, DiamTenang DEF IInv, Di
  <2>4. \A t \in Sesi : Tahu(t)'
    BY <1>0, <2>2, <2>3, TahuLain DEF JumlahTahu
  <2>5. TipeKunci(Permintaan)' /\ TipeSesi'
    BY <1>0, <2>1 DEF JumlahTahu, TipeKunci, TipeSesi, kunciVars
  <2>6. JumlahData'
    BY <1>0, <2>1, <2>2, DataDiam
  <2>7. QED BY <2>4, <2>5, <2>6 DEF JumlahTahu
<1>13. QED BY <1>1, <1>2, <1>3, <1>4, <1>5, <1>6, <1>7, <1>8, <1>9, <1>10, <1>11, <1>12
         DEF Next, Langkah, Diam

LEMMA JumlahSelalu == Spec => []IJumlah
<1>1. Init => IJumlah
  BY AwalBenar, JumlahAwal DEF IJumlah
<1>2. IJumlah /\ [Next]_vars => IJumlah'
  BY Induktif, JumlahInduktif DEF IJumlah
<1>3. QED BY <1>1, <1>2, PTL DEF Spec

\* For every purchase, document and any number of sessions: the variables
\* have their types, and only a giro has a giro status.
THEOREM TipeFaktur == Spec => []TypeOKFaktur
<1>1. IJumlah => TypeOKFaktur
  <2> SUFFICES ASSUME IJumlah PROVE TypeOKFaktur
    OBVIOUS
  <2>1. JumlahTahu /\ JumlahData /\ \A t \in Sesi : Tahu(t)
    BY DEF IJumlah, JumlahTahu
  <2>2. ASSUME NEW t \in Sesi
        PROVE  /\ pc[t] \in {"idle", "dokumen", "faktur", "kunci", "sisa", "ulang", "tulis"}
               /\ tugas[t] \in Tugas \cup {Menganggur}
               /\ daftar[t] \in IF pc[t] \in {"ulang", "tulis"} THEN Seq(Faktur) ELSE Seq(Alokasi)
               /\ baru[t] \in RekamDok /\ foto[t] \in NilaiCache \cup {""}
               /\ tulis[t] \in SUBSET [faktur : Faktur, nilai : NilaiCache]
    <3>0. Tahu(t)
      BY <2>1
    <3>1. pc[t] \in {"idle", "dokumen", "faktur", "kunci", "sisa", "ulang", "tulis"}
          /\ tugas[t] \in Tugas \cup {Menganggur}
      BY <3>0 DEF Tahu
    <3>2. Kosong \in RekamDok
      BY DEF Kosong, RekamDok, StatusDok, StatusGiro
    <3>3. NilaiUntuk(tugas[t].dok) \subseteq NilaiCache
      BY DEF NilaiUntuk, NilaiCache
    <3>4. CASE pc[t] \in {"ulang", "tulis"}
      <4>1. TahuUlang(t) /\ baru[t] \in RekamDok
        BY <2>1, <3>0, <3>4, Rekamannya
      <4>2. daftar[t] \in Seq(Faktur) /\ \A w \in tulis[t] : w \in [faktur : Faktur, nilai : NilaiUntuk(tugas[t].dok)]
        BY <4>1 DEF TahuUlang, TulisanBenar
      <4>3. foto[t] \in NilaiCache \cup {""}
        BY <3>0, <3>3 DEF Tahu, TahuTulis
      <4>4. tulis[t] \in SUBSET [faktur : Faktur, nilai : NilaiCache]
        BY <3>3, <4>2
      <4>5. QED BY <3>1, <3>4, <4>1, <4>2, <4>3, <4>4
    <3>5. CASE pc[t] \notin {"ulang", "tulis"}
      <4>1. daftar[t] \in Seq(Alokasi)
        <5>1. <<>> \in Seq(Alokasi)
          OBVIOUS
        <5>2. QED BY <3>0, <3>5, <5>1 DEF Tahu, TahuSisa
      <4>2. baru[t] = Kosong /\ foto[t] = "" /\ tulis[t] = {}
        BY <3>0, <3>5 DEF Tahu
      <4>3. QED BY <3>1, <3>2, <3>5, <4>1, <4>2
    <3>6. QED BY <3>4, <3>5
  <2>3. /\ pc \in [Sesi -> {"idle", "dokumen", "faktur", "kunci", "sisa", "ulang", "tulis"}]
        /\ tugas \in [Sesi -> Tugas \cup {Menganggur}] /\ baru \in [Sesi -> RekamDok]
        /\ foto \in [Sesi -> NilaiCache \cup {""}]
        /\ tulis \in [Sesi -> SUBSET [faktur : Faktur, nilai : NilaiCache]]
    <3>2. QED BY <2>1, <2>2 DEF JumlahTahu, TipeSesi
  <2>4. QED BY <2>1, <2>2, <2>3 DEF TypeOKFaktur, JumlahTahu, JumlahData, TipeDok, TipeBaris
<1>2. QED BY <1>1, JumlahSelalu, PTL

\* For every purchase, document and any number of sessions: the credits of a
\* purchase's POSTED returns never exceed its total.
THEOREM KreditSelaluTertutup == Spec => []KreditTertutup
<1>1. IJumlah => KreditTertutup
  BY DEF IJumlah, JumlahData
<1>2. QED BY <1>1, JumlahSelalu, PTL

\* Only a commit changes what is counted, and only of the rows it holds.
LEMMA BukanSelesai ==
  ASSUME IJumlah, [Next]_vars, ~\E t \in Sesi : Selesai(t)
  PROVE  /\ dokumen' \in [Dokumen -> RekamDok] /\ \A f : Setara(dokumen, dokumen', f)
         /\ \A t \in Sesi, d \in Dokumen : MemegangX(t, KDok(d)) => dokumen'[d] = dokumen[d]
<1> DEFINE Hasil == /\ dokumen' \in [Dokumen -> RekamDok] /\ \A f : Setara(dokumen, dokumen', f)
                    /\ \A t \in Sesi, d \in Dokumen : MemegangX(t, KDok(d)) => dokumen'[d] = dokumen[d]
<1>0. JumlahData /\ dokumen \in [Dokumen -> RekamDok]
  BY DEF IJumlah, JumlahData, TipeDok
<1>1. ASSUME dokumen' = dokumen PROVE Hasil
  BY <1>0, <1>1 DEF Setara
<1>2. ASSUME NEW d \in Dokumen, Ajukan(d) \/ Tolak(d) PROVE Hasil
  <2>1. /\ dokumen' \in [Dokumen -> RekamDok] /\ \A f : Setara(dokumen, dokumen', f)
        /\ \A e \in Dokumen : e # d => dokumen'[e] = dokumen[e]
    BY <1>0, <1>2, PindahSetara
  <2>2. \A t \in Sesi : ~MemegangX(t, KDok(d))
    BY <1>2 DEF Ajukan, Tolak, Pindah, MemegangX
  <2>3. QED BY <2>1, <2>2
<1>3. dokumen' = dokumen \/ \E d \in Dokumen : Ajukan(d) \/ Tolak(d)
  <2>1. ASSUME NEW t \in Sesi, Mulai(t) \/ Langkah(t) \/ Putus(t) PROVE dokumen' = dokumen
    BY <2>1 DEF Mulai, Langkah, Putus, PeriksaDokumen, KunciFaktur, PeriksaSisa, Ubah, HitungUlang,
                TulisUlang, BatalFaktur, Gagal, dataVars
  <2>2. QED BY <2>1 DEF Next, Diam, vars, dataVars
<1>4. QED BY <1>1, <1>2, <1>3

\* What says the same of a purchase adds up to the same.
LEMMA DiamJumlah ==
  ASSUME JumlahData, dokumen' \in [Dokumen -> RekamDok], \A f : Setara(dokumen, dokumen', f),
         NEW f \in Faktur
  PROVE  /\ ~(AlokasiEfektif(dokumen', f) > AlokasiEfektif(dokumen, f))
         /\ ~(Retur(dokumen', f) > Retur(dokumen, f))
<1>1. PICK D \in [Dokumen -> RekamDok] : D = dokumen
  BY DEF JumlahData, TipeDok
<1>2. PICK E \in [Dokumen -> RekamDok] : E = dokumen'
  OBVIOUS
<1>3. PICK S \in SUBSET Dokumen, R \in SUBSET Dokumen, T \in SUBSET Dokumen, Q \in SUBSET Dokumen :
        /\ S = Berlaku(D) /\ T = Berlaku(E) /\ R = Posted(D, {"retur"}) /\ Q = Posted(E, {"retur"})
  BY DEF Berlaku, Posted
<1>4. /\ AlokasiEfektif(D, f) = JumlahBagian(S, f) /\ AlokasiEfektif(E, f) = JumlahBagian(T, f)
      /\ Retur(D, f) = JumlahBagian(R, f) /\ Retur(E, f) = JumlahBagian(Q, f)
  BY <1>3 DEF AlokasiEfektif, Retur
<1>5. CASE Dokumen = {}
  <2>1. S = T /\ R = Q /\ R = S /\ S = {}
    BY <1>5
  <2>2. JumlahBagian(S, f) = Jml([e \in Dokumen |-> Bobot(S, e, f)], Dokumen)
    BY JumlahBobot
  <2>3. JumlahBagian(S, f) = 0
    BY <1>5, <2>2, JmlKosong
  <2>4. QED BY <1>1, <1>2, <1>4, <2>1, <2>3
<1>6. CASE Dokumen # {}
  <2>1. PICK d : d \in Dokumen
    BY <1>6
  <2>2. Setara(D, E, f)
    BY <1>1, <1>2
  <2>3. AlokasiEfektif(E, f) = AlokasiEfektif(D, f) /\ Retur(E, f) = Retur(D, f)
    BY <2>1, <2>2, SetaraSama
  <2>4. JumlahBagian(S, f) \in Nat /\ JumlahBagian(R, f) \in Nat
    BY <2>1, JumlahPisah
  <2>5. QED BY <1>1, <1>2, <1>4, <2>3, <2>4
<1>7. QED BY <1>5, <1>6

\* For every purchase, document and any number of sessions: what makes a
\* payment effective leaves payments and credits within the total.
THEOREM TidakPernahLebihBayar == Spec => TidakLebihBayar
<1>1. ASSUME IJumlah, [Next]_vars
      PROVE  [\A f \in Faktur : AlokasiEfektif(dokumen', f) > AlokasiEfektif(dokumen, f) =>
                AlokasiEfektif(dokumen', f) + KreditRetur(dokumen', f) <= NilaiFaktur[f].total]_vars
  <2> SUFFICES ASSUME NEW f \in Faktur, AlokasiEfektif(dokumen', f) > AlokasiEfektif(dokumen, f)
               PROVE  AlokasiEfektif(dokumen', f) + KreditRetur(dokumen', f) <= NilaiFaktur[f].total
    OBVIOUS
  <2>0. JumlahData /\ JumlahTahu /\ IInv
    BY <1>1 DEF IJumlah
  <2>1. ASSUME NEW t \in Sesi, Selesai(t)
        PROVE  AlokasiEfektif(dokumen', f) + KreditRetur(dokumen', f) <= NilaiFaktur[f].total
    <3>1. PICK g, d, D, E : g \in Tugas /\ d \in Dokumen /\ Terikat(t, g, d, D, E)
      BY <2>0, <2>1, SelesaiTerikat
    <3>2. D = dokumen /\ E = dokumen'
      BY <3>1 DEF Terikat
    <3>3. AlokasiEfektif(E, f) > AlokasiEfektif(D, f)
      BY <3>2
    <3>4. AlokasiEfektif(E, f) + KreditRetur(E, f) <= NilaiFaktur[f].total
      BY <2>0, <3>1, <3>3, SelesaiBayar DEF JumlahData
    <3>5. QED BY <3>2, <3>4
  <2>2. ASSUME ~\E t \in Sesi : Selesai(t) PROVE FALSE
    <3>1. dokumen' \in [Dokumen -> RekamDok] /\ \A h : Setara(dokumen, dokumen', h)
      BY <1>1, <2>2, BukanSelesai
    <3>2. QED BY <2>0, <3>1, DiamJumlah
  <2>3. QED BY <2>1, <2>2
<1>2. QED BY <1>1, JumlahSelalu, PTL DEF Spec, TidakLebihBayar

\* For every purchase, document and any number of sessions: receipts stay
\* within what was billed, and a return within what had come.
THEOREM KuotaSelaluTerjaga == Spec => KuotaTerjaga
<1>1. ASSUME IJumlah, [Next]_vars
      PROVE  [\A f \in Faktur :
                /\ NilaiFaktur[f].terima + Susulan(dokumen', f) <= NilaiFaktur[f].qty
                /\ Retur(dokumen', f) > Retur(dokumen, f) =>
                     Retur(dokumen', f) <= NilaiFaktur[f].terima + Susulan(dokumen', f)]_vars
  <2> SUFFICES ASSUME NEW f \in Faktur
               PROVE  /\ NilaiFaktur[f].terima + Susulan(dokumen', f) <= NilaiFaktur[f].qty
                      /\ Retur(dokumen', f) > Retur(dokumen, f) =>
                           Retur(dokumen', f) <= NilaiFaktur[f].terima + Susulan(dokumen', f)
    OBVIOUS
  <2>0. JumlahData /\ JumlahTahu /\ IInv
    BY <1>1 DEF IJumlah
  <2>1. NilaiFaktur[f].terima + Susulan(dokumen', f) <= NilaiFaktur[f].qty
    <3>1. Tercukupi'
      BY <1>1, JumlahInduktif DEF JumlahData
    <3>2. QED BY <3>1 DEF Tercukupi
  <2>2. ASSUME NEW t \in Sesi, Selesai(t), Retur(dokumen', f) > Retur(dokumen, f)
        PROVE  Retur(dokumen', f) <= NilaiFaktur[f].terima + Susulan(dokumen', f)
    <3>1. PICK g, d, D, E : g \in Tugas /\ d \in Dokumen /\ Terikat(t, g, d, D, E)
      BY <2>0, <2>2, SelesaiTerikat
    <3>2. D = dokumen /\ E = dokumen'
      BY <3>1 DEF Terikat
    <3>3. Retur(E, f) > Retur(D, f)
      BY <2>2, <3>2
    <3>4. Retur(E, f) <= NilaiFaktur[f].terima + Susulan(E, f)
      BY <3>1, <3>3, SelesaiRetur
    <3>5. QED BY <3>2, <3>4
  <2>3. ASSUME ~\E t \in Sesi : Selesai(t) PROVE ~(Retur(dokumen', f) > Retur(dokumen, f))
    <3>1. dokumen' \in [Dokumen -> RekamDok] /\ \A h : Setara(dokumen, dokumen', h)
      BY <1>1, <2>3, BukanSelesai
    <3>2. QED BY <2>0, <3>1, DiamJumlah
  <2>4. QED BY <2>1, <2>2, <2>3
<1>2. QED BY <1>1, JumlahSelalu, PTL DEF Spec, KuotaTerjaga

\* The caches a posting or clearing commits.
LEMMA SelesaiMenyegarkan ==
  ASSUME IJumlah, NEW t \in Sesi, Selesai(t), Menerima(t), NEW d \in Dokumen, d = tugas[t].dok,
         NEW f \in Faktur, Menunjuk(d, f)
  PROVE  IF Isi[d].jenis = "susulan" THEN terima'[f] = StatusPenerimaan(dokumen', f)
         ELSE bayar'[f] = StatusPembayaran(dokumen', f)
<1>0. Tahu(t) /\ pc[t] = "ulang" /\ daftar[t] = <<>> /\ ToSet(daftar[t]) = {} /\ JumlahData
  BY DEF IJumlah, JumlahTahu, Selesai, ToSet
<1>1. TahuUlang(t)
  BY <1>0 DEF Tahu
<1>2. (\A w \in tulis[t] : TulisanBenar(t, w)) /\ \E w \in tulis[t] : w.faktur = f
  BY <1>0, <1>1 DEF TahuUlang
<1>3. NilaiBaru(t, f) = NilaiCacheDi(dokumen', d, f)
  BY DEF Selesai, NilaiBaru
<1>4. CASE Isi[d].jenis = "susulan"
  <2>1. terima' = DenganTulisan(terima, t) /\ terima \in [Faktur -> NilaiUntuk(tugas[t].dok)]
    BY <1>0, <1>4 DEF Selesai, JumlahData, TipeBaris, NilaiUntuk
  <2>2. DenganTulisan(terima, t)[f] = NilaiBaru(t, f)
    BY <1>2, <2>1, TulisanPas
  <2>3. QED BY <1>3, <1>4, <2>1, <2>2 DEF NilaiCacheDi
<1>5. CASE Isi[d].jenis # "susulan"
  <2>1. bayar' = DenganTulisan(bayar, t) /\ bayar \in [Faktur -> NilaiUntuk(tugas[t].dok)]
    BY <1>0, <1>5 DEF Selesai, JumlahData, TipeBaris, NilaiUntuk
  <2>2. DenganTulisan(bayar, t)[f] = NilaiBaru(t, f)
    BY <1>2, <2>1, TulisanPas
  <2>3. QED BY <1>3, <1>5, <2>1, <2>2 DEF NilaiCacheDi
<1>6. QED BY <1>4, <1>5

\* For every purchase, document and any number of sessions: a posting or
\* clearing commits caches that agree with what is committed.
THEOREM PostingSelaluMenyegarkan == Spec => PostingMenyegarkan
<1>1. ASSUME IJumlah, [Next]_vars
      PROVE  [\A t \in Sesi : pc[t] = "ulang" /\ tugas[t].aksi \in {"posting", "cair"}
                              /\ dokumen'[tugas[t].dok] # dokumen[tugas[t].dok] =>
                \A i \in DOMAIN FakturDari[tugas[t].dok] :
                  LET f == FakturDari[tugas[t].dok][i] IN
                  IF Isi[tugas[t].dok].jenis = "susulan"
                  THEN terima'[f] = StatusPenerimaan(dokumen', f)
                  ELSE bayar'[f] = StatusPembayaran(dokumen', f)]_vars
  <2> SUFFICES ASSUME NEW t \in Sesi, pc[t] = "ulang", tugas[t].aksi \in {"posting", "cair"},
                      dokumen'[tugas[t].dok] # dokumen[tugas[t].dok],
                      NEW i \in DOMAIN FakturDari[tugas[t].dok]
               PROVE  LET f == FakturDari[tugas[t].dok][i] IN
                      IF Isi[tugas[t].dok].jenis = "susulan"
                      THEN terima'[f] = StatusPenerimaan(dokumen', f)
                      ELSE bayar'[f] = StatusPembayaran(dokumen', f)
    OBVIOUS
  <2>0. JumlahData /\ JumlahTahu /\ IInv /\ Tahu(t)
    BY <1>1 DEF IJumlah, JumlahTahu
  <2>1. PICK d \in Dokumen : d = tugas[t].dok /\ MemegangX(t, KDok(d))
    BY <2>0, Rekamannya
  <2>2. PICK f \in Faktur : f = FakturDari[d][i] /\ Menunjuk(d, f)
    <3>1. PICK s \in Seq(Faktur) : s = FakturDari[d]
      BY FakturDariBenar
    <3>2. i \in DOMAIN s /\ s[i] \in Faktur /\ s[i] \in ToSet(s)
      BY <2>1, <3>1 DEF ToSet
    <3>3. QED BY <3>1, <3>2, FakturDariBenar
  <2>3. Selesai(t)
    <3>1. PICK u \in Sesi : Selesai(u)
      BY <1>1, <2>1, BukanSelesai
    <3>2. PICK g, e, D, E : g \in Tugas /\ e \in Dokumen /\ Terikat(u, g, e, D, E)
      BY <2>0, <3>1, SelesaiTerikat
    <3>3. e = d
      BY <2>1, <3>2 DEF Terikat
    <3>4. MemegangX(u, KDok(d))
      BY <3>2, <3>3 DEF Terikat
    <3>5. u = t
      BY <2>0, <2>1, <3>4, PemegangTunggal DEF IInv
    <3>6. QED BY <3>1, <3>5
  <2>4. IF Isi[d].jenis = "susulan" THEN terima'[f] = StatusPenerimaan(dokumen', f)
        ELSE bayar'[f] = StatusPembayaran(dokumen', f)
    BY <1>1, <2>1, <2>2, <2>3, SelesaiMenyegarkan DEF Menerima
  <2>5. QED BY <2>1, <2>2, <2>4
<1>2. QED BY <1>1, JumlahSelalu, PTL DEF Spec, PostingMenyegarkan
=============================================================================
