--------------------------- MODULE Layanan_proof ---------------------------
(***************************************************************************)
(* Proofs about the components that share no row with one another, each    *)
(* for any number of requests and workers: the login throttle, attendance, *)
(* attachments, the price list, the units of a product, master rows,       *)
(* payments to suppliers, refresh tokens.                                  *)
(***************************************************************************)
EXTENDS Throttle, Presensi, Lampiran, HargaJual, SatuanProduk, Master, PembayaranUtang, Akses,
        Dasar_proof

-----------------------------------------------------------------------------
(***************************************************************************)
(* Throttle: no counter is left without its time to live.                  *)
(***************************************************************************)
LangkahLogin == {"sandi", "catat", "pasang", "reset"}

\* The types, sharper than TypeOKThrottle: a login under way has a key.
TipeThrottle ==
  /\ waktu \in 0..MaksWaktu /\ putus \subseteq KunciThrottle
  /\ gagal \in [KunciThrottle -> [n : Nat, habis : TanpaBatas..(MaksWaktu + Jendela)]]
  /\ login \in [Pelogin -> [langkah : {"diam"}, k : {0}]
                            \cup [langkah : LangkahLogin, k : KunciThrottle]]
  /\ \A p \in Pelogin : login[p].langkah # "diam" => login[p].k \in KunciThrottle

IThrottle == TipeThrottle /\ JendelaTerpasang

LEMMA TipeThrottleTetap ==
  ASSUME TipeThrottle, [NextThrottle]_varsThrottle
  PROVE  TipeThrottle'
<1> USE AsumsiThrottle DEF TipeThrottle, LangkahLogin, TanpaBatas, KunciHilang
<1>1. CASE UNCHANGED varsThrottle
  BY <1>1 DEF varsThrottle
<1>2. ASSUME NEW p \in Pelogin, NEW k \in KunciThrottle, Peek(p, k) PROVE TipeThrottle'
  BY <1>2 DEF Peek
<1>3. ASSUME NEW p \in Pelogin, PeriksaSandi(p) PROVE TipeThrottle'
  BY <1>3 DEF PeriksaSandi, LanjutLogin
<1>4. ASSUME NEW p \in Pelogin, Increment(p) PROVE TipeThrottle'
  BY <1>4 DEF Increment, LanjutLogin, Akhiri
<1>5. ASSUME NEW p \in Pelogin, PasangJendela(p) PROVE TipeThrottle'
  <2>1. waktu + Jendela \in TanpaBatas..(MaksWaktu + Jendela)
    OBVIOUS
  <2>2. QED BY <1>5, <2>1 DEF PasangJendela, Akhiri
<1>6. ASSUME NEW p \in Pelogin, Reset(p) PROVE TipeThrottle'
  BY <1>6 DEF Reset, Akhiri
<1>7. ASSUME NEW p \in Pelogin, PutusLogin(p) PROVE TipeThrottle'
  BY <1>7 DEF PutusLogin, Akhiri
<1>8. CASE WaktuMaju
  BY <1>8 DEF WaktuMaju
<1>9. QED BY <1>1, <1>2, <1>3, <1>4, <1>5, <1>6, <1>7, <1>8 DEF NextThrottle

\* The login that created a key arms it, or its death is on record.
LEMMA JendelaTetap ==
  ASSUME IThrottle, [NextThrottle]_varsThrottle
  PROVE  JendelaTerpasang'
<1> USE AsumsiThrottle DEF IThrottle, TipeThrottle, JendelaTerpasang, TanpaBatas, KunciHilang
<1>1. CASE UNCHANGED varsThrottle
  BY <1>1 DEF varsThrottle
<1>2. ASSUME NEW p \in Pelogin, NEW k \in KunciThrottle, Peek(p, k) PROVE JendelaTerpasang'
  BY <1>2 DEF Peek
<1>3. ASSUME NEW p \in Pelogin, PeriksaSandi(p) PROVE JendelaTerpasang'
  BY <1>3 DEF PeriksaSandi, LanjutLogin
<1>4. ASSUME NEW p \in Pelogin, Increment(p) PROVE JendelaTerpasang'
  BY <1>4 DEF Increment, PerluJendela, LanjutLogin, Akhiri
<1>5. ASSUME NEW p \in Pelogin, PasangJendela(p) PROVE JendelaTerpasang'
  BY <1>5 DEF PasangJendela, Akhiri
<1>6. ASSUME NEW p \in Pelogin, Reset(p) PROVE JendelaTerpasang'
  BY <1>6 DEF Reset, Akhiri
<1>7. ASSUME NEW p \in Pelogin, PutusLogin(p) PROVE JendelaTerpasang'
  BY <1>7 DEF PutusLogin, Akhiri
<1>8. CASE WaktuMaju
  BY <1>8 DEF WaktuMaju
<1>9. QED BY <1>1, <1>2, <1>3, <1>4, <1>5, <1>6, <1>7, <1>8 DEF NextThrottle

\* The inductive invariant, of every reachable state.
LEMMA IThrottleInduktif == SpecThrottle => []IThrottle
<1>1. InitThrottle => IThrottle
  BY AsumsiThrottle DEF InitThrottle, IThrottle, TipeThrottle, JendelaTerpasang, KunciHilang,
     TanpaBatas
<1>2. IThrottle /\ [NextThrottle]_varsThrottle => IThrottle'
  BY TipeThrottleTetap, JendelaTetap DEF IThrottle
<1>3. QED BY <1>1, <1>2, PTL DEF SpecThrottle

\* Every counter above zero has its time to live, is about to get it from
\* the login that created it, or lost that login between INCR and EXPIRE
\* (login_throttle_repository.go, Increment).
THEOREM JendelaSelaluTerpasang == SpecThrottle => []JendelaTerpasang
<1>1. IThrottle => JendelaTerpasang
  BY DEF IThrottle
<1>2. QED BY <1>1, IThrottleInduktif, PTL

\* The types.
LEMMA TipeThrottleSelalu == SpecThrottle => []TypeOKThrottle
<1>1. IThrottle => TypeOKThrottle
  BY DEF IThrottle, TipeThrottle, TypeOKThrottle, LangkahLogin
<1>2. QED BY <1>1, IThrottleInduktif, PTL

-----------------------------------------------------------------------------
(***************************************************************************)
(* Presensi: check-outs are counted, nobody is called forgetful for nothing. *)
(***************************************************************************)
Hadir == [u : Karyawan, tgl : Nat, shift : {"PAGI", "MALAM"}, masuk : 0..MaksJam,
          pulang : -1..MaksJam, status : {"BUKA", "SELESAI", "LUPA_PULANG"}]

\* What a request carries from one of its statements to the next.
TipeTap ==
  /\ tap \in [Permintaan -> [langkah : {"diam", "cari", "tulis", "pulang", "sapu"},
                             u : Karyawan \cup {0}, t : Nat, id : Nat]]
  /\ \A p \in Permintaan :
       /\ tap[p].langkah \in {"cari", "tulis", "pulang"} =>
            tap[p].u \in Karyawan /\ tap[p].t \in 0..MaksJam
       /\ tap[p].langkah = "tulis" =>
            \/ tap[p].id = 0
            \/ tap[p].id \in DOMAIN presensi /\ presensi[tap[p].id].u = tap[p].u
       /\ tap[p].langkah = "sapu" => tap[p].t <= tanggalPresensi(jam)

\* The rows.
TipeBaris == jam \in 0..MaksJam /\ presensi \in Seq(Hadir) /\ SahPresensi(presensi)

IPresensi == TipeBaris /\ TipeTap /\ JamPulangTerhitung /\ LupaBeralasan

-----------------------------------------------------------------------------
\* A statement that rewrites rows in place leaves as many rows.
LEMMA TulisUlangBaris ==
  ASSUME NEW S, NEW q \in Seq(S), NEW r, r = [i \in DOMAIN q |-> r[i]],
         \A i \in DOMAIN q : r[i] \in S
  PROVE  r \in Seq(S) /\ DOMAIN r = DOMAIN q
OBVIOUS

\* Days do not run backwards.
LEMMA TanggalMaju ==
  ASSUME NEW a \in Nat, NEW b \in Nat, a <= b
  PROVE  tanggalPresensi(a) \in Nat /\ tanggalPresensi(a) <= tanggalPresensi(b)
BY AsumsiPresensi DEF tanggalPresensi

LEMMA PresensiBaru ==
  ASSUME NEW u \in Karyawan, NEW t \in 0..MaksJam
  PROVE  /\ BarisPresensi(u, t) \in Hadir
         /\ BarisPresensi(u, t).u = u
         /\ BarisPresensi(u, t).status = "BUKA" /\ BarisPresensi(u, t).pulang = BelumPulang
BY AsumsiPresensi, TanggalMaju DEF BarisPresensi, Hadir, simpulkanShift, BelumPulang

\* Marking touches the status of one open row.
LEMMA TandaiBaris ==
  ASSUME presensi \in Seq(Hadir), NEW i
  PROVE  /\ TandaiLupaPulang(presensi, i) \in Seq(Hadir)
         /\ DOMAIN TandaiLupaPulang(presensi, i) = DOMAIN presensi
         /\ \A j \in DOMAIN presensi :
              LET r == TandaiLupaPulang(presensi, i)[j] IN
              /\ r.u = presensi[j].u /\ r.tgl = presensi[j].tgl /\ r.pulang = presensi[j].pulang
              /\ \/ r.status = presensi[j].status
                 \/ j = i /\ presensi[j].status = "BUKA" /\ r.status = "LUPA_PULANG"
<1> DEFINE q == TandaiLupaPulang(presensi, i)
<1>1. q = [j \in DOMAIN presensi |-> q[j]]
  BY DEF TandaiLupaPulang
<1>2. \A j \in DOMAIN presensi : presensi[j] \in Hadir
  OBVIOUS
<1>3. ASSUME NEW j \in DOMAIN presensi
      PROVE  /\ q[j] \in Hadir
             /\ q[j].u = presensi[j].u /\ q[j].tgl = presensi[j].tgl
             /\ q[j].pulang = presensi[j].pulang
             /\ \/ q[j].status = presensi[j].status
                \/ j = i /\ presensi[j].status = "BUKA" /\ q[j].status = "LUPA_PULANG"
  <2>1. CASE j = i /\ presensi[j].status = "BUKA"
    <3>1. q[j] = [presensi[j] EXCEPT !.status = "LUPA_PULANG"]
      BY <2>1 DEF TandaiLupaPulang
    <3>2. QED BY <1>2, <2>1, <3>1 DEF Hadir
  <2>2. CASE ~(j = i /\ presensi[j].status = "BUKA")
    <3>1. q[j] = presensi[j]
      BY <2>2 DEF TandaiLupaPulang
    <3>2. QED BY <1>2, <3>1
  <2>3. QED BY <2>1, <2>2
<1>4. q \in Seq(Hadir) /\ DOMAIN q = DOMAIN presensi
  BY <1>1, <1>3, TulisUlangBaris
<1>5. QED BY <1>3, <1>4

-----------------------------------------------------------------------------
\* What a check-in leaves of the rows that were there, and what it adds.
LEMMA BuatBaris ==
  ASSUME TipeBaris, TipeTap, NEW p \in Permintaan, BuatPresensi(p)
  PROVE  /\ presensi' \in Seq(Hadir)
         /\ \A j \in DOMAIN presensi :
              /\ j \in DOMAIN presensi'
              /\ presensi'[j].u = presensi[j].u /\ presensi'[j].tgl = presensi[j].tgl
              /\ presensi'[j].pulang = presensi[j].pulang
              /\ \/ presensi'[j].status = presensi[j].status
                 \/ /\ presensi[j].status = "BUKA" /\ presensi'[j].status = "LUPA_PULANG"
                    /\ presensi' # presensi /\ j = tap[p].id
         /\ \/ presensi' = presensi
            \/ /\ DOMAIN presensi' = 1..(Len(presensi) + 1)
               /\ presensi'[Len(presensi) + 1].u = tap[p].u
               /\ presensi'[Len(presensi) + 1].status = "BUKA"
               /\ presensi'[Len(presensi) + 1].pulang = BelumPulang
<1> DEFINE ditandai == TandaiLupaPulang(presensi, tap[p].id)
           baru == BarisPresensi(tap[p].u, tap[p].t)
<1>1. /\ ditandai \in Seq(Hadir) /\ DOMAIN ditandai = DOMAIN presensi
      /\ \A j \in DOMAIN presensi :
           /\ ditandai[j].u = presensi[j].u /\ ditandai[j].tgl = presensi[j].tgl
           /\ ditandai[j].pulang = presensi[j].pulang
           /\ \/ ditandai[j].status = presensi[j].status
              \/ /\ j = tap[p].id /\ presensi[j].status = "BUKA"
                 /\ ditandai[j].status = "LUPA_PULANG"
  BY TandaiBaris DEF TipeBaris
<1>2. /\ baru \in Hadir /\ baru.u = tap[p].u /\ baru.status = "BUKA"
      /\ baru.pulang = BelumPulang
  BY PresensiBaru DEF BuatPresensi, TipeTap
<1>3. presensi' = IF SahPresensi(Append(ditandai, baru)) THEN Append(ditandai, baru) ELSE presensi
  BY DEF BuatPresensi
<1> HIDE DEF ditandai, baru
<1>4. /\ presensi \in Seq(Hadir) /\ DOMAIN presensi = 1..Len(presensi) /\ Len(presensi) \in Nat
      /\ Len(ditandai) = Len(presensi)
  BY <1>1 DEF TipeBaris
<1>5. CASE presensi' = Append(ditandai, baru)
  <2>1. /\ presensi' \in Seq(Hadir) /\ DOMAIN presensi' = 1..(Len(presensi) + 1)
        /\ presensi'[Len(presensi) + 1] = baru
        /\ \A j \in DOMAIN presensi : j \in DOMAIN presensi' /\ presensi'[j] = ditandai[j]
    BY <1>1, <1>2, <1>4, <1>5
  <2>2. presensi' # presensi
    BY <1>4, <2>1
  <2>3. QED BY <1>1, <1>2, <2>1, <2>2
<1>6. CASE presensi' = presensi
  BY <1>4, <1>6
<1>7. QED BY <1>3, <1>5, <1>6

\* A check-out, or its refusal.
LEMMA TutupBaris ==
  ASSUME TipeBaris, TipeTap, NEW p \in Permintaan, TutupShift(p)
  PROVE  /\ presensi' \in Seq(Hadir) /\ DOMAIN presensi' = DOMAIN presensi
         /\ SahPresensi(presensi')
         /\ \A i \in DOMAIN presensi :
              /\ presensi'[i].u = presensi[i].u /\ presensi'[i].tgl = presensi[i].tgl
              /\ \/ presensi'[i] = presensi[i]
                 \/ presensi'[i].status = "SELESAI" /\ presensi'[i].pulang # BelumPulang
<1> DEFINE rows == [i \in DOMAIN presensi |->
                      IF i \in TerbukaMilik(tap[p].u)
                      THEN [presensi[i] EXCEPT !.pulang = tap[p].t, !.status = "SELESAI"]
                      ELSE presensi[i]]
<1>1. presensi \in Seq(Hadir) /\ SahPresensi(presensi)
  BY DEF TipeBaris
<1>2. ASSUME NEW i \in DOMAIN presensi
      PROVE  /\ rows[i] \in Hadir /\ rows[i].u = presensi[i].u /\ rows[i].tgl = presensi[i].tgl
             /\ \/ rows[i] = presensi[i]
                \/ rows[i].status = "SELESAI" /\ rows[i].pulang # BelumPulang
  <2>1. CASE i \in TerbukaMilik(tap[p].u)
    <3>1. rows[i] = [presensi[i] EXCEPT !.pulang = tap[p].t, !.status = "SELESAI"]
      BY <2>1
    <3>2. tap[p].t \in 0..MaksJam
      BY DEF TutupShift, TipeTap
    <3>3. tap[p].t \in -1..MaksJam /\ tap[p].t # BelumPulang
      BY <3>2, AsumsiPresensi DEF BelumPulang
    <3>4. presensi[i] \in Hadir
      BY <1>1
    <3>5. QED BY <3>1, <3>3, <3>4 DEF Hadir
  <2>2. CASE i \notin TerbukaMilik(tap[p].u)
    <3>1. rows[i] = presensi[i] /\ presensi[i] \in Hadir
      BY <1>1, <2>2
    <3>2. QED BY <3>1
  <2>3. QED BY <2>1, <2>2
<1>3. rows = [i \in DOMAIN presensi |-> rows[i]]
  OBVIOUS
<1>4. presensi' = IF SahPresensi(rows) THEN rows ELSE presensi
  BY DEF TutupShift
<1> HIDE DEF rows
<1>5. rows \in Seq(Hadir) /\ DOMAIN rows = DOMAIN presensi
  BY <1>1, <1>2, <1>3, TulisUlangBaris
<1>6. QED BY <1>1, <1>2, <1>4, <1>5

\* A correction.
LEMMA KoreksiBaris ==
  ASSUME TipeBaris, JamPulangTerhitung, NEW i \in DOMAIN presensi, Koreksi(i)
  PROVE  /\ presensi' \in Seq(Hadir) /\ DOMAIN presensi' = DOMAIN presensi
         /\ SahPresensi(presensi')
         /\ \A j \in DOMAIN presensi :
              /\ presensi'[j].u = presensi[j].u /\ presensi'[j].tgl = presensi[j].tgl
              /\ \/ presensi'[j].status = presensi[j].status
                 \/ presensi'[j].status = "SELESAI"
              /\ presensi'[j].status = "SELESAI" <=> presensi'[j].pulang # BelumPulang
<1>1. PICK m \in JamDari(presensi[i].tgl) \cup {presensi[i].masuk},
           k \in JamDari(presensi[i].tgl) \cup {presensi[i].pulang}, s \in {"PAGI", "MALAM"} :
        LET r == [presensi[i] EXCEPT !.masuk = m, !.pulang = k, !.shift = s,
                    !.status = IF k # BelumPulang THEN "SELESAI" ELSE @]
        IN  /\ SahPresensi([presensi EXCEPT ![i] = r])
            /\ presensi' = [presensi EXCEPT ![i] = r]
  BY DEF Koreksi
<1> DEFINE r == [presensi[i] EXCEPT !.masuk = m, !.pulang = k, !.shift = s,
                   !.status = IF k # BelumPulang THEN "SELESAI" ELSE presensi[i].status]
<1>2. presensi \in Seq(Hadir) /\ presensi[i] \in Hadir
  BY DEF TipeBaris
<1>3. m \in 0..MaksJam /\ k \in -1..MaksJam
  BY <1>1, <1>2 DEF JamDari, Hadir
<1>4. /\ r \in Hadir /\ r.u = presensi[i].u /\ r.tgl = presensi[i].tgl /\ r.pulang = k
      /\ r.status = IF k # BelumPulang THEN "SELESAI" ELSE presensi[i].status
  BY <1>2, <1>3 DEF Hadir
<1>5. presensi' = [presensi EXCEPT ![i] = r] /\ SahPresensi(presensi')
  BY <1>1
<1>6. k = BelumPulang => r.status # "SELESAI"
  <2>1. k = BelumPulang => presensi[i].pulang = BelumPulang
    BY <1>1 DEF JamDari, BelumPulang
  <2>2. QED BY <1>4, <2>1 DEF JamPulangTerhitung
<1> HIDE DEF r
<1>7. presensi' \in Seq(Hadir) /\ DOMAIN presensi' = DOMAIN presensi
  BY <1>2, <1>4, <1>5
<1>8. ASSUME NEW j \in DOMAIN presensi
      PROVE  /\ presensi'[j].u = presensi[j].u /\ presensi'[j].tgl = presensi[j].tgl
             /\ \/ presensi'[j].status = presensi[j].status
                \/ presensi'[j].status = "SELESAI"
             /\ presensi'[j].status = "SELESAI" <=> presensi'[j].pulang # BelumPulang
  <2>1. CASE j = i
    BY <1>4, <1>5, <1>6, <2>1
  <2>2. CASE j # i
    BY <1>5, <2>2 DEF JamPulangTerhitung
  <2>3. QED BY <2>1, <2>2
<1>9. QED BY <1>5, <1>7, <1>8

\* The sweep.
LEMMA SapuBaris ==
  ASSUME TipeBaris, NEW p \in Permintaan, SapuanLupaPulang(p)
  PROVE  /\ presensi' \in Seq(Hadir) /\ DOMAIN presensi' = DOMAIN presensi
         /\ SahPresensi(presensi')
         /\ \A i \in DOMAIN presensi :
              /\ presensi'[i].u = presensi[i].u /\ presensi'[i].tgl = presensi[i].tgl
              /\ presensi'[i].pulang = presensi[i].pulang
              /\ \/ presensi'[i] = presensi[i]
                 \/ /\ presensi[i].status = "BUKA" /\ presensi'[i].status = "LUPA_PULANG"
                    /\ presensi[i].tgl < tap[p].t
<1>0. presensi \in Seq(Hadir) /\ SahPresensi(presensi)
  BY DEF TipeBaris
<1>1. presensi' = [i \in DOMAIN presensi |-> presensi'[i]]
  BY DEF SapuanLupaPulang
<1>2. ASSUME NEW i \in DOMAIN presensi
      PROVE  /\ presensi'[i] \in Hadir /\ Slot(presensi'[i]) = Slot(presensi[i])
             /\ presensi'[i].u = presensi[i].u /\ presensi'[i].masuk = presensi[i].masuk
             /\ presensi'[i].tgl = presensi[i].tgl /\ presensi'[i].pulang = presensi[i].pulang
             /\ \/ presensi'[i] = presensi[i]
                \/ /\ presensi[i].status = "BUKA" /\ presensi'[i].status = "LUPA_PULANG"
                   /\ presensi[i].tgl < tap[p].t
  <2>0. presensi[i] \in Hadir
    BY <1>0
  <2>1. CASE presensi[i].status = "BUKA" /\ presensi[i].tgl < tap[p].t
    <3>1. presensi'[i] = [presensi[i] EXCEPT !.status = "LUPA_PULANG"]
      BY <2>1 DEF SapuanLupaPulang
    <3>2. QED BY <2>0, <2>1, <3>1 DEF Hadir, Slot
  <2>2. CASE ~(presensi[i].status = "BUKA" /\ presensi[i].tgl < tap[p].t)
    <3>1. presensi'[i] = presensi[i]
      BY <2>2 DEF SapuanLupaPulang
    <3>2. QED BY <2>0, <3>1
  <2>3. QED BY <2>1, <2>2
<1>3. presensi' \in Seq(Hadir) /\ DOMAIN presensi' = DOMAIN presensi
  BY <1>0, <1>1, <1>2, TulisUlangBaris
<1>4. SahPresensi(presensi')
  BY <1>0, <1>2, <1>3 DEF SahPresensi
<1>5. QED BY <1>2, <1>3, <1>4

\* A request that ends leaves every other one what it had read.
LEMMA SelesaiTetap ==
  ASSUME TipeTap, NEW p \in Permintaan, SelesaiTap(p), jam' = jam,
         \A j \in DOMAIN presensi : j \in DOMAIN presensi' /\ presensi'[j].u = presensi[j].u
  PROVE  TipeTap'
<1>1. \A q \in Permintaan : tap'[q] = IF q = p THEN TanpaTap ELSE tap[q]
  BY DEF TipeTap, SelesaiTap
<1>2. tap' \in [Permintaan -> [langkah : {"diam", "cari", "tulis", "pulang", "sapu"},
                              u : Karyawan \cup {0}, t : Nat, id : Nat]]
  BY DEF TipeTap, SelesaiTap, TanpaTap
<1>3. tanggalPresensi(jam)' = tanggalPresensi(jam)
  BY DEF tanggalPresensi
<1>4. ASSUME NEW q \in Permintaan
      PROVE  /\ tap'[q].langkah \in {"cari", "tulis", "pulang"} =>
                  tap'[q].u \in Karyawan /\ tap'[q].t \in 0..MaksJam
             /\ tap'[q].langkah = "tulis" =>
                  \/ tap'[q].id = 0
                  \/ tap'[q].id \in DOMAIN presensi' /\ presensi'[tap'[q].id].u = tap'[q].u
             /\ tap'[q].langkah = "sapu" => tap'[q].t <= tanggalPresensi(jam)'
  <2>1. CASE q = p
    BY <1>1, <2>1 DEF TanpaTap
  <2>2. CASE q # p
    BY <1>1, <1>3, <2>2 DEF TipeTap
  <2>3. QED BY <2>1, <2>2
<1>5. QED BY <1>2, <1>4 DEF TipeTap

-----------------------------------------------------------------------------
LEMMA TipePresensiTetap ==
  ASSUME IPresensi, [NextPresensi]_varsPresensi
  PROVE  TipeBaris' /\ TipeTap'
<1> DEFINE Goal == TipeBaris' /\ TipeTap'
<1> USE DEF IPresensi
<1>1. CASE UNCHANGED varsPresensi
  BY <1>1 DEF varsPresensi, TipeBaris, SahPresensi, Slot, TipeTap
<1>2. ASSUME NEW p \in Permintaan, NEW u \in Karyawan, Masuk(p, u) PROVE Goal
  BY <1>2, AsumsiPresensi DEF Masuk, TipeBaris, SahPresensi, Slot, TipeTap
<1>3. ASSUME NEW p \in Permintaan, FindTerbuka(p) PROVE Goal
  <2>1. PICK i \in {0} \cup TerbukaMilik(tap[p].u) :
          tap' = [tap EXCEPT ![p].langkah = "tulis", ![p].id = i]
    BY <1>3 DEF FindTerbuka
  <2>2. TipeBaris'
    BY <1>3 DEF FindTerbuka, TipeBaris, SahPresensi, Slot
  <2>3. i = 0 \/ i \in TerbukaMilik(tap[p].u)
    BY <2>1
  <2>4. presensi \in Seq(Hadir)
    BY DEF TipeBaris
  <2>5. i \in Nat /\ (i = 0 \/ (i \in DOMAIN presensi /\ presensi[i].u = tap[p].u))
    BY <2>3, <2>4 DEF TerbukaMilik
  <2>6. TipeTap'
    BY <1>3, <2>1, <2>5 DEF FindTerbuka, TipeTap
  <2>7. QED BY <2>2, <2>6
<1>4. ASSUME NEW p \in Permintaan, BuatPresensi(p) PROVE Goal
  <2>1. TipeBaris'
    BY <1>4, BuatBaris DEF BuatPresensi, TipeBaris
  <2>2. TipeTap'
    BY <1>4, BuatBaris, SelesaiTetap DEF BuatPresensi
  <2>3. QED BY <2>1, <2>2
<1>5. ASSUME NEW p \in Permintaan, NEW u \in Karyawan, Pulang(p, u) PROVE Goal
  BY <1>5, AsumsiPresensi DEF Pulang, TipeBaris, SahPresensi, Slot, TipeTap
<1>6. ASSUME NEW p \in Permintaan, TutupShift(p) PROVE Goal
  <2>1. TipeBaris'
    BY <1>6, TutupBaris DEF TutupShift, TipeBaris
  <2>2. TipeTap'
    BY <1>6, TutupBaris, SelesaiTetap DEF TutupShift
  <2>3. QED BY <2>1, <2>2
<1>7. ASSUME NEW i \in DOMAIN presensi, Koreksi(i) PROVE Goal
  <2>1. UNCHANGED <<jam, tap>>
    BY <1>7 DEF Koreksi
  <2>2. TipeBaris'
    BY <1>7, <2>1, KoreksiBaris DEF TipeBaris
  <2>3. DOMAIN presensi' = DOMAIN presensi /\ \A j \in DOMAIN presensi : presensi'[j].u = presensi[j].u
    BY <1>7, KoreksiBaris
  <2>4. TipeTap'
    BY <2>1, <2>3 DEF TipeTap
  <2>5. QED BY <2>2, <2>4
<1>8. ASSUME NEW p \in Permintaan, SapuanMulai(p) PROVE Goal
  <2>1. tanggalPresensi(jam) \in Nat
    BY TanggalMaju DEF TipeBaris
  <2>2. QED BY <1>8, <2>1 DEF SapuanMulai, TipeBaris, TipeTap
<1>9. ASSUME NEW p \in Permintaan, SapuanLupaPulang(p) PROVE Goal
  <2>1. TipeBaris'
    BY <1>9, SapuBaris DEF SapuanLupaPulang, TipeBaris
  <2>2. TipeTap'
    BY <1>9, SapuBaris, SelesaiTetap DEF SapuanLupaPulang
  <2>3. QED BY <2>1, <2>2
<1>10. ASSUME NEW p \in Permintaan, GagalTap(p) PROVE Goal
  BY <1>10 DEF GagalTap, SelesaiTap, TanpaTap, TipeBaris, SahPresensi, Slot, TipeTap
<1>11. CASE JamMaju
  <2>1. /\ jam \in Nat /\ jam' \in 0..MaksJam /\ jam' \in Nat /\ jam <= jam'
        /\ UNCHANGED <<presensi, tap>>
    BY <1>11, AsumsiPresensi DEF JamMaju, TipeBaris
  <2>2. /\ tanggalPresensi(jam) \in Nat /\ tanggalPresensi(jam') \in Nat
        /\ tanggalPresensi(jam) <= tanggalPresensi(jam')
    BY <2>1, TanggalMaju
  <2>3. tanggalPresensi(jam)' = tanggalPresensi(jam')
    BY DEF tanggalPresensi
  <2>4. TipeBaris'
    BY <2>1 DEF TipeBaris
  <2>5. TipeTap'
    BY <2>1, <2>2, <2>3 DEF TipeTap
  <2>6. QED BY <2>4, <2>5
<1>12. QED BY <1>1, <1>2, <1>3, <1>4, <1>5, <1>6, <1>7, <1>8, <1>9, <1>10, <1>11 DEF NextPresensi

\* A row is finished exactly when it has the hour of leaving.
LEMMA PulangTetap ==
  ASSUME IPresensi, [NextPresensi]_varsPresensi
  PROVE  JamPulangTerhitung'
<1> USE DEF IPresensi, JamPulangTerhitung
<1>1. CASE presensi' = presensi
  BY <1>1
<1>2. ASSUME NEW p \in Permintaan, BuatPresensi(p) PROVE JamPulangTerhitung'
  <2>1. presensi \in Seq(Hadir)
    BY DEF TipeBaris
  <2>2. QED BY <1>2, <2>1, BuatBaris
<1>3. ASSUME NEW p \in Permintaan, TutupShift(p) PROVE JamPulangTerhitung'
  BY <1>3, TutupBaris
<1>4. ASSUME NEW i \in DOMAIN presensi, Koreksi(i) PROVE JamPulangTerhitung'
  BY <1>4, KoreksiBaris
<1>5. ASSUME NEW p \in Permintaan, SapuanLupaPulang(p) PROVE JamPulangTerhitung'
  BY <1>5, SapuBaris
<1>6. QED
  BY <1>1, <1>2, <1>3, <1>4, <1>5
     DEF NextPresensi, varsPresensi, FindTerbuka, SapuanMulai, GagalTap, Masuk, Pulang, JamMaju

\* A row is called forgotten for a reason, and the reason lasts.
LEMMA LupaTetap ==
  ASSUME IPresensi, [NextPresensi]_varsPresensi
  PROVE  LupaBeralasan'
<1> USE DEF IPresensi, LupaBeralasan
<1>0. /\ presensi \in Seq(Hadir) /\ DOMAIN presensi = 1..Len(presensi) /\ Len(presensi) \in Nat
      /\ \A i \in DOMAIN presensi : presensi[i] \in Hadir
      /\ jam \in Nat
  <2>1. presensi \in Seq(Hadir) /\ jam \in Nat
    BY AsumsiPresensi DEF TipeBaris
  <2>2. QED BY <2>1
<1>1. CASE presensi' = presensi /\ jam' = jam
  BY <1>1 DEF tanggalPresensi
<1>2. ASSUME NEW p \in Permintaan, BuatPresensi(p) PROVE LupaBeralasan'
  <2>1. UNCHANGED jam /\ tanggalPresensi(jam)' = tanggalPresensi(jam)
    BY <1>2 DEF BuatPresensi, tanggalPresensi
  <2>2. CASE presensi' = presensi
    BY <2>1, <2>2
  <2>3. CASE presensi' # presensi
    <3>1. /\ DOMAIN presensi' = 1..(Len(presensi) + 1)
          /\ presensi'[Len(presensi) + 1].u = tap[p].u
          /\ presensi'[Len(presensi) + 1].status = "BUKA"
      BY <1>2, <2>3, BuatBaris
    <3>2. ASSUME NEW i \in DOMAIN presensi', presensi'[i].status = "LUPA_PULANG"
          PROVE  \/ presensi'[i].tgl < tanggalPresensi(jam)
                 \/ \E j \in DOMAIN presensi' : j > i /\ presensi'[j].u = presensi'[i].u
      <4>1. i \in DOMAIN presensi
        BY <1>0, <3>1, <3>2
      <4>2. /\ presensi'[i].u = presensi[i].u /\ presensi'[i].tgl = presensi[i].tgl
            /\ presensi[i].status = "LUPA_PULANG" \/ i = tap[p].id
            /\ \A j \in DOMAIN presensi : j \in DOMAIN presensi' /\ presensi'[j].u = presensi[j].u
        BY <1>2, <3>2, <4>1, BuatBaris
      <4>3. CASE i = tap[p].id
        <5>1. presensi[i].u = tap[p].u
          BY <1>0, <1>2, <4>1, <4>3 DEF BuatPresensi, TipeTap
        <5>2. QED BY <1>0, <3>1, <4>1, <4>2, <5>1
      <4>4. CASE presensi[i].status = "LUPA_PULANG"
        BY <4>1, <4>2, <4>4
      <4>5. QED BY <4>2, <4>3, <4>4
    <3>3. QED BY <2>1, <3>2
  <2>4. QED BY <2>2, <2>3
<1>3. ASSUME NEW p \in Permintaan, TutupShift(p) PROVE LupaBeralasan'
  <2>1. tanggalPresensi(jam)' = tanggalPresensi(jam)
    BY <1>3 DEF TutupShift, tanggalPresensi
  <2>2. QED BY <1>3, <2>1, TutupBaris
<1>4. ASSUME NEW i \in DOMAIN presensi, Koreksi(i) PROVE LupaBeralasan'
  <2>1. tanggalPresensi(jam)' = tanggalPresensi(jam)
    BY <1>4 DEF Koreksi, tanggalPresensi
  <2>2. QED BY <1>4, <2>1, KoreksiBaris
<1>5. ASSUME NEW p \in Permintaan, SapuanLupaPulang(p) PROVE LupaBeralasan'
  <2>1. tanggalPresensi(jam)' = tanggalPresensi(jam)
    BY <1>5 DEF SapuanLupaPulang, tanggalPresensi
  <2>2. tap[p].t \in Nat /\ tap[p].t <= tanggalPresensi(jam) /\ tanggalPresensi(jam) \in Nat
    BY <1>0, <1>5, TanggalMaju DEF SapuanLupaPulang, TipeTap
  <2>3. \A i \in DOMAIN presensi : presensi[i].tgl \in Nat
    BY <1>0 DEF Hadir
  <2>4. QED BY <1>5, <2>1, <2>2, <2>3, SapuBaris
<1>6. CASE JamMaju
  <2>1. /\ jam' \in Nat /\ jam <= jam' /\ UNCHANGED presensi
    BY <1>0, <1>6 DEF JamMaju
  <2>2. /\ tanggalPresensi(jam) \in Nat /\ tanggalPresensi(jam') \in Nat
        /\ tanggalPresensi(jam) <= tanggalPresensi(jam')
    BY <1>0, <2>1, TanggalMaju
  <2>3. tanggalPresensi(jam)' = tanggalPresensi(jam')
    BY DEF tanggalPresensi
  <2>4. \A i \in DOMAIN presensi : presensi[i].tgl \in Nat
    BY <1>0 DEF Hadir
  <2>5. QED BY <2>1, <2>2, <2>3, <2>4
<1>7. QED
  BY <1>1, <1>2, <1>3, <1>4, <1>5, <1>6
     DEF NextPresensi, varsPresensi, FindTerbuka, SapuanMulai, GagalTap, Masuk, Pulang

-----------------------------------------------------------------------------
LEMMA IPresensiInduktif == SpecPresensi => []IPresensi
<1>1. InitPresensi => IPresensi
  BY AsumsiPresensi DEF InitPresensi, IPresensi, TipeBaris, SahPresensi, TipeTap, TanpaTap,
     JamPulangTerhitung, LupaBeralasan
<1>2. IPresensi /\ [NextPresensi]_varsPresensi => IPresensi'
  BY TipePresensiTetap, PulangTetap, LupaTetap DEF IPresensi
<1>3. QED BY <1>1, <1>2, PTL DEF SpecPresensi

\* The hour of leaving and the status SELESAI come and go together, so the
\* recap that counts SELESAI rows counts every check-out, and nobody's shift is
\* closed as forgotten while its day lasts, unless its owner checked in again
\* (presensi_usecase.go, Masuk, Pulang and SapuanLupaPulang).
THEOREM PresensiSelaluTerjaga == SpecPresensi => []PresensiTerjaga
<1>1. IPresensi => PresensiTerjaga
  BY DEF IPresensi, PresensiTerjaga
<1>2. QED BY <1>1, IPresensiInduktif, PTL

\* The types, and the unique indexes of attendance.
LEMMA TipePresensiSelalu == SpecPresensi => []TypeOKPresensi
<1>1. IPresensi => TypeOKPresensi
  BY DEF IPresensi, TipeBaris, TypeOKPresensi, Hadir
<1>2. QED BY <1>1, IPresensiInduktif, PTL

-----------------------------------------------------------------------------
(***************************************************************************)
(* Lampiran: files and rows agree, and the sweep only takes orphans.       *)
(***************************************************************************)
Tahap == {"diam", "sapu", "simpan"} \cup MemegangBaris

Kerja == [langkah : Tahap, d : Berkas \cup {TakAda}, i : Induk \cup {TakAda},
          sapu : BOOLEAN, sisa : SUBSET Berkas, penuh : BOOLEAN]

TipeLampiran ==
  /\ disk \subseteq Berkas /\ tua \subseteq Berkas /\ terputus \subseteq Berkas
  /\ lampiran \in [Berkas -> [status : {"tiada", "hidup", "dihapus"}, ref : Induk \cup {TakAda}]]
  /\ statusInduk \in [Induk -> {"DRAFT", "LANJUT", "BATAL"}]
  /\ kerja \in [Petugas -> Kerja]
  /\ \A p \in Petugas : kerja[p].d \in Berkas <=> kerja[p].langkah \notin {"diam", "sapu"}
  /\ \A p \in Petugas : kerja[p].langkah = "tempel" \/ kerja[p].langkah = "hitung" =>
       kerja[p].i \in Induk

\* Two requests never hold one row; a file being uploaded is its request's.
SatuPemegang ==
  \A p, q \in Petugas : p # q =>
    /\ kerja[p].langkah \in MemegangBaris /\ kerja[q].langkah \in MemegangBaris =>
         kerja[p].d # kerja[q].d
    /\ kerja[p].langkah = "simpan" => kerja[p].d # kerja[q].d

\* What a request knows of its file between two of its steps.
Tahu ==
  \A p \in Petugas :
    /\ kerja[p].langkah = "simpan" => lampiran[kerja[p].d] = BarisTiada /\ kerja[p].d \in disk
    /\ kerja[p].langkah \in {"buang", "tandai"} => lampiran[kerja[p].d].status = "hidup"
    /\ kerja[p].langkah = "tandai" => kerja[p].d \notin disk

ILampiran == TipeLampiran /\ SatuPemegang /\ Tahu /\ SapuanHanyaYatim /\ BerkasSepadan

-----------------------------------------------------------------------------
\* The three ways a request moves on; the others stay where they are.
LEMMA LanjutKerja ==
  ASSUME kerja \in [Petugas -> Kerja], NEW p \in Petugas, Lanjut(p)
  PROVE  /\ kerja' \in [Petugas -> Kerja]
         /\ kerja'[p].langkah \in {"diam", "sapu"} /\ kerja'[p].d = TakAda
         /\ \A q \in Petugas : q # p => kerja'[q] = kerja[q]
BY DEF Lanjut, Kerja, Tahap, MemegangBaris, Diam

LEMMA KeKerjaKerja ==
  ASSUME kerja \in [Petugas -> Kerja], NEW p \in Petugas, NEW l \in Tahap, KeKerja(p, l)
  PROVE  /\ kerja' \in [Petugas -> Kerja]
         /\ kerja'[p].langkah = l /\ kerja'[p].d = kerja[p].d /\ kerja'[p].i = kerja[p].i
         /\ kerja'[p].sapu = kerja[p].sapu
         /\ \A q \in Petugas : q # p => kerja'[q] = kerja[q]
BY DEF KeKerja, Kerja

LEMMA BatchKerja ==
  ASSUME kerja \in [Petugas -> Kerja], tua \subseteq Berkas, NEW p \in Petugas, NEW s \in Batch,
         AmbilBatch(p, s)
  PROVE  /\ kerja' \in [Petugas -> Kerja]
         /\ kerja'[p].langkah = "sapu" /\ kerja'[p].d = TakAda
         /\ \A q \in Petugas : q # p => kerja'[q] = kerja[q]
<1>1. s \subseteq Berkas
  BY DEF Batch, Kandidat
<1>2. QED BY <1>1 DEF AmbilBatch, Kerja, Tahap, Diam

\* The sweep takes the row of a candidate that is still an orphan.
LEMMA SatuKerja ==
  ASSUME kerja \in [Petugas -> Kerja], NEW p \in Petugas, NEW d \in Berkas, BersihkanSatu(p, d)
  PROVE  /\ kerja' \in [Petugas -> Kerja]
         /\ \/ kerja'[p].langkah = "buang" /\ kerja'[p].d = d /\ Yatim(d)
            \/ kerja'[p].langkah = "sapu" /\ kerja'[p].d = TakAda
         /\ \A q \in Petugas : q # p => kerja'[q] = kerja[q]
<1>1. CASE MasihYatim(d)
  <2>1. kerja' = [kerja EXCEPT ![p] = [kerja[p] EXCEPT !.sisa = kerja[p].sisa \ {d},
                                                      !.langkah = "buang", !.d = d]]
    BY <1>1 DEF BersihkanSatu, Kerja
  <2>2. QED BY <1>1, <2>1 DEF Kerja, Tahap, MemegangBaris, MasihYatim
<1>2. CASE ~MasihYatim(d)
  <2>1. kerja' = [kerja EXCEPT ![p] = [kerja[p] EXCEPT !.sisa = kerja[p].sisa \ {d},
                                                      !.langkah = "sapu", !.d = TakAda]]
    BY <1>2 DEF BersihkanSatu, Kerja
  <2>2. QED BY <2>1 DEF Kerja, Tahap
<1>3. QED BY <1>1, <1>2

LEMMA TipeLampiranTetap ==
  ASSUME TipeLampiran, [NextLampiran]_varsLampiran
  PROVE  TipeLampiran'
<1> USE AsumsiLampiran DEF TipeLampiran, Tahap, MemegangBaris, Diam
<1>1. CASE UNCHANGED varsLampiran
  BY <1>1 DEF varsLampiran
<1>2. ASSUME NEW p \in Petugas, SimpanBaris(p) PROVE TipeLampiran'
  BY <1>2, LanjutKerja DEF SimpanBaris
<1>3. ASSUME NEW p \in Petugas, BatalUnggah(p) PROVE TipeLampiran'
  BY <1>3, LanjutKerja DEF BatalUnggah
<1>4. ASSUME NEW p \in Petugas, CommitTakTerjawab(p) PROVE TipeLampiran'
  BY <1>4, LanjutKerja DEF CommitTakTerjawab
<1>5. ASSUME NEW p \in Petugas, TempelHitung(p) PROVE TipeLampiran'
  BY <1>5, LanjutKerja, KeKerjaKerja DEF TempelHitung
<1>6. ASSUME NEW p \in Petugas, TempelSimpan(p) PROVE TipeLampiran'
  BY <1>6, LanjutKerja DEF TempelSimpan
<1>7. ASSUME NEW p \in Petugas, HapusBerkas(p) PROVE TipeLampiran'
  BY <1>7, KeKerjaKerja DEF HapusBerkas
<1>8. ASSUME NEW p \in Petugas, SoftDelete(p) PROVE TipeLampiran'
  BY <1>8, LanjutKerja DEF SoftDelete
<1>9. ASSUME NEW p \in Petugas, BersihkanYatim(p) PROVE TipeLampiran'
  BY <1>9, BatchKerja DEF BersihkanYatim
<1>10. ASSUME NEW p \in Petugas, AkhiriBatch(p) PROVE TipeLampiran'
  <2>1. CASE \E s \in Batch : AmbilBatch(p, s)
    BY <1>10, <2>1, BatchKerja DEF AkhiriBatch
  <2>2. CASE kerja' = [kerja EXCEPT ![p] = Diam]
    BY <1>10, <2>2 DEF AkhiriBatch, Kerja
  <2>3. QED BY <1>10, <2>1, <2>2 DEF AkhiriBatch
<1>11. ASSUME NEW p \in Petugas, Rollback(p) PROVE TipeLampiran'
  BY <1>11, LanjutKerja DEF Rollback, Sisakan
<1>12. ASSUME NEW p \in Petugas, Mati(p) PROVE TipeLampiran'
  BY <1>12 DEF Mati, Sisakan, Kerja
<1>13. ASSUME NEW p \in Petugas, NEW d \in Berkas, Unggah(p, d) PROVE TipeLampiran'
  BY <1>13 DEF Unggah, Kerja
<1>14. ASSUME NEW p \in Petugas, NEW d \in Berkas, Hapus(p, d) PROVE TipeLampiran'
  BY <1>14 DEF Hapus, Kerja
<1>15. ASSUME NEW p \in Petugas, NEW d \in Berkas, BersihkanSatu(p, d) PROVE TipeLampiran'
  <2>1. /\ kerja' \in [Petugas -> Kerja]
        /\ \/ kerja'[p].langkah = "buang" /\ kerja'[p].d = d
           \/ kerja'[p].langkah = "sapu" /\ kerja'[p].d = TakAda
        /\ \A q \in Petugas : q # p => kerja'[q] = kerja[q]
    BY <1>15, SatuKerja
  <2>2. UNCHANGED <<disk, lampiran, tua, statusInduk, terputus>>
    BY <1>15 DEF BersihkanSatu
  <2>3. QED BY <2>1, <2>2
<1>16. ASSUME NEW p \in Petugas, NEW d \in Berkas, NEW i \in Induk, Tempel(p, d, i) PROVE TipeLampiran'
  BY <1>16 DEF Tempel, Yatim, Kerja
<1>17. ASSUME NEW i \in Induk, UbahInduk(i) PROVE TipeLampiran'
  BY <1>17 DEF UbahInduk
<1>18. ASSUME NEW d \in Berkas, LewatTTL(d) PROVE TipeLampiran'
  BY <1>18 DEF LewatTTL
<1>19. QED BY <1>1, <1>2, <1>3, <1>4, <1>5, <1>6, <1>7, <1>8, <1>9, <1>10, <1>11, <1>12, <1>13,
              <1>14, <1>15, <1>16, <1>17, <1>18 DEF NextLampiran
\* The steps keep the rest of the invariant.
LEMMA IsiTetap ==
  ASSUME ILampiran, TipeLampiran', [NextLampiran]_varsLampiran
  PROVE  SatuPemegang' /\ Tahu' /\ SapuanHanyaYatim' /\ BerkasSepadan'
<1> DEFINE Goal == SatuPemegang' /\ Tahu' /\ SapuanHanyaYatim' /\ BerkasSepadan'
<1> USE AsumsiLampiran DEF ILampiran, TipeLampiran
<1>1. CASE UNCHANGED varsLampiran
  BY <1>1 DEF varsLampiran, SatuPemegang, Tahu, SapuanHanyaYatim, Menyapu, Yatim, BerkasSepadan
<1>2. ASSUME NEW p \in Petugas, SimpanBaris(p) PROVE Goal
  <2>1. SatuPemegang'
    BY <1>2, LanjutKerja DEF SimpanBaris, Tahap, MemegangBaris, Diam, SatuPemegang, Tahu,
        BarisTiada, Yatim
  <2>2. Tahu'
    BY <1>2, LanjutKerja DEF SimpanBaris, Tahap, MemegangBaris, Diam, Tahu, SatuPemegang,
        BarisTiada, Yatim
  <2>3. SapuanHanyaYatim'
    BY <1>2, LanjutKerja DEF SimpanBaris, Tahap, MemegangBaris, Diam, SapuanHanyaYatim,
        SatuPemegang, Menyapu, Yatim
  <2>4. BerkasSepadan'
    <3> SUFFICES ASSUME NEW d \in Berkas
                 PROVE  /\ lampiran'[d].status = "dihapus" => d \notin disk'
                        /\ lampiran'[d].status = "hidup" /\ d \notin disk' =>
                             \/ d \in terputus'
                             \/ \E q \in Petugas : kerja'[q].d = d /\ kerja'[q].langkah = "tandai"
      BY DEF BerkasSepadan
    <3>1. CASE d = kerja[p].d
      BY <1>2, <3>1 DEF SimpanBaris, Tahu
    <3>2. CASE d # kerja[p].d
      BY <1>2, <3>2, LanjutKerja DEF SimpanBaris, BerkasSepadan
    <3>3. QED BY <3>1, <3>2
  <2>5. QED BY <2>1, <2>2, <2>3, <2>4
<1>3. ASSUME NEW p \in Petugas, BatalUnggah(p) PROVE Goal
  <2>1. SatuPemegang'
    BY <1>3, LanjutKerja DEF BatalUnggah, Tahap, MemegangBaris, Diam, SatuPemegang, Tahu,
        BarisTiada, Yatim
  <2>2. Tahu'
    BY <1>3, LanjutKerja DEF BatalUnggah, Tahap, MemegangBaris, Diam, Tahu, SatuPemegang,
        BarisTiada, Yatim
  <2>3. SapuanHanyaYatim'
    BY <1>3, LanjutKerja DEF BatalUnggah, Tahap, MemegangBaris, Diam, SapuanHanyaYatim,
        SatuPemegang, Menyapu, Yatim
  <2>4. BerkasSepadan'
    BY <1>3, LanjutKerja DEF BatalUnggah, Tahap, MemegangBaris, Diam, BerkasSepadan,
        SatuPemegang, Tahu, BarisTiada
  <2>5. QED BY <2>1, <2>2, <2>3, <2>4
<1>4. ASSUME NEW p \in Petugas, CommitTakTerjawab(p) PROVE Goal
  <2>1. SatuPemegang'
    BY <1>4, LanjutKerja DEF CommitTakTerjawab, Tahap, MemegangBaris, Diam, SatuPemegang, Tahu,
        BarisTiada, Yatim
  <2>2. Tahu'
    BY <1>4, LanjutKerja DEF CommitTakTerjawab, Tahap, MemegangBaris, Diam, Tahu, SatuPemegang,
        BarisTiada, Yatim
  <2>3. SapuanHanyaYatim'
    BY <1>4, LanjutKerja DEF CommitTakTerjawab, Tahap, MemegangBaris, Diam, SapuanHanyaYatim,
        SatuPemegang, Menyapu, Yatim
  <2>4. BerkasSepadan'
    BY SMTT(20), <1>4, LanjutKerja DEF CommitTakTerjawab, Tahap, MemegangBaris, Diam, BerkasSepadan,
        SatuPemegang, Tahu, BarisTiada
  <2>5. QED BY <2>1, <2>2, <2>3, <2>4
<1>5. ASSUME NEW p \in Petugas, TempelHitung(p) PROVE Goal
  <2>1. SatuPemegang'
    BY <1>5, LanjutKerja, KeKerjaKerja DEF TempelHitung, Tahap, MemegangBaris, Diam,
        SatuPemegang, Tahu, BarisTiada, Yatim
  <2>2. Tahu'
    BY <1>5, LanjutKerja, KeKerjaKerja DEF TempelHitung, Tahap, MemegangBaris, Diam, Tahu,
        SatuPemegang, BarisTiada, Yatim
  <2>3. SapuanHanyaYatim'
    BY <1>5, LanjutKerja, KeKerjaKerja DEF TempelHitung, Tahap, MemegangBaris, Diam,
        SapuanHanyaYatim, SatuPemegang, Menyapu, Yatim
  <2>4. BerkasSepadan'
    BY <1>5, LanjutKerja, KeKerjaKerja DEF TempelHitung, Tahap, MemegangBaris, Diam,
        BerkasSepadan, SatuPemegang, Tahu, BarisTiada
  <2>5. QED BY <2>1, <2>2, <2>3, <2>4
<1>6. ASSUME NEW p \in Petugas, TempelSimpan(p) PROVE Goal
  <2>1. SatuPemegang'
    BY <1>6, LanjutKerja DEF TempelSimpan, Yatim, Tahap, MemegangBaris, Diam, SatuPemegang,
        Tahu, BarisTiada, Yatim
  <2>2. Tahu'
    BY <1>6, LanjutKerja DEF TempelSimpan, Yatim, Tahap, MemegangBaris, Diam, Tahu,
        SatuPemegang, BarisTiada, Yatim
  <2>3. SapuanHanyaYatim'
    BY <1>6, LanjutKerja DEF TempelSimpan, Yatim, Tahap, MemegangBaris, Diam, SapuanHanyaYatim,
        SatuPemegang, Menyapu, Yatim
  <2>4. BerkasSepadan'
    BY <1>6, LanjutKerja DEF TempelSimpan, Yatim, Tahap, MemegangBaris, Diam, BerkasSepadan,
        SatuPemegang, Tahu, BarisTiada
  <2>5. QED BY <2>1, <2>2, <2>3, <2>4
<1>7. ASSUME NEW p \in Petugas, HapusBerkas(p) PROVE Goal
  <2>1. SatuPemegang'
    BY <1>7, KeKerjaKerja DEF HapusBerkas, Tahap, MemegangBaris, Diam, SatuPemegang, Tahu,
        BarisTiada, Yatim
  <2>2. Tahu'
    BY <1>7, KeKerjaKerja DEF HapusBerkas, Tahap, MemegangBaris, Diam, Tahu, SatuPemegang,
        BarisTiada, Yatim
  <2>3. SapuanHanyaYatim'
    BY <1>7, KeKerjaKerja DEF HapusBerkas, Tahap, MemegangBaris, Diam, SapuanHanyaYatim,
        SatuPemegang, Menyapu, Yatim
  <2>4. BerkasSepadan'
    BY SMTT(20), <1>7, KeKerjaKerja DEF HapusBerkas, Tahap, MemegangBaris, Diam, BerkasSepadan,
        SatuPemegang, Tahu, BarisTiada
  <2>5. QED BY <2>1, <2>2, <2>3, <2>4
<1>8. ASSUME NEW p \in Petugas, SoftDelete(p) PROVE Goal
  <2>1. SatuPemegang'
    BY <1>8, LanjutKerja DEF SoftDelete, Tahap, MemegangBaris, Diam, SatuPemegang, Tahu,
        BarisTiada, Yatim
  <2>2. Tahu'
    BY <1>8, LanjutKerja DEF SoftDelete, Tahap, MemegangBaris, Diam, Tahu, SatuPemegang,
        BarisTiada, Yatim
  <2>3. SapuanHanyaYatim'
    BY <1>8, LanjutKerja DEF SoftDelete, Tahap, MemegangBaris, Diam, SapuanHanyaYatim,
        SatuPemegang, Menyapu, Yatim
  <2>4. BerkasSepadan'
    BY <1>8, LanjutKerja DEF SoftDelete, Tahap, MemegangBaris, Diam, BerkasSepadan,
        SatuPemegang, Tahu, BarisTiada
  <2>5. QED BY <2>1, <2>2, <2>3, <2>4
<1>9. ASSUME NEW p \in Petugas, BersihkanYatim(p) PROVE Goal
  <2>1. SatuPemegang'
    BY <1>9, BatchKerja DEF BersihkanYatim, Tahap, MemegangBaris, Diam, SatuPemegang, Tahu,
        BarisTiada, Yatim
  <2>2. Tahu'
    BY <1>9, BatchKerja DEF BersihkanYatim, Tahap, MemegangBaris, Diam, Tahu, SatuPemegang,
        BarisTiada, Yatim
  <2>3. SapuanHanyaYatim'
    BY <1>9, BatchKerja DEF BersihkanYatim, Tahap, MemegangBaris, Diam, SapuanHanyaYatim,
        SatuPemegang, Menyapu, Yatim
  <2>4. BerkasSepadan'
    BY <1>9, BatchKerja DEF BersihkanYatim, Tahap, MemegangBaris, Diam, BerkasSepadan,
        SatuPemegang, Tahu, BarisTiada
  <2>5. QED BY <2>1, <2>2, <2>3, <2>4
<1>10. ASSUME NEW p \in Petugas, AkhiriBatch(p) PROVE Goal
  <2>1. SatuPemegang'
    BY <1>10, BatchKerja DEF AkhiriBatch, Tahap, MemegangBaris, Diam, SatuPemegang, Tahu,
        BarisTiada, Yatim
  <2>2. Tahu'
    BY <1>10, BatchKerja DEF AkhiriBatch, Tahap, MemegangBaris, Diam, Tahu, SatuPemegang,
        BarisTiada, Yatim
  <2>3. SapuanHanyaYatim'
    BY <1>10, BatchKerja DEF AkhiriBatch, Tahap, MemegangBaris, Diam, SapuanHanyaYatim,
        SatuPemegang, Menyapu, Yatim
  <2>4. BerkasSepadan'
    BY <1>10, BatchKerja DEF AkhiriBatch, Tahap, MemegangBaris, Diam, BerkasSepadan,
        SatuPemegang, Tahu, BarisTiada
  <2>5. QED BY <2>1, <2>2, <2>3, <2>4
<1>11. ASSUME NEW p \in Petugas, Rollback(p) PROVE Goal
  <2>1. SatuPemegang'
    BY <1>11, LanjutKerja DEF Rollback, Sisakan, Tahap, MemegangBaris, Diam, SatuPemegang,
        Tahu, BarisTiada, Yatim
  <2>2. Tahu'
    BY <1>11, LanjutKerja DEF Rollback, Sisakan, Tahap, MemegangBaris, Diam, Tahu,
        SatuPemegang, BarisTiada, Yatim
  <2>3. SapuanHanyaYatim'
    BY <1>11, LanjutKerja DEF Rollback, Sisakan, Tahap, MemegangBaris, Diam, SapuanHanyaYatim,
        SatuPemegang, Menyapu, Yatim
  <2>4. BerkasSepadan'
    BY <1>11, LanjutKerja DEF Rollback, Sisakan, Tahap, MemegangBaris, Diam, BerkasSepadan,
        SatuPemegang, Tahu, BarisTiada
  <2>5. QED BY <2>1, <2>2, <2>3, <2>4
<1>12. ASSUME NEW p \in Petugas, Mati(p) PROVE Goal
  <2>1. SatuPemegang'
    BY <1>12 DEF Mati, Sisakan, Tahap, MemegangBaris, Diam, SatuPemegang, Tahu, BarisTiada, Yatim
  <2>2. Tahu'
    BY <1>12 DEF Mati, Sisakan, Tahap, MemegangBaris, Diam, Tahu, SatuPemegang, BarisTiada, Yatim
  <2>3. SapuanHanyaYatim'
    BY <1>12 DEF Mati, Sisakan, Tahap, MemegangBaris, Diam, SapuanHanyaYatim, SatuPemegang,
        Menyapu, Yatim
  <2>4. BerkasSepadan'
    BY <1>12 DEF Mati, Sisakan, Tahap, MemegangBaris, Diam, BerkasSepadan, SatuPemegang, Tahu,
        BarisTiada
  <2>5. QED BY <2>1, <2>2, <2>3, <2>4
<1>13. ASSUME NEW p \in Petugas, NEW d \in Berkas, Unggah(p, d) PROVE Goal
  <2>1. SatuPemegang'
    BY <1>13 DEF Unggah, Tahap, MemegangBaris, Diam, SatuPemegang, Tahu, BarisTiada, Yatim
  <2>2. Tahu'
    BY <1>13 DEF Unggah, Tahap, MemegangBaris, Diam, Tahu, SatuPemegang, BarisTiada, Yatim
  <2>3. SapuanHanyaYatim'
    BY <1>13 DEF Unggah, Tahap, MemegangBaris, Diam, SapuanHanyaYatim, SatuPemegang, Menyapu,
        Yatim
  <2>4. BerkasSepadan'
    BY <1>13 DEF Unggah, Tahap, MemegangBaris, Diam, BerkasSepadan, SatuPemegang, Tahu, BarisTiada
  <2>5. QED BY <2>1, <2>2, <2>3, <2>4
<1>14. ASSUME NEW p \in Petugas, NEW d \in Berkas, Hapus(p, d) PROVE Goal
  <2>1. SatuPemegang'
    BY <1>14 DEF Hapus, BarisBebas, Tahap, MemegangBaris, Diam, SatuPemegang, Tahu, BarisTiada,
        Yatim
  <2>2. Tahu'
    BY <1>14 DEF Hapus, BarisBebas, Tahap, MemegangBaris, Diam, Tahu, SatuPemegang, BarisTiada,
        Yatim
  <2>3. SapuanHanyaYatim'
    BY <1>14 DEF Hapus, BarisBebas, Tahap, MemegangBaris, Diam, SapuanHanyaYatim, SatuPemegang,
        Menyapu, Yatim
  <2>4. BerkasSepadan'
    BY <1>14 DEF Hapus, BarisBebas, Tahap, MemegangBaris, Diam, BerkasSepadan, SatuPemegang,
        Tahu, BarisTiada
  <2>5. QED BY <2>1, <2>2, <2>3, <2>4
<1>15. ASSUME NEW p \in Petugas, NEW d \in Berkas, BersihkanSatu(p, d) PROVE Goal
  <2>0. /\ kerja' \in [Petugas -> Kerja]
        /\ \/ kerja'[p].langkah = "buang" /\ kerja'[p].d = d /\ Yatim(d)
           \/ kerja'[p].langkah = "sapu" /\ kerja'[p].d = TakAda
        /\ \A q \in Petugas : q # p => kerja'[q] = kerja[q]
        /\ UNCHANGED <<disk, lampiran, tua, statusInduk, terputus>>
        /\ kerja[p].langkah = "sapu" /\ BarisBebas(d)
    BY <1>15, SatuKerja DEF BersihkanSatu
  <2>1. SatuPemegang'
    BY <2>0 DEF BarisBebas, Tahap, MemegangBaris, Diam, SatuPemegang, Tahu, BarisTiada, Yatim
  <2>2. Tahu'
    BY <2>0 DEF BarisBebas, Tahap, MemegangBaris, Diam, Tahu, SatuPemegang, BarisTiada, Yatim
  <2>3. SapuanHanyaYatim'
    BY <2>0 DEF BarisBebas, Tahap, MemegangBaris, Diam, SapuanHanyaYatim, SatuPemegang,
        Menyapu, Yatim
  <2>4. BerkasSepadan'
    BY <2>0 DEF BarisBebas, Tahap, MemegangBaris, Diam, BerkasSepadan, SatuPemegang, Tahu,
        BarisTiada
  <2>5. QED BY <2>1, <2>2, <2>3, <2>4
<1>16. ASSUME NEW p \in Petugas, NEW d \in Berkas, NEW i \in Induk, Tempel(p, d, i) PROVE Goal
  <2>1. SatuPemegang'
    BY <1>16 DEF Tempel, BarisBebas, Yatim, Tahap, MemegangBaris, Diam, SatuPemegang, Tahu,
        BarisTiada
  <2>2. Tahu'
    BY <1>16 DEF Tempel, BarisBebas, Yatim, Tahap, MemegangBaris, Diam, Tahu, SatuPemegang,
        BarisTiada, Yatim
  <2>3. SapuanHanyaYatim'
    BY <1>16 DEF Tempel, BarisBebas, Yatim, Tahap, MemegangBaris, Diam, SapuanHanyaYatim,
        SatuPemegang, Menyapu, Yatim
  <2>4. BerkasSepadan'
    BY <1>16 DEF Tempel, BarisBebas, Yatim, Tahap, MemegangBaris, Diam, BerkasSepadan,
        SatuPemegang, Tahu, BarisTiada
  <2>5. QED BY <2>1, <2>2, <2>3, <2>4
<1>17. ASSUME NEW i \in Induk, UbahInduk(i) PROVE Goal
  <2>1. SatuPemegang'
    BY <1>17 DEF UbahInduk, Tahap, MemegangBaris, Diam, SatuPemegang, Tahu, BarisTiada, Yatim
  <2>2. Tahu'
    BY <1>17 DEF UbahInduk, Tahap, MemegangBaris, Diam, Tahu, SatuPemegang, BarisTiada, Yatim
  <2>3. SapuanHanyaYatim'
    BY <1>17 DEF UbahInduk, Tahap, MemegangBaris, Diam, SapuanHanyaYatim, SatuPemegang,
        Menyapu, Yatim
  <2>4. BerkasSepadan'
    BY <1>17 DEF UbahInduk, Tahap, MemegangBaris, Diam, BerkasSepadan, SatuPemegang, Tahu,
        BarisTiada
  <2>5. QED BY <2>1, <2>2, <2>3, <2>4
<1>18. ASSUME NEW d \in Berkas, LewatTTL(d) PROVE Goal
  <2>1. SatuPemegang'
    BY <1>18 DEF LewatTTL, Tahap, MemegangBaris, Diam, SatuPemegang, Tahu, BarisTiada, Yatim
  <2>2. Tahu'
    BY <1>18 DEF LewatTTL, Tahap, MemegangBaris, Diam, Tahu, SatuPemegang, BarisTiada, Yatim
  <2>3. SapuanHanyaYatim'
    BY <1>18 DEF LewatTTL, Tahap, MemegangBaris, Diam, SapuanHanyaYatim, SatuPemegang, Menyapu,
        Yatim
  <2>4. BerkasSepadan'
    BY <1>18 DEF LewatTTL, Tahap, MemegangBaris, Diam, BerkasSepadan, SatuPemegang, Tahu,
        BarisTiada
  <2>5. QED BY <2>1, <2>2, <2>3, <2>4
<1>19. QED
  BY <1>1, <1>2, <1>3, <1>4, <1>5, <1>6, <1>7, <1>8, <1>9, <1>10,
     <1>11, <1>12, <1>13, <1>14, <1>15, <1>16, <1>17, <1>18 DEF NextLampiran

-----------------------------------------------------------------------------
LEMMA ILampiranInduktif == SpecLampiran => []ILampiran
<1>1. InitLampiran => ILampiran
  BY AsumsiLampiran DEF InitLampiran, ILampiran, TipeLampiran, SatuPemegang, Tahu, SapuanHanyaYatim,
     Menyapu, BerkasSepadan, BarisTiada, Diam, Kerja, Tahap, MemegangBaris
<1>2. ILampiran /\ [NextLampiran]_varsLampiran => ILampiran'
  BY TipeLampiranTetap, IsiTetap DEF ILampiran
<1>3. QED BY <1>1, <1>2, PTL DEF SpecLampiran

\* A live row has its file but between the halves of a deletion or after one
\* that lost its second half, a deleted row leaves no file, and the cleanup
\* job never removes the file of an attached document (Upload writes the bytes
\* first, hapusBerkasDanTandai removes them first; bersihkanSatu).
THEOREM LampiranSelaluTerjaga == SpecLampiran => []LampiranTerjaga
<1>1. ILampiran => LampiranTerjaga
  BY DEF ILampiran, LampiranTerjaga
<1>2. QED BY <1>1, ILampiranInduktif, PTL

\* The types.
LEMMA TipeLampiranSelalu == SpecLampiran => []TypeOKLampiran
<1>1. ILampiran => TypeOKLampiran
  BY DEF ILampiran, TipeLampiran, TypeOKLampiran, Kerja
<1>2. QED BY <1>1, ILampiranInduktif, PTL

-----------------------------------------------------------------------------
(***************************************************************************)
(* The price list: within the lock it takes, a step sees what it closes, and *)
(* a removal that no other overlaps finds the version it opens again.      *)
(***************************************************************************)
\* A removal between its first statement and its commit.
Penghapus == {"hapus", "cari", "buka"}
Versi == [dari : 0..AkhirTanggal, sampai : 0..Seterusnya, harga : Harga \cup {0}]
NomorVersi == 1..MaksVersi
\* The steps a transaction can be in, and what it carries there.
LangkahTrx == {"diam", "tutup", "sisip", "ubah", "nota"} \cup Penghapus

TipeHarga ==
  /\ versi \in [NomorVersi -> Versi]
  /\ idTerakhir \in 0..MaksVersi
  /\ jual \subseteq [id : NomorVersi, harga : Harga \cup {0}]
  /\ trx \in [Pemakai -> [langkah : LangkahTrx, id : 0..MaksVersi, dari : 0..AkhirTanggal,
                          baca : Versi, cocok : SUBSET NomorVersi,
                          ubah : SUBSET (NomorVersi \X Versi)]]
  /\ bertabrakan \in BOOLEAN

\* A version lasts a day at least, and has an identity that was drawn.
BarisHarga ==
  \A i \in NomorVersi : Ada(versi[i]) => /\ versi[i].dari < versi[i].sampai
                                         /\ i <= idTerakhir

\* What a transaction has written and what it read stays as it was.
SesiHarga(p) ==
  /\ trx[p].langkah \in {"tutup", "sisip"} => trx[p].dari \in Tanggal
  /\ trx[p].langkah \notin {"sisip", "cari", "buka"} => trx[p].ubah = {}
  /\ trx[p].langkah = "sisip" =>
       \A w \in trx[p].ubah : /\ Ada(versi[w[1]]) /\ versi[w[1]].dari < trx[p].dari
                              /\ w[2] = [versi[w[1]] EXCEPT !.sampai = trx[p].dari]
  /\ trx[p].langkah \in Penghapus =>
       trx[p].id \in NomorVersi /\ Ada(versi[trx[p].id]) /\ trx[p].baca = versi[trx[p].id]
  /\ trx[p].langkah \in {"cari", "buka"} =>
       trx[p].ubah = {<<trx[p].id, TakAdaVersi>>} /\ ~Dipakai(trx[p].id)
  /\ trx[p].langkah \in {"ubah", "nota"} => trx[p].id \in NomorVersi

SatuPemegangVersi == \A p, q \in Pemakai : p # q => Dikunci(p) \cap Dikunci(q) = {}

\* A removal that nobody overlapped finds the version it reopens.
SebelumnyaDitemukan(p) ==
  trx[p].langkah = "buka" =>
    \A i \in NomorVersi : Ada(versi[i]) /\ i # trx[p].id /\ versi[i].sampai = trx[p].baca.dari
                            => i \in trx[p].cocok

SatuPenghapus ==
  ~bertabrakan =>
    /\ \A p, q \in Pemakai : trx[p].langkah \in Penghapus /\ trx[q].langkah \in Penghapus => p = q
    /\ \A p \in Pemakai : SebelumnyaDitemukan(p)
    /\ RantaiHarga

NotaBerharga == \A n \in jual : Ada(versi[n.id])

IHarga == /\ TipeHarga /\ BarisHarga /\ SatuPemegangVersi /\ SatuPenghapus /\ NotaBerharga
          /\ SahHarga(versi) /\ \A p \in Pemakai : SesiHarga(p)


Tahapan == [langkah : LangkahTrx, id : 0..MaksVersi, dari : 0..AkhirTanggal, baca : Versi,
            cocok : SUBSET NomorVersi, ubah : SUBSET (NomorVersi \X Versi)]

LEMMA TanpaTrxTipe == TanpaTrx \in Tahapan /\ TakAdaVersi \in Versi /\ ~Ada(TakAdaVersi)
BY AsumsiHarga DEF TanpaTrx, Tahapan, LangkahTrx, Versi, TakAdaVersi, Ada, Seterusnya

\* A step that commits nothing.
LEMMA HargaDiam ==
  ASSUME IHarga, NEW p \in Pemakai, NEW t \in Tahapan, trx' = [trx EXCEPT ![p] = t],
         UNCHANGED <<versi, idTerakhir, jual>>, SesiHarga(p)', bertabrakan' \in BOOLEAN,
         \A q \in Pemakai \ {p} : Dikunci(p)' \cap Dikunci(q) = {},
         ~bertabrakan' => /\ ~bertabrakan /\ SebelumnyaDitemukan(p)'
                          /\ t.langkah \in Penghapus =>
                               \A q \in Pemakai \ {p} : trx[q].langkah \notin Penghapus
  PROVE  IHarga'
<1>1. TipeHarga'
  BY DEF IHarga, TipeHarga, Tahapan
<1>2. \A q \in Pemakai : trx'[q] = IF q = p THEN t ELSE trx[q]
  BY DEF IHarga, TipeHarga
<1>3. \A q \in Pemakai \ {p} : SesiHarga(q)' /\ Dikunci(q)' = Dikunci(q)
  BY <1>2 DEF IHarga, SesiHarga, Dikunci, Ditulis, Dipakai
<1>4. SatuPemegangVersi'
  BY <1>3 DEF IHarga, SatuPemegangVersi
<1>5. SatuPenghapus'
  <2>1. ASSUME ~bertabrakan', NEW q \in Pemakai, NEW r \in Pemakai,
               trx'[q].langkah \in Penghapus, trx'[r].langkah \in Penghapus
        PROVE  q = r
    BY <1>2, <2>1 DEF IHarga, SatuPenghapus
  <2>2. ASSUME ~bertabrakan', NEW q \in Pemakai \ {p} PROVE SebelumnyaDitemukan(q)'
    BY <1>2, <2>2 DEF IHarga, SatuPenghapus, SebelumnyaDitemukan
  <2>3. RantaiHarga' <=> RantaiHarga
    BY DEF RantaiHarga
  <2>4. QED BY <2>1, <2>2, <2>3 DEF IHarga, SatuPenghapus
<1>6. BarisHarga' /\ NotaBerharga' /\ SahHarga(versi')
  BY DEF IHarga, BarisHarga, NotaBerharga
<1>7. QED BY <1>1, <1>3, <1>4, <1>5, <1>6 DEF IHarga

\* A commit.
LEMMA HargaTulis ==
  ASSUME IHarga, NEW p \in Pemakai, SelesaiTrx(p), UNCHANGED <<jual, bertabrakan>>,
         versi' \in [NomorVersi -> Versi], idTerakhir' \in 0..MaksVersi,
         BarisHarga', NotaBerharga', SahHarga(versi'),
         \A q \in Pemakai \ {p} : \A i \in Dikunci(q) \cap NomorVersi : versi'[i] = versi[i],
         ~bertabrakan => /\ RantaiHarga'
                         /\ \A q \in Pemakai \ {p} : SebelumnyaDitemukan(q)'
  PROVE  IHarga'
<1>1. TipeHarga'
  BY TanpaTrxTipe DEF IHarga, TipeHarga, SelesaiTrx, Pasang, Tahapan
<1>2. \A q \in Pemakai : trx'[q] = IF q = p THEN TanpaTrx ELSE trx[q]
  BY DEF IHarga, TipeHarga, SelesaiTrx, Pasang
<1>3. SesiHarga(p)' /\ Dikunci(p)' = {} /\ SebelumnyaDitemukan(p)'
  BY <1>2 DEF SesiHarga, Dikunci, Ditulis, TanpaTrx, SebelumnyaDitemukan, Penghapus
<1>4. ASSUME NEW q \in Pemakai \ {p} PROVE SesiHarga(q)' /\ Dikunci(q)' = Dikunci(q)
  <2>1. trx'[q] = trx[q] /\ SesiHarga(q)
    BY <1>2 DEF IHarga
  <2>2. \A w \in trx[q].ubah : w[1] \in NomorVersi /\ w[1] \in Dikunci(q)
    BY DEF IHarga, TipeHarga, Dikunci, Ditulis
  <2>3. trx[q].langkah \in Penghapus => trx[q].id \in Dikunci(q)
    BY DEF Dikunci, Penghapus
  <2>4. SesiHarga(q)'
    BY <2>1, <2>2, <2>3 DEF SesiHarga, Dipakai
  <2>5. QED BY <2>1, <2>4 DEF Dikunci, Ditulis
<1>5. SatuPemegangVersi'
  BY <1>3, <1>4 DEF IHarga, SatuPemegangVersi
<1>6. SatuPenghapus'
  <2>1. TanpaTrx.langkah \notin Penghapus
    BY DEF TanpaTrx, Penghapus
  <2>2. ASSUME ~bertabrakan, NEW q \in Pemakai, NEW r \in Pemakai,
               trx'[q].langkah \in Penghapus, trx'[r].langkah \in Penghapus
        PROVE  q = r
    BY <1>2, <2>1, <2>2 DEF IHarga, SatuPenghapus
  <2>3. QED BY <1>3, <2>2 DEF SatuPenghapus
<1>7. QED BY <1>1, <1>3, <1>4, <1>5, <1>6 DEF IHarga

LEMMA UbahTrx ==
  ASSUME NEW r \in Tahapan, NEW l \in LangkahTrx
  PROVE  /\ [r EXCEPT !.langkah = l] \in Tahapan
         /\ \A t \in 0..AkhirTanggal, c \in SUBSET NomorVersi :
              [r EXCEPT !.langkah = l, !.dari = t, !.cocok = c] \in Tahapan
         /\ \A i \in 0..MaksVersi : [r EXCEPT !.langkah = l, !.id = i] \in Tahapan
         /\ \A i \in 0..MaksVersi, v \in Versi :
              [r EXCEPT !.langkah = l, !.id = i, !.baca = v] \in Tahapan
         /\ \A u \in SUBSET (NomorVersi \X Versi) : [r EXCEPT !.langkah = l, !.ubah = u] \in Tahapan
BY DEF Tahapan

LEMMA TipeTrx ==
  ASSUME IHarga, NEW p \in Pemakai
  PROVE  trx[p] \in Tahapan /\ SesiHarga(p)
BY DEF IHarga, TipeHarga, Tahapan

LEMMA TipeVersi ==
  ASSUME IHarga, NEW i \in NomorVersi
  PROVE  /\ versi[i] \in Versi /\ Seterusnya \in Nat /\ Seterusnya = AkhirTanggal + 1
         /\ Ada(versi[i]) => versi[i].dari < versi[i].sampai
BY AsumsiHarga DEF IHarga, TipeHarga, BarisHarga, Seterusnya

\* The steps that commit nothing.
LEMMA DiamTetap ==
  ASSUME IHarga, NEW p \in Pemakai,
         \/ \E t \in Tanggal : AddHargaJual(p, t) \/ FindHargaBerlaku(p, t)
         \/ CloseOpenHargaJual(p) \/ HapusVersi(p) \/ CariSebelumnya(p) \/ GagalTrx(p)
         \/ \E i \in NomorVersi : DeleteHargaJual(p, i) \/ UpdateHargaJual(p, i)
  PROVE  IHarga'
<1>0. trx[p] \in Tahapan /\ SesiHarga(p) /\ TanpaTrx \in Tahapan
  BY TipeTrx, TanpaTrxTipe
<1>t. \A t : Pasang(p, t) => trx' = [trx EXCEPT ![p] = t] /\ trx'[p] = t
  BY DEF Pasang, IHarga, TipeHarga
<1>b. bertabrakan \in BOOLEAN
  BY DEF IHarga, TipeHarga
<1>1. ASSUME NEW t \in Tanggal, AddHargaJual(p, t) PROVE IHarga'
  <2> DEFINE c == {i \in 1..MaksVersi : versi[i].sampai = Seterusnya /\ versi[i].dari < t}
             T == [TanpaTrx EXCEPT !.langkah = "tutup", !.dari = t, !.cocok = c]
  <2>0. c \in SUBSET NomorVersi /\ t \in 0..AkhirTanggal /\ "tutup" \in LangkahTrx
    BY AsumsiHarga DEF LangkahTrx, Tanggal, NomorVersi
  <2>1. T \in Tahapan
    BY <1>0, <2>0, UbahTrx
  <2>2. T.langkah = "tutup" /\ T.dari = t /\ T.ubah = {}
    BY DEF TanpaTrx
  <2>3. trx' = [trx EXCEPT ![p] = T] /\ trx'[p] = T /\ UNCHANGED <<versi, idTerakhir, jual, bertabrakan>>
    BY <1>1, <1>t DEF AddHargaJual
  <2> HIDE DEF T
  <2>4. SesiHarga(p)' /\ Dikunci(p)' = {} /\ SebelumnyaDitemukan(p)'
    BY <2>2, <2>3 DEF SesiHarga, Dikunci, Ditulis, SebelumnyaDitemukan, Penghapus
  <2>5. T.langkah \notin Penghapus
    BY <2>2 DEF Penghapus
  <2>6. QED BY <2>1, <2>3, <2>4, <2>5, <1>b, HargaDiam
<1>2. ASSUME NEW t \in Tanggal, FindHargaBerlaku(p, t) PROVE IHarga'
  <2>1. PICK i \in NomorVersi : Pasang(p, [TanpaTrx EXCEPT !.langkah = "nota", !.id = i, !.baca = versi[i]])
    BY <1>2 DEF FindHargaBerlaku, NomorVersi
  <2> DEFINE T == [TanpaTrx EXCEPT !.langkah = "nota", !.id = i, !.baca = versi[i]]
  <2>a. i \in 0..MaksVersi /\ versi[i] \in Versi /\ "nota" \in LangkahTrx
    BY AsumsiHarga, TipeVersi DEF LangkahTrx, NomorVersi
  <2>2. T \in Tahapan
    BY <1>0, <2>a, UbahTrx
  <2>3. T.langkah = "nota" /\ T.id = i /\ T.ubah = {}
    BY DEF TanpaTrx
  <2>4. trx' = [trx EXCEPT ![p] = T] /\ trx'[p] = T /\ UNCHANGED <<versi, idTerakhir, jual, bertabrakan>>
    BY <1>2, <2>1, <1>t DEF FindHargaBerlaku
  <2> HIDE DEF T
  <2>5. SesiHarga(p)' /\ Dikunci(p)' = {} /\ SebelumnyaDitemukan(p)'
    BY <2>3, <2>4 DEF SesiHarga, Dikunci, Ditulis, SebelumnyaDitemukan, Penghapus
  <2>6. T.langkah \notin Penghapus
    BY <2>3 DEF Penghapus
  <2>7. QED BY <2>2, <2>4, <2>5, <2>6, <1>b, HargaDiam
<1>3. CASE CloseOpenHargaJual(p)
  <2> DEFINE kena == {i \in trx[p].cocok : versi[i].sampai = Seterusnya /\ versi[i].dari < trx[p].dari}
             U == {<<i, [versi[i] EXCEPT !.sampai = trx[p].dari]>> : i \in kena}
             T == [trx[p] EXCEPT !.langkah = "sisip", !.ubah = U]
  <2>1. trx[p].langkah = "tutup" /\ trx[p].dari \in Tanggal /\ kena \subseteq NomorVersi
    BY <1>0, <1>3 DEF CloseOpenHargaJual, SesiHarga, Tahapan
  <2>2. \A i \in kena : [versi[i] EXCEPT !.sampai = trx[p].dari] \in Versi /\ Ada(versi[i])
    BY <2>1, TipeVersi, TanpaTrxTipe, AsumsiHarga DEF Versi, Tanggal, Ada, TakAdaVersi
  <2>a. U \in SUBSET (NomorVersi \X Versi) /\ "sisip" \in LangkahTrx
    BY <2>1, <2>2 DEF LangkahTrx
  <2>3. T \in Tahapan
    BY <1>0, <2>a, UbahTrx
  <2>4. T.langkah = "sisip" /\ T.dari = trx[p].dari /\ T.ubah = U
    BY <1>0 DEF Tahapan
  <2>5. trx' = [trx EXCEPT ![p] = T] /\ trx'[p] = T /\ UNCHANGED <<versi, idTerakhir, jual, bertabrakan>>
    BY <1>3, <1>t DEF CloseOpenHargaJual
  <2>6. \A w \in U : w[1] \in kena /\ w[2] = [versi[w[1]] EXCEPT !.sampai = trx[p].dari]
    OBVIOUS
  <2>7. \A i \in kena : i \in trx[p].cocok /\ versi[i].dari < trx[p].dari
    OBVIOUS
  <2> HIDE DEF T, U, kena
  <2>8. SesiHarga(p)'
    BY <2>1, <2>2, <2>4, <2>5, <2>6, <2>7 DEF SesiHarga, Penghapus
  <2>9. Dikunci(p)' \subseteq trx[p].cocok
    BY <2>4, <2>5, <2>6, <2>7 DEF Dikunci, Ditulis
  <2>10. \A q \in Pemakai \ {p} : Dikunci(p)' \cap Dikunci(q) = {}
    BY <1>3, <2>9 DEF CloseOpenHargaJual, Bebas
  <2>11. SebelumnyaDitemukan(p)' /\ T.langkah \notin Penghapus
    BY <2>4, <2>5 DEF SebelumnyaDitemukan, Penghapus
  <2>12. QED BY <2>3, <2>5, <2>8, <2>10, <2>11, <1>b, HargaDiam
<1>4. CASE HapusVersi(p)
  <2>1. trx[p].langkah = "hapus" /\ trx[p].id \in NomorVersi /\ trx[p].ubah = {}
    BY <1>0, <1>4 DEF HapusVersi, SesiHarga, Penghapus
  <2>2. CASE Dipakai(trx[p].id)
    <3>1. trx' = [trx EXCEPT ![p] = TanpaTrx] /\ trx'[p] = TanpaTrx
          /\ UNCHANGED <<versi, idTerakhir, jual, bertabrakan>>
      BY <1>4, <2>2, <1>t DEF HapusVersi, SelesaiTrx
    <3>2. SesiHarga(p)' /\ Dikunci(p)' = {} /\ SebelumnyaDitemukan(p)' /\ TanpaTrx.langkah \notin Penghapus
      BY <3>1 DEF SesiHarga, Dikunci, Ditulis, SebelumnyaDitemukan, Penghapus, TanpaTrx
    <3>3. QED BY <1>0, <3>1, <3>2, <1>b, HargaDiam
  <2>3. CASE ~Dipakai(trx[p].id)
    <3> DEFINE T == [trx[p] EXCEPT !.langkah = "cari", !.ubah = {<<trx[p].id, TakAdaVersi>>}]
    <3>a. {<<trx[p].id, TakAdaVersi>>} \in SUBSET (NomorVersi \X Versi) /\ "cari" \in LangkahTrx
      BY <2>1, TanpaTrxTipe DEF LangkahTrx, Penghapus
    <3>1. T \in Tahapan
      BY <1>0, <3>a, UbahTrx
    <3>2. T.langkah = "cari" /\ T.id = trx[p].id /\ T.ubah = {<<trx[p].id, TakAdaVersi>>} /\ T.baca = trx[p].baca
      BY <1>0 DEF Tahapan
    <3>3. trx' = [trx EXCEPT ![p] = T] /\ trx'[p] = T /\ UNCHANGED <<versi, idTerakhir, jual, bertabrakan>>
      BY <1>4, <2>3, <1>t DEF HapusVersi
    <3> HIDE DEF T
    <3>4. SesiHarga(p)'
      BY <1>0, <2>1, <2>3, <3>2, <3>3 DEF SesiHarga, Penghapus, Dipakai
    <3>5. Dikunci(p)' \subseteq Dikunci(p)
      BY <2>1, <3>2, <3>3 DEF Dikunci, Ditulis
    <3>6. SebelumnyaDitemukan(p)'
      BY <3>2, <3>3 DEF SebelumnyaDitemukan
    <3>7. ~bertabrakan => \A q \in Pemakai \ {p} : trx[q].langkah \notin Penghapus
      BY <2>1 DEF IHarga, SatuPenghapus, Penghapus
    <3>8. \A q \in Pemakai \ {p} : Dikunci(p)' \cap Dikunci(q) = {}
      BY <3>5 DEF IHarga, SatuPemegangVersi
    <3>9. QED BY <3>1, <3>3, <3>4, <3>6, <3>7, <3>8, <1>b, HargaDiam
  <2>4. QED BY <2>2, <2>3
<1>5. CASE CariSebelumnya(p)
  <2> DEFINE S == Sebelumnya(p, LihatHarga(p))
             T == [trx[p] EXCEPT !.langkah = "buka", !.cocok = S]
  <2>1. trx[p].langkah = "cari" /\ trx[p].id \in NomorVersi /\ trx[p].ubah = {<<trx[p].id, TakAdaVersi>>}
    BY <1>0, <1>5 DEF CariSebelumnya, SesiHarga, Penghapus
  <2>2. S \subseteq NomorVersi
    BY DEF Sebelumnya, NomorVersi
  <2>3. T \in Tahapan
    BY <1>0, <2>2 DEF Tahapan, LangkahTrx, Penghapus
  <2>4. T.langkah = "buka" /\ T.id = trx[p].id /\ T.ubah = trx[p].ubah /\ T.baca = trx[p].baca /\ T.cocok = S
    BY <1>0 DEF Tahapan
  <2>5. trx' = [trx EXCEPT ![p] = T] /\ trx'[p] = T /\ UNCHANGED <<versi, idTerakhir, jual, bertabrakan>>
    BY <1>5, <1>t DEF CariSebelumnya
  <2>6. \A i \in NomorVersi : Ada(versi[i]) /\ i # trx[p].id /\ versi[i].sampai = trx[p].baca.dari
                              => i \in S
    BY <2>1 DEF Sebelumnya, LihatHarga, Ditulis, NomorVersi
  <2> HIDE DEF T, S
  <2>7. SesiHarga(p)'
    BY <1>0, <2>1, <2>4, <2>5 DEF SesiHarga, Penghapus, Dipakai
  <2>8. Dikunci(p)' = Dikunci(p)
    BY <2>1, <2>4, <2>5 DEF Dikunci, Ditulis
  <2>9. SebelumnyaDitemukan(p)'
    BY <2>4, <2>5, <2>6 DEF SebelumnyaDitemukan
  <2>10. ~bertabrakan => \A q \in Pemakai \ {p} : trx[q].langkah \notin Penghapus
    BY <2>1 DEF IHarga, SatuPenghapus, Penghapus
  <2>11. \A q \in Pemakai \ {p} : Dikunci(p)' \cap Dikunci(q) = {}
    BY <2>8 DEF IHarga, SatuPemegangVersi
  <2>12. QED BY <2>3, <2>5, <2>7, <2>9, <2>10, <2>11, <1>b, HargaDiam
<1>6. CASE GagalTrx(p)
  <2>1. trx' = [trx EXCEPT ![p] = TanpaTrx] /\ trx'[p] = TanpaTrx
        /\ UNCHANGED <<versi, idTerakhir, jual, bertabrakan>>
    BY <1>6, <1>t DEF GagalTrx, SelesaiTrx
  <2>2. SesiHarga(p)' /\ Dikunci(p)' = {} /\ SebelumnyaDitemukan(p)' /\ TanpaTrx.langkah \notin Penghapus
    BY <2>1 DEF SesiHarga, Dikunci, Ditulis, SebelumnyaDitemukan, Penghapus, TanpaTrx
  <2>3. QED BY <1>0, <2>1, <2>2, <1>b, HargaDiam
<1>7. ASSUME NEW i \in NomorVersi, DeleteHargaJual(p, i) PROVE IHarga'
  <2> DEFINE T == [TanpaTrx EXCEPT !.langkah = "hapus", !.id = i, !.baca = versi[i]]
  <2>a. i \in 0..MaksVersi /\ versi[i] \in Versi /\ "hapus" \in LangkahTrx
    BY AsumsiHarga, TipeVersi DEF LangkahTrx, NomorVersi, Penghapus
  <2>1. T \in Tahapan
    BY <1>0, <2>a, UbahTrx
  <2>2. T.langkah = "hapus" /\ T.id = i /\ T.ubah = {} /\ T.baca = versi[i]
    BY DEF TanpaTrx
  <2>3. trx' = [trx EXCEPT ![p] = T] /\ trx'[p] = T /\ UNCHANGED <<versi, idTerakhir, jual>>
    BY <1>7, <1>t DEF DeleteHargaJual
  <2>4. /\ bertabrakan' \in BOOLEAN
        /\ ~bertabrakan' => ~bertabrakan /\ \A q \in Pemakai : trx[q].langkah \notin Penghapus
    BY <1>7, <1>b DEF DeleteHargaJual, Penghapus
  <2> HIDE DEF T
  <2>5. SesiHarga(p)' /\ Dikunci(p)' = {i} /\ SebelumnyaDitemukan(p)'
    BY <1>7, <2>2, <2>3 DEF DeleteHargaJual, SesiHarga, Dikunci, Ditulis, SebelumnyaDitemukan, Penghapus
  <2>6. \A q \in Pemakai \ {p} : Dikunci(p)' \cap Dikunci(q) = {}
    BY <1>7, <2>5 DEF DeleteHargaJual, Bebas
  <2>7. QED BY <2>1, <2>3, <2>4, <2>5, <2>6, HargaDiam
<1>8. ASSUME NEW i \in NomorVersi, UpdateHargaJual(p, i) PROVE IHarga'
  <2> DEFINE T == [TanpaTrx EXCEPT !.langkah = "ubah", !.id = i]
  <2>a. i \in 0..MaksVersi /\ "ubah" \in LangkahTrx
    BY AsumsiHarga DEF LangkahTrx, NomorVersi
  <2>1. T \in Tahapan
    BY <1>0, <2>a, UbahTrx
  <2>2. T.langkah = "ubah" /\ T.id = i /\ T.ubah = {}
    BY DEF TanpaTrx
  <2>3. trx' = [trx EXCEPT ![p] = T] /\ trx'[p] = T /\ UNCHANGED <<versi, idTerakhir, jual, bertabrakan>>
    BY <1>8, <1>t DEF UpdateHargaJual
  <2> HIDE DEF T
  <2>4. SesiHarga(p)' /\ Dikunci(p)' = {} /\ SebelumnyaDitemukan(p)'
    BY <2>2, <2>3 DEF SesiHarga, Dikunci, Ditulis, SebelumnyaDitemukan, Penghapus
  <2>5. T.langkah \notin Penghapus
    BY <2>2 DEF Penghapus
  <2>6. QED BY <2>1, <2>3, <2>4, <2>5, <1>b, HargaDiam
<1>9. QED BY <1>1, <1>2, <1>3, <1>4, <1>5, <1>6, <1>7, <1>8

LEMMA LihatSisip ==
  ASSUME IHarga, NEW p \in Pemakai, trx[p].langkah = "sisip", NEW i \in NomorVersi
  PROVE  LihatHarga(p)[i] = IF i \in Ditulis(p) THEN [versi[i] EXCEPT !.sampai = trx[p].dari]
                            ELSE versi[i]
<1>1. CASE i \in Ditulis(p)
  <2>1. \E w \in trx[p].ubah : w[1] = i
    BY <1>1 DEF Ditulis
  <2>2. PICK w \in trx[p].ubah : w = CHOOSE x \in trx[p].ubah : x[1] = i
    BY <2>1
  <2>3. w[1] = i /\ w[2] = [versi[i] EXCEPT !.sampai = trx[p].dari]
    BY <2>1, <2>2, TipeTrx DEF SesiHarga
  <2>4. QED BY <1>1, <2>2, <2>3 DEF LihatHarga, NomorVersi
<1>2. QED BY <1>1 DEF LihatHarga, NomorVersi

LEMMA SisipTetap ==
  ASSUME IHarga, NEW p \in Pemakai, NEW h \in Harga, InsertHargaJual(p, h)
  PROVE  IHarga'
<1> DEFINE b == [dari |-> trx[p].dari, sampai |-> Seterusnya, harga |-> h]
           n == idTerakhir + 1
           rows == [LihatHarga(p) EXCEPT ![n] = b]
<1>0. trx[p] \in Tahapan /\ SesiHarga(p) /\ trx[p].langkah = "sisip" /\ trx[p].dari \in Tanggal
  BY TipeTrx DEF InsertHargaJual, SesiHarga
<1>1. n \in NomorVersi /\ n \in 0..MaksVersi /\ ~Ada(versi[n])
  <2>1. idTerakhir \in 0..MaksVersi /\ MaksVersi \in Nat /\ n <= MaksVersi
    BY AsumsiHarga DEF InsertHargaJual, IHarga, TipeHarga
  <2>2. n \in NomorVersi /\ n \in 0..MaksVersi /\ ~(n <= idTerakhir)
    BY <2>1 DEF NomorVersi
  <2>3. QED BY <2>2 DEF IHarga, BarisHarga
<1>2. \A i \in NomorVersi : rows[i] = IF i = n THEN b
                               ELSE IF i \in Ditulis(p) THEN [versi[i] EXCEPT !.sampai = trx[p].dari]
                               ELSE versi[i]
  BY <1>0, <1>1, LihatSisip DEF LihatHarga, NomorVersi
<1>3. rows = [i \in NomorVersi |-> rows[i]]
  <2>1. LihatHarga(p) = [i \in NomorVersi |-> LihatHarga(p)[i]]
    BY DEF LihatHarga, NomorVersi
  <2>2. \A f : f = [i \in NomorVersi |-> f[i]] =>
          [f EXCEPT ![n] = b] = [i \in NomorVersi |-> [f EXCEPT ![n] = b][i]]
    OBVIOUS
  <2>3. QED BY <2>1, <2>2
<1>4. b \in Versi /\ Ada(b) /\ b.dari < b.sampai /\ b.dari = trx[p].dari /\ b.sampai = Seterusnya
  BY <1>0, AsumsiHarga DEF Versi, Ada, TakAdaVersi, Tanggal, Seterusnya
<1>5. \A i \in Ditulis(p) : i \in NomorVersi /\ Ada(versi[i]) /\ versi[i].dari < trx[p].dari
                            /\ i \in Dikunci(p)
  <2>1. \A w \in trx[p].ubah : w[1] \in NomorVersi /\ Ada(versi[w[1]]) /\ versi[w[1]].dari < trx[p].dari
    BY <1>0 DEF SesiHarga, Tahapan
  <2>2. QED BY <2>1 DEF Ditulis, Dikunci
<1>6. \A i \in Ditulis(p) : rows[i] \in Versi /\ rows[i].dari = versi[i].dari
                            /\ rows[i].sampai = trx[p].dari /\ rows[i].dari < rows[i].sampai
                            /\ Ada(rows[i])
  <2> SUFFICES ASSUME NEW i \in Ditulis(p)
               PROVE  rows[i] \in Versi /\ rows[i].dari = versi[i].dari
                            /\ rows[i].sampai = trx[p].dari /\ rows[i].dari < rows[i].sampai
                            /\ Ada(rows[i])
    OBVIOUS
  <2>1. i \in NomorVersi /\ i # n /\ rows[i] = [versi[i] EXCEPT !.sampai = trx[p].dari]
    BY <1>1, <1>2, <1>5
  <2>2. versi[i] \in Versi /\ Seterusnya = AkhirTanggal + 1
    BY <2>1, TipeVersi
  <2>3. rows[i] \in Versi /\ rows[i].dari = versi[i].dari /\ rows[i].sampai = trx[p].dari
    BY <1>0, <2>1, <2>2, AsumsiHarga DEF Versi, Tanggal
  <2>4. rows[i].dari < rows[i].sampai /\ rows[i].sampai # 0
    BY <1>0, <1>5, <2>3 DEF Tanggal
  <2>5. Ada(rows[i])
    BY <2>4 DEF Ada, TakAdaVersi
  <2>6. QED BY <2>3, <2>4, <2>5
<1>7. SelesaiTrx(p) /\ UNCHANGED <<jual, bertabrakan>> /\ idTerakhir' = n /\ TungguKonflik(p, b)
      /\ versi' = IF SahHarga(rows) THEN rows ELSE versi
  BY DEF InsertHargaJual
<1> HIDE DEF rows, b
<1>8. \A i \in NomorVersi : rows[i] \in Versi
  BY <1>2, <1>4, <1>6, TipeVersi
<1>9. \A i \in NomorVersi \ {n} : /\ rows[i].dari = versi[i].dari /\ (Ada(rows[i]) <=> Ada(versi[i]))
                                  /\ (i \notin Ditulis(p) => rows[i] = versi[i])
  BY <1>2, <1>5, <1>6
<1>10. rows[n] = b
  BY <1>1, <1>2
<1>a. \A i \in NomorVersi : versi'[i] = versi[i] \/ versi'[i] = rows[i]
  BY <1>7
<1>11. versi' \in [NomorVersi -> Versi]
  <2>1. rows \in [NomorVersi -> Versi]
    BY <1>3, <1>8
  <2>2. QED BY <1>7, <2>1 DEF IHarga, TipeHarga
<1>12. BarisHarga'
  <2> SUFFICES ASSUME NEW i \in NomorVersi, Ada(versi'[i])
               PROVE  versi'[i].dari < versi'[i].sampai /\ i <= n
    BY <1>7 DEF BarisHarga
  <2>1. idTerakhir \in Nat /\ n = idTerakhir + 1
    BY DEF IHarga, TipeHarga
  <2>2. CASE Ada(versi[i]) /\ versi'[i] = versi[i]
    BY <2>1, <2>2 DEF IHarga, BarisHarga, NomorVersi
  <2>3. CASE versi'[i] = rows[i] /\ i = n
    BY <1>4, <1>10, <2>1, <2>3
  <2>4. CASE versi'[i] = rows[i] /\ i # n
    <3>1. Ada(versi[i]) /\ i <= idTerakhir /\ versi[i].dari < versi[i].sampai
      BY <1>9, <2>4 DEF IHarga, BarisHarga
    <3>2. QED BY <1>6, <1>9, <2>1, <2>4, <3>1 DEF NomorVersi
  <2>5. QED BY <1>a, <2>2, <2>3, <2>4
<1>13. NotaBerharga'
  <2>1. \A i \in NomorVersi : Ada(versi[i]) => Ada(versi'[i])
    BY <1>1, <1>9, <1>a
  <2>2. QED BY <1>7, <2>1 DEF IHarga, NotaBerharga, TipeHarga
<1>14. SahHarga(versi')
  BY <1>7 DEF IHarga
<1>15. \A q \in Pemakai \ {p} : \A i \in Dikunci(q) \cap NomorVersi : versi'[i] = versi[i]
  <2> SUFFICES ASSUME NEW q \in Pemakai \ {p}, NEW i \in Dikunci(q) \cap NomorVersi
               PROVE  versi'[i] = versi[i]
    OBVIOUS
  <2>1. i \notin Ditulis(p)
    BY <1>5 DEF IHarga, SatuPemegangVersi
  <2>2. i # n
    <3>1. trx[q] \in Tahapan /\ SesiHarga(q)
      BY TipeTrx
    <3>2. Ada(versi[i])
      <4>1. CASE trx[q].langkah = "sisip"
        BY <3>1, <4>1 DEF Dikunci, Ditulis, SesiHarga
      <4>2. CASE trx[q].langkah \in Penghapus
        <5>1. i = trx[q].id
          BY <3>1, <4>2 DEF Dikunci, Ditulis, SesiHarga, Penghapus
        <5>2. QED BY <3>1, <4>2, <5>1 DEF SesiHarga
      <4>3. QED BY <3>1, <4>1, <4>2 DEF Dikunci, Ditulis, SesiHarga, Penghapus
    <3>3. QED BY <1>1, <3>2
  <2>3. QED BY <1>9, <1>a, <2>1, <2>2
<1>16. ASSUME ~bertabrakan PROVE RantaiHarga'
  <2>0. RantaiHarga
    BY <1>16 DEF IHarga, SatuPenghapus
  <2>1. CASE versi' = versi
    BY <2>0, <2>1 DEF RantaiHarga
  <2>2. CASE versi' = rows
    <3> SUFFICES ASSUME NEW i \in NomorVersi, Ada(rows[i]), rows[i].sampai # Seterusnya
                 PROVE  \E j \in NomorVersi : Ada(rows[j]) /\ rows[j].dari = rows[i].sampai
      BY <2>2 DEF RantaiHarga, NomorVersi
    <3>1. i # n
      BY <1>4, <1>10
    <3>2. CASE i \in Ditulis(p)
      BY <1>1, <1>4, <1>6, <1>10, <3>2
    <3>3. CASE i \notin Ditulis(p)
      <4>1. PICK j \in NomorVersi : Ada(versi[j]) /\ versi[j].dari = versi[i].sampai
        BY <1>9, <2>0, <3>1, <3>3 DEF RantaiHarga, NomorVersi
      <4>2. QED BY <1>1, <1>9, <3>1, <3>3, <4>1
    <3>4. QED BY <3>2, <3>3
  <2>3. QED BY <1>7, <2>1, <2>2
<1>17. ASSUME ~bertabrakan, NEW q \in Pemakai \ {p} PROVE SebelumnyaDitemukan(q)'
  <2>1. trx'[q] = trx[q] /\ SesiHarga(q) /\ trx[q] \in Tahapan /\ SebelumnyaDitemukan(q)
    BY <1>7, <1>17, TipeTrx DEF SelesaiTrx, Pasang, IHarga, TipeHarga, SatuPenghapus
  <2> SUFFICES ASSUME trx[q].langkah = "buka", NEW i \in NomorVersi, Ada(versi'[i]),
                      i # trx[q].id, versi'[i].sampai = trx[q].baca.dari
               PROVE  i \in trx[q].cocok
    BY <2>1 DEF SebelumnyaDitemukan
  <2>2. trx[q].id \in NomorVersi /\ Ada(versi[trx[q].id]) /\ trx[q].baca = versi[trx[q].id]
        /\ trx[q].id \in Dikunci(q)
    BY <2>1 DEF SesiHarga, Penghapus, Dikunci
  <2>3. versi[trx[q].id] \in Versi /\ versi[trx[q].id].dari < versi[trx[q].id].sampai
        /\ Seterusnya = AkhirTanggal + 1
    BY <2>2, TipeVersi
  <2>4. versi[trx[q].id].dari < Seterusnya
    BY <2>3, AsumsiHarga DEF Versi, Seterusnya
  <2>5. ~(b.dari = versi[trx[q].id].dari)
    <3>1. ~Tumpang(versi[trx[q].id], b)
      BY <1>7, <2>2 DEF TungguKonflik
    <3>2. QED BY <1>4, <2>2, <2>3, <2>4, <3>1 DEF Tumpang
  <2>6. CASE versi'[i] = versi[i]
    BY <2>1, <2>6 DEF SebelumnyaDitemukan
  <2>7. CASE versi'[i] = rows[i] /\ i = n
    BY <1>4, <1>10, <2>2, <2>4, <2>3, <2>7, AsumsiHarga DEF Versi
  <2>8. CASE versi'[i] = rows[i] /\ i \in Ditulis(p)
    BY <1>4, <1>6, <2>2, <2>5, <2>8
  <2>9. QED BY <1>9, <1>a, <2>6, <2>7, <2>8
<1>18. QED BY <1>1, <1>7, <1>11, <1>12, <1>13, <1>14, <1>15, <1>16, <1>17, HargaTulis

LEMMA LihatBuka ==
  ASSUME IHarga, NEW p \in Pemakai, trx[p].langkah = "buka", NEW i \in NomorVersi
  PROVE  LihatHarga(p)[i] = IF i = trx[p].id THEN TakAdaVersi ELSE versi[i]
<1>1. trx[p].ubah = {<<trx[p].id, TakAdaVersi>>}
  BY TipeTrx DEF SesiHarga
<1>2. Ditulis(p) = {trx[p].id}
  BY <1>1 DEF Ditulis
<1>3. CASE i = trx[p].id
  <2>1. (CHOOSE x \in trx[p].ubah : x[1] = i) = <<trx[p].id, TakAdaVersi>>
    BY <1>1, <1>3
  <2>2. QED BY SMTT(20), <1>2, <1>3, <2>1 DEF LihatHarga, NomorVersi
<1>4. QED BY <1>2, <1>3 DEF LihatHarga, NomorVersi

LEMMA BukaTetap ==
  ASSUME IHarga, NEW p \in Pemakai, ReopenPreviousHargaJual(p)
  PROVE  IHarga'
<1> DEFINE d == trx[p].id
           kena == trx[p].cocok \cap Sebelumnya(p, LihatHarga(p))
           rows == [i \in 1..MaksVersi |->
                      IF i \in kena THEN [versi[i] EXCEPT !.sampai = trx[p].baca.sampai]
                      ELSE LihatHarga(p)[i]]
<1>0. trx[p] \in Tahapan /\ SesiHarga(p) /\ trx[p].langkah = "buka"
  BY TipeTrx DEF ReopenPreviousHargaJual
<1>1. d \in NomorVersi /\ Ada(versi[d]) /\ trx[p].baca = versi[d] /\ ~Dipakai(d) /\ d \in Dikunci(p)
  BY <1>0 DEF SesiHarga, Penghapus, Dikunci
<1>2. versi[d] \in Versi /\ versi[d].dari < versi[d].sampai
  BY <1>1, TipeVersi
<1>3. \A i \in NomorVersi : LihatHarga(p)[i] = IF i = d THEN TakAdaVersi ELSE versi[i]
  BY <1>0, LihatBuka
<1>4. \A i \in kena : /\ i \in NomorVersi /\ i # d /\ i \in trx[p].cocok
                      /\ Ada(versi[i]) /\ versi[i].sampai = versi[d].dari
  BY <1>1, <1>3, TanpaTrxTipe DEF Sebelumnya, NomorVersi
<1>5. \A i \in kena : rows[i] = [versi[i] EXCEPT !.sampai = versi[d].sampai]
  BY <1>1, <1>4 DEF NomorVersi
<1>6. \A i \in NomorVersi \ kena : rows[i] = IF i = d THEN TakAdaVersi ELSE versi[i]
  BY <1>3 DEF NomorVersi
<1>7. \A i \in NomorVersi \ {d} : Ada(versi[i]) /\ versi[i].sampai = versi[d].dari => (i \in trx[p].cocok => i \in kena)
  BY <1>1, <1>3 DEF Sebelumnya, NomorVersi
<1>8. SelesaiTrx(p) /\ UNCHANGED <<idTerakhir, jual, bertabrakan>>
      /\ (\A i \in trx[p].cocok : Bebas(p, i)) /\ versi' = (IF SahHarga(rows) THEN rows ELSE versi)
  BY DEF ReopenPreviousHargaJual
<1>9. rows = [i \in NomorVersi |-> rows[i]]
  BY DEF NomorVersi
<1> HIDE DEF rows, kena
<1>10. \A i \in kena : /\ rows[i] \in Versi /\ rows[i].dari = versi[i].dari
                       /\ rows[i].sampai = versi[d].sampai /\ rows[i].dari < rows[i].sampai
                       /\ Ada(rows[i])
  <2> SUFFICES ASSUME NEW i \in kena
               PROVE  /\ rows[i] \in Versi /\ rows[i].dari = versi[i].dari
                      /\ rows[i].sampai = versi[d].sampai /\ rows[i].dari < rows[i].sampai
                      /\ Ada(rows[i])
    OBVIOUS
  <2>1. versi[i] \in Versi /\ versi[i].dari < versi[i].sampai /\ versi[i].sampai = versi[d].dari
    BY <1>4, TipeVersi
  <2>2. rows[i] \in Versi /\ rows[i].dari = versi[i].dari /\ rows[i].sampai = versi[d].sampai
    BY <1>2, <1>5, <2>1 DEF Versi
  <2>3. rows[i].dari < rows[i].sampai /\ rows[i].sampai # 0
    BY <1>2, <2>1, <2>2, AsumsiHarga DEF Versi, Seterusnya
  <2>4. Ada(rows[i])
    BY <2>3 DEF Ada, TakAdaVersi
  <2>5. QED BY <2>2, <2>3, <2>4
<1>11. rows \in [NomorVersi -> Versi]
  <2>1. \A i \in NomorVersi : rows[i] \in Versi
    BY <1>6, <1>10, TipeVersi, TanpaTrxTipe
  <2>2. QED BY <1>9, <2>1
<1>12. versi' \in [NomorVersi -> Versi]
  BY <1>8, <1>11 DEF IHarga, TipeHarga
<1>13. \A i \in NomorVersi : Ada(rows[i]) => i # d /\ Ada(versi[i])
  BY <1>4, <1>6, TanpaTrxTipe
<1>14. BarisHarga'
  <2> SUFFICES ASSUME NEW i \in NomorVersi, Ada(versi'[i])
               PROVE  versi'[i].dari < versi'[i].sampai /\ i <= idTerakhir
    BY <1>8 DEF BarisHarga
  <2>1. CASE versi'[i] = versi[i]
    BY <2>1 DEF IHarga, BarisHarga
  <2>2. CASE versi'[i] = rows[i]
    <3>1. Ada(versi[i]) /\ i # d
      BY <1>13, <2>2
    <3>2. versi[i].dari < versi[i].sampai /\ i <= idTerakhir
      BY <3>1 DEF IHarga, BarisHarga
    <3>3. QED BY <1>6, <1>10, <2>2, <3>1, <3>2
  <2>3. QED BY <1>8, <2>1, <2>2
<1>15. NotaBerharga'
  <2>1. \A n \in jual : n.id \in NomorVersi /\ n.id # d /\ Ada(versi[n.id])
    BY <1>1 DEF IHarga, NotaBerharga, TipeHarga, Dipakai
  <2>2. \A i \in NomorVersi : i # d /\ Ada(versi[i]) => Ada(versi'[i])
    BY <1>6, <1>8, <1>10
  <2>3. QED BY <1>8, <2>1, <2>2 DEF NotaBerharga
<1>16. SahHarga(versi')
  BY <1>8 DEF IHarga
<1>17. \A q \in Pemakai \ {p} : \A i \in Dikunci(q) \cap NomorVersi : versi'[i] = versi[i]
  <2> SUFFICES ASSUME NEW q \in Pemakai \ {p}, NEW i \in Dikunci(q) \cap NomorVersi
               PROVE  versi'[i] = versi[i]
    OBVIOUS
  <2>1. i # d
    BY <1>1 DEF IHarga, SatuPemegangVersi
  <2>2. i \notin kena
    BY <1>4, <1>8 DEF Bebas
  <2>3. QED BY <1>6, <1>8, <2>1, <2>2
<1>18. ASSUME ~bertabrakan PROVE RantaiHarga'
  <2>0. RantaiHarga /\ SebelumnyaDitemukan(p)
    BY <1>18 DEF IHarga, SatuPenghapus
  <2>1. CASE versi' = versi
    BY <2>0, <2>1 DEF RantaiHarga
  <2>2. CASE versi' = rows
    <3> SUFFICES ASSUME NEW i \in NomorVersi, Ada(rows[i]), rows[i].sampai # Seterusnya
                 PROVE  \E j \in NomorVersi : Ada(rows[j]) /\ rows[j].dari = rows[i].sampai
      BY <2>2 DEF RantaiHarga, NomorVersi
    <3>1. i # d /\ Ada(versi[i])
      BY <1>13
    <3>2. PICK k \in NomorVersi : k = (IF i \in kena THEN d ELSE i)
      BY <1>1
    <3>3. Ada(versi[k]) /\ versi[k].sampai = rows[i].sampai
      BY <1>1, <1>6, <1>10, <3>1, <3>2
    <3>4. PICK j \in NomorVersi : Ada(versi[j]) /\ versi[j].dari = versi[k].sampai
      BY <2>0, <3>3 DEF RantaiHarga, NomorVersi
    <3>5. j # d
      <4>1. CASE i \in kena
        BY <1>2, <3>2, <3>4, <4>1 DEF Versi, Seterusnya
      <4>2. CASE i \notin kena
        BY <1>0, <1>1, <1>7, <2>0, <3>1, <3>2, <3>4, <4>2 DEF SebelumnyaDitemukan
      <4>3. QED BY <4>1, <4>2
    <3>6. QED BY <1>6, <1>10, <3>3, <3>4, <3>5
  <2>3. QED BY <1>8, <2>1, <2>2
<1>19. ASSUME ~bertabrakan, NEW q \in Pemakai \ {p} PROVE SebelumnyaDitemukan(q)'
  <2>1. trx[q].langkah \notin Penghapus
    BY <1>0, <1>19 DEF IHarga, SatuPenghapus, Penghapus
  <2>2. trx'[q] = trx[q]
    BY <1>8 DEF SelesaiTrx, Pasang, IHarga, TipeHarga
  <2>3. QED BY <2>1, <2>2 DEF SebelumnyaDitemukan, Penghapus
<1>20. idTerakhir' \in 0..MaksVersi
  BY <1>8 DEF IHarga, TipeHarga
<1>21. QED BY <1>8, <1>12, <1>14, <1>15, <1>16, <1>17, <1>18, <1>19, <1>20, HargaTulis

LEMMA TulisHargaTetap ==
  ASSUME IHarga, NEW p \in Pemakai, NEW h \in Harga, TulisHarga(p, h)
  PROVE  IHarga'
<1> DEFINE d == trx[p].id
<1>1. trx[p] \in Tahapan /\ SesiHarga(p) /\ d \in NomorVersi
  BY TipeTrx DEF TulisHarga, SesiHarga
<1>2. SelesaiTrx(p) /\ UNCHANGED <<idTerakhir, jual, bertabrakan>> /\ Bebas(p, d)
      /\ versi' = IF Ada(versi[d]) THEN [versi EXCEPT ![d].harga = h] ELSE versi
  BY DEF TulisHarga
<1>3. versi \in [NomorVersi -> Versi] /\ \A i \in NomorVersi : versi[i] \in Versi
  BY DEF IHarga, TipeHarga
<1>4. versi' \in [NomorVersi -> Versi]
  BY <1>1, <1>2, <1>3 DEF Versi
<1>5. \A i \in NomorVersi : /\ versi'[i].dari = versi[i].dari /\ versi'[i].sampai = versi[i].sampai
                            /\ i # d => versi'[i] = versi[i]
  BY <1>1, <1>2, <1>3 DEF Versi
<1>6. \A i \in NomorVersi : Ada(versi'[i]) <=> Ada(versi[i])
  <2> SUFFICES ASSUME NEW i \in NomorVersi PROVE Ada(versi'[i]) <=> Ada(versi[i])
    OBVIOUS
  <2>1. CASE Ada(versi[d])
    <3>1. versi[d].sampai # 0
      BY <1>1, <1>3, <2>1, TipeVersi DEF Versi, Seterusnya
    <3>2. versi'[d].sampai # 0
      BY <1>1, <1>5, <3>1
    <3>3. Ada(versi'[d])
      BY <3>2 DEF Ada, TakAdaVersi
    <3>4. QED BY <1>5, <2>1, <3>3
  <2>2. CASE ~Ada(versi[d])
    BY <1>2, <2>2
  <2>3. QED BY <2>1, <2>2
<1>7. BarisHarga' /\ NotaBerharga'
  <2>1. BarisHarga'
    BY <1>2, <1>5, <1>6 DEF IHarga, BarisHarga
  <2>2. NotaBerharga'
    BY <1>2, <1>6 DEF IHarga, NotaBerharga, TipeHarga
  <2>3. QED BY <2>1, <2>2
<1>8. SahHarga(versi')
  BY <1>5, <1>6 DEF IHarga, SahHarga, Tumpang, NomorVersi
<1>9. \A q \in Pemakai \ {p} : \A i \in Dikunci(q) \cap NomorVersi : versi'[i] = versi[i]
  BY <1>2, <1>5 DEF Bebas
<1>10. ~bertabrakan => RantaiHarga'
  BY <1>5, <1>6 DEF IHarga, SatuPenghapus, RantaiHarga, NomorVersi
<1>11. ASSUME ~bertabrakan, NEW q \in Pemakai \ {p} PROVE SebelumnyaDitemukan(q)'
  <2>1. trx'[q] = trx[q] /\ SebelumnyaDitemukan(q)
    BY <1>2, <1>11 DEF SelesaiTrx, Pasang, IHarga, TipeHarga, SatuPenghapus
  <2>2. QED BY <1>5, <1>6, <2>1 DEF SebelumnyaDitemukan
<1>12. idTerakhir' \in 0..MaksVersi
  BY <1>2 DEF IHarga, TipeHarga
<1>13. QED BY <1>2, <1>4, <1>7, <1>8, <1>9, <1>10, <1>11, <1>12, HargaTulis

\* The lines of a sale come and go; none appears for a version being removed.
LEMMA NotaTetap ==
  ASSUME IHarga, (\E p \in Pemakai : TulisNota(p)) \/ (\E n \in jual : LepasNota(n))
  PROVE  IHarga'
<1>1. ASSUME NEW n \in jual, LepasNota(n) PROVE IHarga'
  <2>1. UNCHANGED <<versi, idTerakhir, trx, bertabrakan>> /\ jual' \subseteq jual
    BY <1>1 DEF LepasNota
  <2>2. \A p \in Pemakai : SesiHarga(p)' /\ Dikunci(p)' = Dikunci(p)
    BY <2>1 DEF IHarga, SesiHarga, Dipakai, Dikunci, Ditulis
  <2>3. TipeHarga' /\ BarisHarga' /\ NotaBerharga' /\ SahHarga(versi')
    BY <2>1 DEF IHarga, TipeHarga, BarisHarga, NotaBerharga
  <2>4. SatuPemegangVersi'
    BY <2>2 DEF IHarga, SatuPemegangVersi
  <2>5. SatuPenghapus'
    BY <2>1 DEF IHarga, SatuPenghapus, SebelumnyaDitemukan, RantaiHarga
  <2>6. QED BY <2>2, <2>3, <2>4, <2>5 DEF IHarga
<1>2. ASSUME NEW p \in Pemakai, TulisNota(p) PROVE IHarga'
  <2> DEFINE d == trx[p].id
  <2>0. trx[p] \in Tahapan /\ d \in NomorVersi /\ trx[p].baca \in Versi
    BY <1>2, TipeTrx DEF TulisNota, SesiHarga, Tahapan
  <2>1. SelesaiTrx(p) /\ UNCHANGED <<versi, idTerakhir, bertabrakan>>
        /\ (\A q \in Pemakai : trx[q].langkah \in Penghapus => trx[q].id # d)
    BY <1>2 DEF TulisNota, Penghapus
  <2>2. \A m \in jual' : m \in jual \/ (m.id = d /\ Ada(versi[d]))
    BY <1>2 DEF TulisNota
  <2>3. jual' \subseteq [id : NomorVersi, harga : Harga \cup {0}]
    BY <1>2, <2>0 DEF TulisNota, Versi, IHarga, TipeHarga
  <2>4. \A q \in Pemakai : trx'[q] = IF q = p THEN TanpaTrx ELSE trx[q]
    BY <2>1 DEF IHarga, TipeHarga, SelesaiTrx, Pasang
  <2>5. TipeHarga'
    BY <2>1, <2>3, TanpaTrxTipe DEF IHarga, TipeHarga, SelesaiTrx, Pasang, Tahapan
  <2>6. BarisHarga' /\ NotaBerharga' /\ SahHarga(versi')
    BY <2>1, <2>2 DEF IHarga, BarisHarga, NotaBerharga
  <2>7. SesiHarga(p)' /\ Dikunci(p)' = {} /\ TanpaTrx.langkah \notin Penghapus
    BY <2>4 DEF SesiHarga, Dikunci, Ditulis, TanpaTrx, Penghapus
  <2>8. ASSUME NEW q \in Pemakai \ {p} PROVE SesiHarga(q)' /\ Dikunci(q)' = Dikunci(q)
    <3>1. trx'[q] = trx[q] /\ SesiHarga(q)
      BY <2>4 DEF IHarga
    <3>2. trx[q].langkah \in {"cari", "buka"} => ~Dipakai(trx[q].id)'
      BY <2>1, <2>2, <3>1 DEF SesiHarga, Dipakai, Penghapus
    <3>3. QED BY <2>1, <3>1, <3>2 DEF SesiHarga, Dikunci, Ditulis
  <2>9. SatuPemegangVersi'
    BY <2>7, <2>8 DEF IHarga, SatuPemegangVersi
  <2>10. SatuPenghapus'
    <3>1. ASSUME ~bertabrakan, NEW q \in Pemakai PROVE SebelumnyaDitemukan(q)'
      BY <2>1, <2>4, <2>7, <3>1 DEF IHarga, SatuPenghapus, SebelumnyaDitemukan, Penghapus
    <3>2. ASSUME ~bertabrakan, NEW q \in Pemakai, NEW r \in Pemakai,
                 trx'[q].langkah \in Penghapus, trx'[r].langkah \in Penghapus
          PROVE  q = r
      BY <2>4, <2>7, <3>2 DEF IHarga, SatuPenghapus
    <3>3. RantaiHarga' <=> RantaiHarga
      BY <2>1 DEF RantaiHarga
    <3>4. QED BY <2>1, <3>1, <3>2, <3>3 DEF IHarga, SatuPenghapus
  <2>11. QED BY <2>5, <2>6, <2>7, <2>8, <2>9, <2>10 DEF IHarga
<1>3. QED BY <1>1, <1>2

LEMMA IHargaInduktif == SpecHarga => []IHarga
<1>1. InitHarga => IHarga
  <2> SUFFICES ASSUME InitHarga PROVE IHarga
    OBVIOUS
  <2>1. \A i \in NomorVersi : ~Ada(versi[i])
    BY TanpaTrxTipe DEF InitHarga, NomorVersi
  <2>2. TipeHarga
    <3>1. versi \in [NomorVersi -> Versi]
      BY TanpaTrxTipe DEF InitHarga, NomorVersi
    <3>2. trx \in [Pemakai -> Tahapan]
      BY TanpaTrxTipe DEF InitHarga
    <3>3. idTerakhir = 0 /\ jual = {} /\ bertabrakan = FALSE
      BY DEF InitHarga
    <3>4. idTerakhir \in 0..MaksVersi
      BY <3>3, AsumsiHarga
    <3>5. QED BY <3>1, <3>2, <3>3, <3>4 DEF TipeHarga, Tahapan
  <2>3. \A p \in Pemakai : SesiHarga(p) /\ Dikunci(p) = {} /\ SebelumnyaDitemukan(p)
                           /\ trx[p].langkah \notin Penghapus
    BY DEF InitHarga, SesiHarga, Dikunci, Ditulis, SebelumnyaDitemukan, Penghapus, TanpaTrx
  <2>4. BarisHarga /\ NotaBerharga /\ RantaiHarga /\ SahHarga(versi)
    BY <2>1 DEF InitHarga, BarisHarga, NotaBerharga, RantaiHarga, SahHarga, Tumpang, NomorVersi
  <2>5. QED BY <2>2, <2>3, <2>4 DEF IHarga, SatuPemegangVersi, SatuPenghapus
<1>2. IHarga /\ [NextHarga]_varsHarga => IHarga'
  <2> SUFFICES ASSUME IHarga, [NextHarga]_varsHarga PROVE IHarga'
    OBVIOUS
  <2>1. CASE UNCHANGED varsHarga
    BY <2>1 DEF varsHarga, IHarga, TipeHarga, BarisHarga, SatuPemegangVersi, SatuPenghapus,
       NotaBerharga, SesiHarga, Dikunci, Ditulis, Dipakai, SebelumnyaDitemukan, RantaiHarga
  <2>2. CASE NextHarga
    BY <2>2, DiamTetap, SisipTetap, BukaTetap, TulisHargaTetap, NotaTetap DEF NextHarga, NomorVersi
  <2>3. QED BY <2>1, <2>2
<1>3. QED BY <1>1, <1>2, PTL DEF SpecHarga

\* However openings, corrections, sales and removals overlap, as long as no two
\* removals do: a day after the first version is never without a price
\* (product_usecase.go, AddHargaJual and DeleteHargaJual).
THEOREM RantaiHargaSelaluUtuh == SpecHarga => []RantaiHargaSatuPenghapus
<1>1. IHarga => RantaiHargaSatuPenghapus
  BY DEF IHarga, SatuPenghapus, RantaiHargaSatuPenghapus
<1>2. QED BY <1>1, IHargaInduktif, PTL

\* Versions, sale lines and identities keep their types, and the periods of no
\* two versions overlap (product_harga_jual's exclusion constraint, which an
\* insert or a correction meets when it writes).
THEOREM TipeHargaSelalu == SpecHarga => []TypeOKHarga
<1>1. IHarga => TypeOKHarga
  BY AsumsiHarga DEF IHarga, TypeOKHarga, TipeHarga, BarisHarga, NotaBerharga, NomorVersi, Versi, SahHarga
<1>2. QED BY <1>1, IHargaInduktif, PTL

-----------------------------------------------------------------------------
(***************************************************************************)
(* Units of a product: one request at a time may commit with the flag, and *)
(* the rows it clears are those that carry it.                             *)
(***************************************************************************)
LangkahOlah == {"diam", "lihat", "bersih", "sisip", "commit"}
Tulisan == UNION {[D -> BarisSatuan] : D \in SUBSET SatuanAda}
Pengolahan == [langkah : LangkahOlah, u : SatuanAda, f : Nat \ {0}, d : BOOLEAN,
               lama : SUBSET SatuanAda, tulis : Tulisan]

TipeProduk ==
  /\ produk \in [ada : BOOLEAN, stok_minimum : Nat, aktif : BOOLEAN] /\ konversi \in Tulisan /\ (~produk.ada => konversi = <<>>)
  /\ olah \in [Pengolah -> Pengolahan]

\* What a request carries: the row it stores and the flags it clears.
BentukOlah(m) ==
  /\ m # TanpaOlah => m.langkah # "diam"
  /\ m.langkah \in {"lihat", "bersih"} => m.d /\ m.tulis = <<>>
  /\ m.langkah = "sisip" /\ ~m.d => m.tulis = <<>>
  /\ m.langkah = "commit" =>
       /\ m.u \in DOMAIN m.tulis /\ m.tulis[m.u] = [faktor |-> m.f, bawaan |-> m.d]
       /\ m.d \/ DOMAIN m.tulis = {m.u}
  /\ \A u \in DOMAIN m.tulis \ {m.u} : ~m.tulis[u].bawaan
  /\ m.u = Dasar => m.f = 1
  /\ Dasar \in DOMAIN m.tulis => m.tulis[Dasar].faktor = 1

\* A request about to store its row with the flag.
Menaikkan(s) == olah[s].langkah = "commit" /\ olah[s].d

SatuBawaan == \A u, v \in Bawaan(konversi) : u = v

IProduk ==
  /\ TipeProduk
  /\ \A s \in Pengolah : BentukOlah(olah[s]) /\ (olah[s] # TanpaOlah => produk.ada)
  /\ \A s, t \in Pengolah : s # t => DOMAIN olah[s].tulis \cap DOMAIN olah[t].tulis = {}
  /\ SatuBawaan
  /\ produk.ada => Dasar \in DOMAIN konversi /\ konversi[Dasar].faktor = 1
  /\ \A s \in Pengolah : Menaikkan(s) =>
       /\ Bawaan(konversi) \subseteq DOMAIN olah[s].tulis
       /\ \A t \in Pengolah : Menaikkan(t) => t = s

LEMMA TulisanKosong == <<>> \in Tulisan /\ DOMAIN <<>> = {}
<1>1. <<>> = [x \in {} |-> [faktor |-> 1, bawaan |-> TRUE]]
  OBVIOUS
<1>2. <<>> \in [{} -> BarisSatuan] /\ DOMAIN <<>> = {}
  BY <1>1
<1>3. QED BY <1>2 DEF Tulisan

LEMMA TulisanIsi ==
  ASSUME NEW w \in Tulisan
  PROVE  DOMAIN w \subseteq SatuanAda /\ \A u \in DOMAIN w : w[u] \in BarisSatuan
BY DEF Tulisan

LEMMA TulisanDari ==
  ASSUME NEW D \in SUBSET SatuanAda, NEW w, w = [u \in D |-> w[u]], \A u \in D : w[u] \in BarisSatuan
  PROVE  w \in Tulisan
<1>1. w \in [D -> BarisSatuan]
  OBVIOUS
<1>2. QED BY <1>1 DEF Tulisan

LEMMA TimpaIsi ==
  ASSUME NEW w \in Tulisan, NEW k \in Tulisan
  PROVE  /\ Timpa(w, k) \in Tulisan
         /\ DOMAIN Timpa(w, k) = DOMAIN w \cup DOMAIN k
         /\ \A u \in DOMAIN w : Timpa(w, k)[u] = w[u]
         /\ \A u \in DOMAIN k \ DOMAIN w : Timpa(w, k)[u] = k[u]
<1> DEFINE D == DOMAIN w \cup DOMAIN k
<1>1. Timpa(w, k) = [u \in D |-> Timpa(w, k)[u]] /\ D \in SUBSET SatuanAda
  BY TulisanIsi DEF Timpa
<1>2. \A u \in D : Timpa(w, k)[u] \in BarisSatuan
  BY TulisanIsi DEF Timpa
<1>3. Timpa(w, k) \in Tulisan
  BY <1>1, <1>2, TulisanDari
<1>4. QED BY <1>3 DEF Timpa

LEMMA TanpaOlahTipe == TanpaOlah \in Pengolahan /\ BentukOlah(TanpaOlah) /\ TanpaOlah.tulis = <<>>
<1>1. TanpaOlah.tulis = <<>> /\ TanpaOlah.langkah = "diam" /\ TanpaOlah.f = 1 /\ TanpaOlah.u = Dasar
  BY DEF TanpaOlah
<1>2. TanpaOlah \in Pengolahan
  BY AsumsiSatuanProduk, TulisanKosong DEF TanpaOlah, Pengolahan, LangkahOlah
<1>3. BentukOlah(TanpaOlah)
  BY <1>1, TulisanKosong DEF BentukOlah
<1>4. QED BY <1>1, <1>2, <1>3

\* A step of one request that commits nothing.
LEMMA OlahDiam ==
  ASSUME IProduk, NEW s \in Pengolah, NEW m \in Pengolahan, olah' = [olah EXCEPT ![s] = m],
         UNCHANGED <<produk, konversi>>, BentukOlah(m), m # TanpaOlah => produk.ada,
         \A t \in Pengolah \ {s} : DOMAIN m.tulis \cap DOMAIN olah[t].tulis = {},
         m.langkah = "commit" /\ m.d =>
           /\ Bawaan(konversi) \subseteq DOMAIN m.tulis
           /\ \A t \in Pengolah \ {s} : ~Menaikkan(t)
  PROVE  IProduk'
<1>1. \A t \in Pengolah : olah'[t] = IF t = s THEN m ELSE olah[t]
  BY DEF IProduk, TipeProduk
<1>2. TipeProduk'
  BY DEF IProduk, TipeProduk
<1>3. \A t \in Pengolah : BentukOlah(olah'[t]) /\ (olah'[t] # TanpaOlah => produk'.ada)
  BY <1>1 DEF IProduk
<1>4. \A t, r \in Pengolah : t # r => DOMAIN olah'[t].tulis \cap DOMAIN olah'[r].tulis = {}
  BY <1>1 DEF IProduk
<1>5. \A t \in Pengolah : Menaikkan(t)' <=> IF t = s THEN m.langkah = "commit" /\ m.d ELSE Menaikkan(t)
  BY <1>1 DEF Menaikkan
<1>6. \A r \in Pengolah : Menaikkan(r)' => /\ Bawaan(konversi) \subseteq DOMAIN olah'[r].tulis
                                           /\ \A t \in Pengolah : Menaikkan(t)' => t = r
  BY <1>1, <1>5 DEF IProduk
<1>7. QED BY <1>2, <1>3, <1>4, <1>6 DEF IProduk, SatuBawaan, Bawaan

LEMMA MulaiTetap ==
  ASSUME IProduk, NEW s \in Pengolah, AddSatuan(s) \/ LihatBawaan(s) \/ GagalOlah(s)
  PROVE  IProduk'
<1>0. olah[s] \in Pengolahan /\ BentukOlah(olah[s]) /\ produk.ada
  <2>1. olah[s] # TanpaOlah \/ produk.ada
    <3>1. TanpaOlah.langkah # "lihat"
      BY DEF TanpaOlah
    <3>2. QED BY <3>1 DEF AddSatuan, LihatBawaan, GagalOlah
  <2>2. QED BY <2>1 DEF IProduk, TipeProduk
<1>1. CASE AddSatuan(s)
  <2>1. PICK i \in IsianSatuan :
          /\ i.satuan = Dasar => i.faktor = 1
          /\ olah' = [olah EXCEPT ![s] =
                     [TanpaOlah EXCEPT !.langkah = IF i.bawaan THEN "lihat" ELSE "sisip",
                                       !.u = i.satuan, !.f = i.faktor, !.d = i.bawaan]]
    BY <1>1 DEF AddSatuan
  <2> DEFINE m == [TanpaOlah EXCEPT !.langkah = IF i.bawaan THEN "lihat" ELSE "sisip",
                                    !.u = i.satuan, !.f = i.faktor, !.d = i.bawaan]
  <2>2. i.satuan \in SatuanAda /\ i.faktor \in Nat \ {0} /\ i.bawaan \in BOOLEAN
    <3>1. PICK u \in SatuanAda, f \in FaktorIsian, d \in BOOLEAN : i = Isian(u, f, d)
      BY DEF IsianSatuan
    <3>2. i.satuan = u /\ i.faktor = f /\ i.bawaan = d
      BY <3>1 DEF Isian
    <3>3. QED BY <3>2, AsumsiSatuanProduk DEF AsumsiSatuanProduk
  <2>3. m \in Pengolahan
    BY <2>2, TanpaOlahTipe DEF Pengolahan, LangkahOlah
  <2>4. /\ m.langkah = (IF i.bawaan THEN "lihat" ELSE "sisip") /\ m.u = i.satuan /\ m.f = i.faktor
        /\ m.d = i.bawaan /\ m.tulis = <<>>
    BY DEF TanpaOlah
  <2>5. BentukOlah(m)
    BY <2>1, <2>2, <2>4, TulisanKosong DEF BentukOlah
  <2>6. UNCHANGED <<produk, konversi>>
    BY <1>1 DEF AddSatuan
  <2>7. DOMAIN m.tulis = {} /\ m.langkah # "commit"
    BY <2>4, TulisanKosong
  <2> HIDE DEF m
  <2>8. QED BY <1>0, <2>1, <2>3, <2>5, <2>6, <2>7, OlahDiam DEF m
<1>2. CASE LihatBawaan(s)
  <2> DEFINE L == Bawaan(konversi) \ {olah[s].u}
             m == [olah[s] EXCEPT !.lama = L, !.langkah = "bersih"]
  <2>1. olah[s].langkah = "lihat" /\ UNCHANGED <<produk, konversi>>
        /\ olah' = [olah EXCEPT ![s].lama = L, ![s].langkah = "bersih"]
    BY <1>2 DEF LihatBawaan
  <2>2. olah' = [olah EXCEPT ![s] = m]
    BY <2>1 DEF IProduk, TipeProduk, Pengolahan
  <2>3. L \in SUBSET SatuanAda
    BY TulisanIsi DEF IProduk, TipeProduk, Bawaan
  <2>4. m \in Pengolahan
    BY <1>0, <2>3 DEF Pengolahan, LangkahOlah
  <2>5. m.langkah = "bersih" /\ m.u = olah[s].u /\ m.f = olah[s].f /\ m.d = olah[s].d /\ m.tulis = olah[s].tulis
    BY <1>0 DEF Pengolahan
  <2> HIDE DEF m
  <2>6. BentukOlah(m)
    BY <1>0, <2>1, <2>5 DEF BentukOlah
  <2>7. \A t \in Pengolah \ {s} : DOMAIN m.tulis \cap DOMAIN olah[t].tulis = {}
    BY <2>5 DEF IProduk
  <2>8. QED BY <1>0, <2>1, <2>2, <2>4, <2>5, <2>6, <2>7, OlahDiam
<1>3. CASE GagalOlah(s)
  <2>1. UNCHANGED <<produk, konversi>> /\ olah' = [olah EXCEPT ![s] = TanpaOlah]
    BY <1>3 DEF GagalOlah
  <2>2. DOMAIN TanpaOlah.tulis = {} /\ TanpaOlah.langkah # "commit"
    BY TanpaOlahTipe, TulisanKosong DEF TanpaOlah
  <2>3. QED BY <2>1, <2>2, TanpaOlahTipe, OlahDiam
<1>4. QED BY <1>1, <1>2, <1>3

LEMMA BersihTetap ==
  ASSUME IProduk, NEW s \in Pengolah, ClearDefaultSatuan(s)
  PROVE  IProduk'
<1> DEFINE K == olah[s].lama \cap Bawaan(konversi)
           w == [u \in K |-> [konversi[u] EXCEPT !.bawaan = FALSE]]
           m == [olah[s] EXCEPT !.tulis = w, !.langkah = "sisip"]
<1>0. olah[s] \in Pengolahan /\ BentukOlah(olah[s]) /\ produk.ada
  <2>1. olah[s] # TanpaOlah
    BY DEF ClearDefaultSatuan, TanpaOlah
  <2>2. QED BY <2>1 DEF IProduk, TipeProduk
<1>1. olah[s].langkah = "bersih" /\ UNCHANGED <<produk, konversi>> /\ olah[s].lama \cap DipegangLain(s) = {}
      /\ olah' = [olah EXCEPT ![s].tulis = w, ![s].langkah = "sisip"]
  BY DEF ClearDefaultSatuan
<1>2. olah' = [olah EXCEPT ![s] = m]
  BY <1>1 DEF IProduk, TipeProduk, Pengolahan
<1>3. \A u \in K : /\ u \in DOMAIN konversi /\ w[u] \in BarisSatuan /\ w[u].faktor = konversi[u].faktor
                   /\ w[u].bawaan = FALSE
  <2> SUFFICES ASSUME NEW u \in K
               PROVE  /\ u \in DOMAIN konversi /\ w[u] \in BarisSatuan
                      /\ w[u].faktor = konversi[u].faktor /\ w[u].bawaan = FALSE
    OBVIOUS
  <2>1. u \in DOMAIN konversi /\ konversi \in Tulisan
    BY DEF IProduk, TipeProduk, Bawaan
  <2>2. konversi[u] \in BarisSatuan
    BY <2>1, TulisanIsi
  <2>3. w[u] = [konversi[u] EXCEPT !.bawaan = FALSE]
    OBVIOUS
  <2>4. QED BY <2>1, <2>2, <2>3 DEF BarisSatuan
<1>4. K \in SUBSET SatuanAda
  BY TulisanIsi DEF IProduk, TipeProduk, Bawaan
<1>5. DOMAIN w = K /\ w \in Tulisan
  BY <1>3, <1>4, TulisanDari
<1>6. m.langkah = "sisip" /\ m.u = olah[s].u /\ m.f = olah[s].f /\ m.d = olah[s].d /\ m.tulis = w
  BY <1>0 DEF Pengolahan
<1>7. m \in Pengolahan
  BY <1>0, <1>5 DEF Pengolahan, LangkahOlah
<1> HIDE DEF m, w
<1>8. BentukOlah(m)
  <2>1. m.d
    BY <1>0, <1>1, <1>6 DEF BentukOlah
  <2>2. \A u \in DOMAIN m.tulis : ~m.tulis[u].bawaan
    BY <1>3, <1>5, <1>6
  <2>3. Dasar \in DOMAIN m.tulis => m.tulis[Dasar].faktor = 1
    BY <1>0, <1>3, <1>5, <1>6 DEF IProduk
  <2>4. m.u = Dasar => m.f = 1
    BY <1>0, <1>6 DEF BentukOlah
  <2>5. QED BY <1>6, <2>1, <2>2, <2>3, <2>4 DEF BentukOlah
<1>9. \A t \in Pengolah \ {s} : DOMAIN m.tulis \cap DOMAIN olah[t].tulis = {}
  BY <1>1, <1>5, <1>6 DEF DipegangLain
<1>10. QED BY <1>0, <1>1, <1>2, <1>6, <1>7, <1>8, <1>9, OlahDiam

LEMMA SisipSatuanTetap ==
  ASSUME IProduk, NEW s \in Pengolah, InsertSatuan(s)
  PROVE  IProduk'
<1> DEFINE k == olah[s]
           b == [u \in {k.u} |-> [faktor |-> k.f, bawaan |-> k.d]]
           w == Timpa(b, k.tulis)
           m == [k EXCEPT !.tulis = w, !.langkah = "commit"]
           lihat == Timpa(k.tulis, konversi)
           tolak == k.d /\ Bawaan(lihat) \ {k.u} # {}
<1>0. k \in Pengolahan /\ BentukOlah(k) /\ produk.ada
  <2>1. k # TanpaOlah
    BY DEF InsertSatuan, TanpaOlah
  <2>2. QED BY <2>1 DEF IProduk, TipeProduk
<1>1. /\ k.langkah = "sisip" /\ UNCHANGED <<produk, konversi>> /\ k.u \notin DipegangLain(s)
      /\ olah' = [olah EXCEPT ![s] = IF tolak THEN TanpaOlah ELSE m]
  BY DEF InsertSatuan
<1>2. k.d => \A t \in Pengolah \ {s} : \A u \in DOMAIN olah[t].tulis :
                u \notin Bawaan(konversi) /\ ~olah[t].tulis[u].bawaan
  BY DEF InsertSatuan, DipegangLain
<1>3. CASE tolak
  <2>1. DOMAIN TanpaOlah.tulis = {} /\ TanpaOlah.langkah # "commit"
    BY TanpaOlahTipe, TulisanKosong DEF TanpaOlah
  <2>2. QED BY <1>1, <1>3, <2>1, TanpaOlahTipe, OlahDiam
<1>4. CASE ~tolak
  <2>1. k.u \in SatuanAda /\ k.f \in Nat \ {0} /\ k.d \in BOOLEAN /\ k.tulis \in Tulisan
    BY <1>0 DEF Pengolahan
  <2>2. b \in Tulisan /\ DOMAIN b = {k.u} /\ b[k.u] = [faktor |-> k.f, bawaan |-> k.d]
    <3>1. \A u \in {k.u} : b[u] \in BarisSatuan
      BY <2>1 DEF BarisSatuan
    <3>2. QED BY <2>1, <3>1, TulisanDari
  <2>3. /\ w \in Tulisan /\ DOMAIN w = {k.u} \cup DOMAIN k.tulis
        /\ w[k.u] = [faktor |-> k.f, bawaan |-> k.d]
        /\ \A u \in DOMAIN k.tulis \ {k.u} : w[u] = k.tulis[u]
    BY <2>1, <2>2, TimpaIsi
  <2>4. m.langkah = "commit" /\ m.u = k.u /\ m.f = k.f /\ m.d = k.d /\ m.tulis = w
    BY <1>0 DEF Pengolahan
  <2>5. m \in Pengolahan
    BY <1>0, <2>3 DEF Pengolahan, LangkahOlah
  <2>6. olah' = [olah EXCEPT ![s] = m]
    BY <1>1, <1>4
  <2>7. BentukOlah(m)
    <3>1. m.d \/ DOMAIN m.tulis = {m.u}
      BY <1>0, <1>1, <2>3, <2>4, TulisanKosong DEF BentukOlah
    <3>2. \A u \in DOMAIN m.tulis \ {m.u} : ~m.tulis[u].bawaan
      BY <1>0, <2>3, <2>4 DEF BentukOlah
    <3>3. Dasar \in DOMAIN m.tulis => m.tulis[Dasar].faktor = 1
      BY <1>0, <2>3, <2>4 DEF BentukOlah
    <3>4. (m.u = Dasar => m.f = 1) /\ m # TanpaOlah
      BY <1>0, <2>4 DEF BentukOlah, TanpaOlah
    <3>5. QED BY <2>3, <2>4, <3>1, <3>2, <3>3, <3>4 DEF BentukOlah
  <2>8. \A t \in Pengolah \ {s} : DOMAIN m.tulis \cap DOMAIN olah[t].tulis = {}
    <3>1. \A t \in Pengolah \ {s} : DOMAIN k.tulis \cap DOMAIN olah[t].tulis = {}
      BY DEF IProduk
    <3>2. QED BY <1>1, <2>3, <2>4, <3>1 DEF DipegangLain
  <2>9. k.d => Bawaan(konversi) \subseteq DOMAIN w
    <3> SUFFICES ASSUME k.d, NEW v \in Bawaan(konversi), v \notin DOMAIN w PROVE FALSE
      OBVIOUS
    <3>1. konversi \in Tulisan /\ v \in DOMAIN konversi /\ konversi[v].bawaan
      BY DEF IProduk, TipeProduk, Bawaan
    <3>a. v \in DOMAIN konversi \ DOMAIN k.tulis
      BY <2>3, <3>1
    <3>b. v \in DOMAIN lihat /\ lihat[v] = konversi[v]
      BY ZenonT(30), <2>1, <3>1, <3>a, TimpaIsi
    <3>2. v \in Bawaan(lihat)
      BY <3>1, <3>b DEF Bawaan
    <3>3. QED BY <1>4, <2>3, <3>2
  <2>10. k.d => \A t \in Pengolah \ {s} : ~Menaikkan(t)
    <3> SUFFICES ASSUME k.d, NEW t \in Pengolah \ {s}, Menaikkan(t) PROVE FALSE
      OBVIOUS
    <3>1. olah[t].u \in DOMAIN olah[t].tulis /\ olah[t].tulis[olah[t].u] = [faktor |-> olah[t].f, bawaan |-> olah[t].d]
      BY DEF IProduk, BentukOlah, Menaikkan
    <3>2. QED BY <1>2, <3>1 DEF Menaikkan
  <2> HIDE DEF m, w, k
  <2>11. QED BY <1>0, <1>1, <2>4, <2>5, <2>6, <2>7, <2>8, <2>9, <2>10, OlahDiam
<1>5. QED BY <1>3, <1>4

LEMMA CommitSatuanTetap ==
  ASSUME IProduk, NEW s \in Pengolah, CommitSatuan(s)
  PROVE  IProduk'
<1> DEFINE k == olah[s]
<1>0. k \in Pengolahan /\ BentukOlah(k) /\ produk.ada /\ k.langkah = "commit"
  <2>1. k # TanpaOlah
    BY DEF CommitSatuan, TanpaOlah
  <2>2. QED BY <2>1 DEF IProduk, TipeProduk, CommitSatuan
<1>1. /\ konversi' = Timpa(k.tulis, konversi) /\ UNCHANGED produk
      /\ olah' = [olah EXCEPT ![s] = TanpaOlah]
  BY DEF CommitSatuan
<1>2. k.tulis \in Tulisan /\ konversi \in Tulisan /\ k.d \in BOOLEAN
  BY <1>0 DEF IProduk, TipeProduk, Pengolahan
<1>3. /\ konversi' \in Tulisan /\ DOMAIN konversi' = DOMAIN k.tulis \cup DOMAIN konversi
      /\ \A u \in DOMAIN k.tulis : konversi'[u] = k.tulis[u]
      /\ \A u \in DOMAIN konversi \ DOMAIN k.tulis : konversi'[u] = konversi[u]
  BY <1>1, <1>2, TimpaIsi
<1>4. \A t \in Pengolah : olah'[t] = IF t = s THEN TanpaOlah ELSE olah[t]
  BY <1>1 DEF IProduk, TipeProduk
<1>5. TipeProduk'
  BY <1>0, <1>1, <1>3, TanpaOlahTipe DEF IProduk, TipeProduk
<1>6. \A t \in Pengolah : BentukOlah(olah'[t]) /\ (olah'[t] # TanpaOlah => produk'.ada)
  BY <1>1, <1>4, TanpaOlahTipe DEF IProduk
<1>7. \A t, r \in Pengolah : t # r => DOMAIN olah'[t].tulis \cap DOMAIN olah'[r].tulis = {}
  BY <1>4, TanpaOlahTipe, TulisanKosong DEF IProduk
<1>8. /\ k.u \in DOMAIN k.tulis /\ k.tulis[k.u].bawaan = k.d
      /\ \A u \in DOMAIN k.tulis \ {k.u} : ~k.tulis[u].bawaan
  BY <1>0 DEF BentukOlah
<1>9. \A u \in Bawaan(konversi') : IF k.d THEN u = k.u ELSE u \in Bawaan(konversi) \ DOMAIN k.tulis
  <2> SUFFICES ASSUME NEW u \in Bawaan(konversi')
               PROVE  IF k.d THEN u = k.u ELSE u \in Bawaan(konversi) \ DOMAIN k.tulis
    OBVIOUS
  <2>0. u \in DOMAIN konversi' /\ konversi'[u].bawaan
    BY DEF Bawaan
  <2>1. CASE u \in DOMAIN k.tulis
    BY <1>3, <1>8, <2>0, <2>1
  <2>2. CASE u \notin DOMAIN k.tulis
    <3>1. u \in Bawaan(konversi)
      BY <1>3, <2>0, <2>2 DEF Bawaan
    <3>2. k.d => Bawaan(konversi) \subseteq DOMAIN k.tulis
      BY <1>0 DEF IProduk, Menaikkan
    <3>3. QED BY <2>2, <3>1, <3>2
  <2>3. QED BY <2>1, <2>2
<1>10. SatuBawaan'
  BY <1>9 DEF IProduk, SatuBawaan
<1>11. Dasar \in DOMAIN konversi' /\ konversi'[Dasar].faktor = 1
  BY <1>0, <1>3 DEF IProduk, BentukOlah
<1>12. ASSUME NEW t \in Pengolah, Menaikkan(t)'
       PROVE  /\ Bawaan(konversi') \subseteq DOMAIN olah'[t].tulis
              /\ \A r \in Pengolah : Menaikkan(r)' => r = t
  <2>1. t # s /\ olah'[t] = olah[t] /\ Menaikkan(t)
    BY <1>4, <1>12 DEF Menaikkan, TanpaOlah
  <2>2. \A r \in Pengolah : Menaikkan(r)' => Menaikkan(r)
    BY <1>4 DEF Menaikkan, TanpaOlah
  <2>3. ~k.d
    BY <1>0, <2>1 DEF IProduk, Menaikkan
  <2>4. QED BY <1>9, <2>1, <2>2, <2>3 DEF IProduk
<1>13. QED BY <1>1, <1>5, <1>6, <1>7, <1>10, <1>11, <1>12 DEF IProduk

LEMMA BarisJadiSeq ==
  ASSUME NEW S, NEW n \in Nat, NEW f \in [1..n -> S]
  PROVE  f \in Seq(S) /\ Len(f) = n
OBVIOUS

\* What mergeSatuan goes through.
SemuaSatuan(q) == <<Isian(Dasar, 1, FALSE)>> \o q

LEMMA SemuaIsi ==
  ASSUME NEW S, Isian(Dasar, 1, FALSE) \in S, NEW q \in Seq(S), Len(q) \in 0..2
  PROVE  /\ Len(SemuaSatuan(q)) \in 1..3 /\ DOMAIN SemuaSatuan(q) = 1..Len(SemuaSatuan(q))
         /\ SemuaSatuan(q)[1] = Isian(Dasar, 1, FALSE)
         /\ \A i \in DOMAIN SemuaSatuan(q) : SemuaSatuan(q)[i] \in S
<1> DEFINE x == Isian(Dasar, 1, FALSE)
           p == <<x>> \o q
<1> HIDE DEF x
<1>0. x \in S
  BY DEF x
<1>1. <<x>> \in Seq(S) /\ Len(<<x>>) = 1
  BY <1>0
<1>2. p \in Seq(S) /\ Len(p) = Len(q) + 1 /\ p[1] = x
  BY <1>1
<1>a. \A n \in 0..2 : n + 1 \in 1..3
  OBVIOUS
<1> HIDE DEF p
<1>3. Len(p) \in 1..3
  BY <1>2, <1>a
<1>b. DOMAIN p = 1..Len(p) /\ \A i \in DOMAIN p : p[i] \in S
  BY <1>2
<1>4. QED BY <1>2, <1>3, <1>b DEF SemuaSatuan, x, p

LEMMA MergeIsi ==
  ASSUME NEW q \in Seq(IsianSatuan), Len(q) \in 0..2
  PROVE  /\ mergeSatuan(q) \in Tulisan /\ IsFiniteSet(DOMAIN mergeSatuan(q))
         /\ Dasar \in DOMAIN mergeSatuan(q) /\ mergeSatuan(q)[Dasar].faktor = 1
<1>p. PICK p : p = SemuaSatuan(q)
  OBVIOUS
<1> DEFINE S == {Isian(Dasar, 1, FALSE)} \cup IsianSatuan
           D == {p[i].satuan : i \in DOMAIN p}
           A(u) == CHOOSE i \in DOMAIN p : p[i].satuan = u /\ \A j \in 1..(i - 1) : p[j].satuan # u
<1>0. mergeSatuan(q) = [u \in D |-> [faktor |-> p[A(u)].faktor,
                                     bawaan |-> \E i \in DOMAIN p : p[i].satuan = u /\ p[i].bawaan]]
  BY <1>p DEF mergeSatuan, SemuaSatuan
<1>b. Isian(Dasar, 1, FALSE) \in S /\ IsianSatuan \subseteq S
  OBVIOUS
<1>c. \A x \in S : x.satuan \in SatuanAda /\ x.faktor \in Nat \ {0}
  BY AsumsiSatuanProduk DEF Isian, IsianSatuan
<1> HIDE DEF S
<1>1. q \in Seq(S) /\ Len(q) \in 0..2
  BY <1>b
<1>2. /\ Len(p) \in 1..3 /\ DOMAIN p = 1..Len(p) /\ p[1] = Isian(Dasar, 1, FALSE)
      /\ \A i \in DOMAIN p : p[i] \in S
  BY <1>p, <1>1, <1>b, SemuaIsi
<1>a. DOMAIN p \subseteq {1, 2, 3} /\ 1 \in DOMAIN p
  BY <1>2
<1>3. \A i \in DOMAIN p : p[i].satuan \in SatuanAda /\ p[i].faktor \in Nat \ {0}
  BY <1>2, <1>c
<1>4. \A u \in D : A(u) \in DOMAIN p /\ p[A(u)].satuan = u /\ \A j \in 1..(A(u) - 1) : p[j].satuan # u
  <2> SUFFICES ASSUME NEW u \in D
               PROVE  \E i \in DOMAIN p : p[i].satuan = u /\ \A j \in 1..(i - 1) : p[j].satuan # u
    OBVIOUS
  <2> DEFINE N == {i \in DOMAIN p : p[i].satuan = u}
  <2>1. N \in SUBSET Nat /\ N # {}
    BY <1>a
  <2>2. PICK i \in N : \A j \in N : i <= j
    BY <2>1, Terkecil
  <2>3. \A j \in 1..(i - 1) : j \in DOMAIN p /\ j < i
    BY <1>1, <1>2, <2>2
  <2>4. QED BY <2>1, <2>2, <2>3
<1>5. mergeSatuan(q) = [u \in D |-> [faktor |-> p[A(u)].faktor,
                                     bawaan |-> \E i \in DOMAIN p : p[i].satuan = u /\ p[i].bawaan]]
  BY <1>0
<1> HIDE DEF A
<1>6. D \in SUBSET SatuanAda
  BY <1>3
<1>7. \A u \in D : mergeSatuan(q)[u] \in BarisSatuan /\ mergeSatuan(q)[u].faktor = p[A(u)].faktor
  BY <1>3, <1>4, <1>5 DEF BarisSatuan
<1>8. DOMAIN mergeSatuan(q) = D /\ mergeSatuan(q) = [u \in D |-> mergeSatuan(q)[u]]
  BY <1>5
<1>9. mergeSatuan(q) \in Tulisan
  BY <1>6, <1>7, <1>8, TulisanDari
<1>10. IsFiniteSet(D)
  <2>1. D \subseteq (({} \cup {p[1].satuan}) \cup {p[2].satuan}) \cup {p[3].satuan}
    BY <1>a
  <2>2. IsFiniteSet((({} \cup {p[1].satuan}) \cup {p[2].satuan}) \cup {p[3].satuan})
    BY FS_EmptySet, FS_AddElement
  <2>3. QED BY <2>1, <2>2, FS_Subset
<1>11. Dasar \in D /\ p[1].satuan = Dasar /\ p[1].faktor = 1
  BY <1>2, <1>a DEF Isian
<1>12. A(Dasar) = 1
  <2>1. A(Dasar) \in DOMAIN p /\ \A j \in 1..(A(Dasar) - 1) : p[j].satuan # Dasar
    BY <1>4, <1>11
  <2>2. A(Dasar) \in {1, 2, 3}
    BY <1>a, <2>1
  <2>3. QED BY <1>11, <2>1, <2>2
<1>13. QED BY <1>7, <1>8, <1>9, <1>10, <1>11, <1>12

\* Two things are two.
LEMMA DuaBeda == ASSUME NEW u, NEW v, u # v PROVE Cardinality({u, v}) = 2
<1>1. PICK A : A = {u}
  OBVIOUS
<1>2. IsFiniteSet(A) /\ Cardinality(A) = 1 /\ v \notin A
  BY <1>1, FS_Singleton
<1>3. Cardinality(A \cup {v}) = Cardinality(A) + 1
  BY <1>2, FS_AddElement
<1>4. {u, v} = A \cup {v}
  BY <1>1
<1>5. QED BY <1>2, <1>3, <1>4

LEMMA BuatProdukTetap ==
  ASSUME IProduk, CreateProduk
  PROVE  IProduk'
<1>0. /\ \A q \in [1..1 -> IsianSatuan] : q \in Seq(IsianSatuan) /\ Len(q) \in 0..2
      /\ \A q \in [1..2 -> IsianSatuan] : q \in Seq(IsianSatuan) /\ Len(q) \in 0..2
      /\ \A q \in {<<>>} : q \in Seq(IsianSatuan) /\ Len(q) \in 0..2
  <2>1. \A n \in {1, 2} : \A q \in [1..n -> IsianSatuan] : q \in Seq(IsianSatuan) /\ Len(q) = n
    BY BarisJadiSeq
  <2>2. QED BY <2>1
<1>1. \E q : q \in Seq(IsianSatuan) /\ Len(q) \in 0..2 /\ DiterimaMerge(q) /\ konversi' = mergeSatuan(q)
  BY <1>0 DEF CreateProduk
<1>q. PICK q : q \in Seq(IsianSatuan) /\ Len(q) \in 0..2 /\ DiterimaMerge(q) /\ konversi' = mergeSatuan(q)
  BY <1>1
<1>2. /\ konversi' \in Tulisan /\ IsFiniteSet(DOMAIN konversi')
      /\ Dasar \in DOMAIN konversi' /\ konversi'[Dasar].faktor = 1
  BY <1>q, MergeIsi
<1>3. ~produk.ada /\ UNCHANGED olah /\ produk' = [produk EXCEPT !.ada = TRUE]
  BY DEF CreateProduk
<1>4. \A s \in Pengolah : olah[s] = TanpaOlah
  BY <1>3 DEF IProduk
<1>5. SatuBawaan'
  <2>1. Cardinality(Bawaan(konversi')) <= 1
    BY <1>q DEF DiterimaMerge
  <2>2. IsFiniteSet(Bawaan(konversi'))
    BY <1>2, FS_Subset DEF Bawaan
  <2> SUFFICES ASSUME NEW u \in Bawaan(konversi'), NEW v \in Bawaan(konversi'), u # v PROVE FALSE
    BY DEF SatuBawaan
  <2>3. Cardinality({u, v}) = 2
    BY DuaBeda
  <2>4. 2 <= Cardinality(Bawaan(konversi'))
    <3>1. {u, v} \subseteq Bawaan(konversi')
      OBVIOUS
    <3>2. QED BY <2>2, <2>3, <3>1, FS_Subset
  <2>5. Cardinality(Bawaan(konversi')) \in Nat
    BY <2>2, FS_CardinalityType
  <2>6. QED BY <2>1, <2>4, <2>5
<1>6. TipeProduk'
  BY <1>2, <1>3 DEF IProduk, TipeProduk
<1>7. \A s \in Pengolah : BentukOlah(olah'[s]) /\ (olah'[s] # TanpaOlah => produk'.ada)
  BY <1>3, <1>4 DEF IProduk
<1>8. \A s \in Pengolah : ~Menaikkan(s)'
  BY <1>3, <1>4 DEF Menaikkan, TanpaOlah
<1>9. QED BY <1>2, <1>3, <1>5, <1>6, <1>7, <1>8 DEF IProduk

LEMMA UbahProdukTetap ==
  ASSUME IProduk, UpdateProduk \/ UNCHANGED varsProduk
  PROVE  IProduk'
<1>1. UNCHANGED <<konversi, olah>> /\ produk'.ada = produk.ada
  <2>1. CASE UpdateProduk
    BY <2>1 DEF UpdateProduk, IProduk, TipeProduk
  <2>2. QED BY <2>1 DEF varsProduk
<1>2. produk' \in [ada : BOOLEAN, stok_minimum : Nat, aktif : BOOLEAN]
  <2>1. CASE UpdateProduk
    BY <2>1 DEF UpdateProduk, IProduk, TipeProduk
  <2>2. QED BY <2>1 DEF varsProduk, IProduk, TipeProduk
<1>3. QED BY <1>1, <1>2 DEF IProduk, TipeProduk, SatuBawaan, Menaikkan, Bawaan

LEMMA IProdukInduktif == SpecProduk => []IProduk
<1>1. InitProduk => IProduk
  <2> SUFFICES ASSUME InitProduk PROVE IProduk
    OBVIOUS
  <2>1. produk.ada = FALSE /\ konversi = <<>> /\ \A s \in Pengolah : olah[s] = TanpaOlah
    BY DEF InitProduk
  <2>2. TipeProduk
    BY <2>1, TanpaOlahTipe, TulisanKosong DEF InitProduk, TipeProduk
  <2>3. \A s \in Pengolah : ~Menaikkan(s)
    BY <2>1 DEF Menaikkan, TanpaOlah
  <2>4. SatuBawaan
    BY <2>1, TulisanKosong DEF SatuBawaan, Bawaan
  <2>5. QED BY <2>1, <2>2, <2>3, <2>4, TanpaOlahTipe, TulisanKosong DEF IProduk
<1>2. IProduk /\ [NextProduk]_varsProduk => IProduk'
  BY MulaiTetap, BersihTetap, SisipSatuanTetap, CommitSatuanTetap, BuatProdukTetap, UbahProdukTetap
     DEF NextProduk
<1>3. QED BY <1>1, <1>2, PTL DEF SpecProduk

\* Whatever additions of a unit overlap, fail or die: the default flag of a
\* product disappears only when a request stores its own row without it
\* (product_usecase.go, AddSatuan; ClearDefaultSatuan and InsertSatuan).
THEOREM BawaanTidakPernahHilang == SpecProduk => BawaanTidakHilang
<1>1. ASSUME IProduk, [NextProduk]_varsProduk, Bawaan(konversi) # {}, Bawaan(konversi') = {}
      PROVE  \E s \in Pengolah : olah[s].langkah = "commit" /\ olah[s].u \in Bawaan(konversi) /\ ~olah[s].d
  <2>1. PICK u : u \in Bawaan(konversi)
    BY <1>1
  <2>2. konversi' # konversi
    BY <1>1
  <2>3. CASE CreateProduk
    BY <1>1, <2>1, <2>3, TulisanKosong DEF CreateProduk, IProduk, TipeProduk, Bawaan
  <2>4. ASSUME NEW s \in Pengolah, CommitSatuan(s)
        PROVE  olah[s].langkah = "commit" /\ olah[s].u \in Bawaan(konversi) /\ ~olah[s].d
    <3> DEFINE k == olah[s]
    <3>1. k \in Pengolahan /\ BentukOlah(k) /\ k.langkah = "commit"
          /\ konversi' = Timpa(k.tulis, konversi) /\ konversi \in Tulisan /\ k.tulis \in Tulisan
      BY <1>1, <2>4 DEF CommitSatuan, IProduk, TipeProduk, Pengolahan
    <3>2. k.u \in DOMAIN k.tulis /\ k.tulis[k.u].bawaan = k.d /\ (k.d \/ DOMAIN k.tulis = {k.u})
      BY <3>1 DEF BentukOlah
    <3>3. k.u \in DOMAIN konversi' /\ konversi'[k.u] = k.tulis[k.u]
      <4>1. PICK w \in Tulisan : w = k.tulis
        BY <3>1
      <4>2. PICK y : y = Timpa(w, konversi)
        OBVIOUS
      <4>3. DOMAIN y = DOMAIN w \cup DOMAIN konversi /\ \A x \in DOMAIN w : y[x] = w[x]
        BY <3>1, <4>2, TimpaIsi
      <4>4. k.u \in DOMAIN w
        BY <3>2, <4>1
      <4>5. konversi' = y
        BY <3>1, <4>1, <4>2
      <4>6. QED BY <4>1, <4>3, <4>4, <4>5
    <3>4. ~k.d
      BY <1>1, <3>2, <3>3 DEF Bawaan
    <3>5. u \in DOMAIN konversi /\ konversi[u].bawaan
      BY <2>1 DEF Bawaan
    <3>6. u \notin DOMAIN k.tulis => u \in Bawaan(konversi')
      <4> SUFFICES ASSUME u \notin DOMAIN k.tulis PROVE u \in Bawaan(konversi')
        OBVIOUS
      <4>1. u \in DOMAIN Timpa(k.tulis, konversi) /\ Timpa(k.tulis, konversi)[u] = konversi[u]
        BY <3>1, <3>5, TimpaIsi
      <4>2. QED BY <3>1, <3>5, <4>1 DEF Bawaan
    <3>7. QED BY <1>1, <2>1, <3>1, <3>2, <3>4, <3>6
  <2>5. QED BY <1>1, <2>2, <2>3, <2>4 DEF NextProduk, UpdateProduk, AddSatuan, LihatBawaan,
               ClearDefaultSatuan, InsertSatuan, GagalOlah, varsProduk
<1>2. QED BY <1>1, IProdukInduktif, PTL DEF SpecProduk, BawaanTidakHilang

\* A product that exists has its base unit at faktor 1, and two requests that
\* each claim the default never leave it two (mergeSatuan; AddSatuan).
THEOREM SatuanDasarSelaluAda == SpecProduk => []SatuanDasarAda
<1>1. IProduk => SatuanDasarAda
  <2> SUFFICES ASSUME IProduk PROVE Cardinality(Bawaan(konversi)) <= 1
    BY DEF IProduk, SatuanDasarAda
  <2>1. CASE Bawaan(konversi) = {}
    BY <2>1, FS_EmptySet
  <2>2. CASE \E u : u \in Bawaan(konversi)
    <3>1. PICK u : Bawaan(konversi) = {u}
      BY <2>2 DEF IProduk, SatuBawaan
    <3>2. Cardinality({u}) = 1
      BY FS_Singleton
    <3>3. QED BY <3>1, <3>2
  <2>3. QED BY <2>1, <2>2
<1>2. QED BY <1>1, IProdukInduktif, PTL

\* The types; the catalog never holds a unit_kerja that is retired.
LEMMA TipeProdukSelalu == SpecProduk => []TypeOKProduk
<1>1. InitProduk => katalogProduk \subseteq UnitAktif
  BY DEF InitProduk
<1>2. katalogProduk \subseteq UnitAktif /\ [NextProduk]_varsProduk => (katalogProduk \subseteq UnitAktif)'
  <2>1. CreateProduk => katalogProduk' \subseteq UnitAktif
    BY DEF CreateProduk, unitKerjaAwal
  <2>2. UpdateProduk \/ UNCHANGED varsProduk => katalogProduk' = katalogProduk
    BY DEF UpdateProduk, varsProduk
  <2>3. ASSUME NEW s \in Pengolah,
               \/ AddSatuan(s) \/ LihatBawaan(s) \/ ClearDefaultSatuan(s)
               \/ InsertSatuan(s) \/ CommitSatuan(s) \/ GagalOlah(s)
        PROVE  katalogProduk' = katalogProduk
    BY <2>3, Zenon DEF AddSatuan, LihatBawaan, ClearDefaultSatuan, InsertSatuan, CommitSatuan, GagalOlah
  <2>4. QED BY <2>1, <2>2, <2>3 DEF NextProduk
<1>3. IProduk /\ katalogProduk \subseteq UnitAktif => TypeOKProduk
  BY DEF IProduk, TipeProduk, Tulisan, TypeOKProduk
<1>4. QED BY <1>1, <1>2, <1>3, IProdukInduktif, PTL DEF SpecProduk

-----------------------------------------------------------------------------
(***************************************************************************)
(* Master rows and accounts: who has written holds the row and its keys, so *)
(* what it writes is still its patch over the row when it commits.         *)
(***************************************************************************)
KolomBoleh(j) ==
  CASE j = "ekspedisi" -> {"telepon"}
    [] j = "supplier"  -> {"kode", "npwp"}
    [] j = "pelanggan" -> {"kode", "plafon_kredit"}
    [] j \in {"unit_kerja", "ruang"} -> {"kode"}
    [] j = "users" -> {"email"}
    [] OTHER -> {}
KolomWajib(j) == IF j = "users" THEN {"username", "password", "aktif"} ELSE {"nama", "aktif"}

\* A patch names columns of its kind and clears only those that may be.
PatchSah(j, p) ==
  \A k \in DOMAIN p : /\ k \in KolomWajib(j) \cup KolomBoleh(j)
                      /\ p[k] = KolomKosong => k \in KolomBoleh(j)

BentukMinta(m) ==
  /\ m = [langkah |-> m.langkah, j |-> m.j, id |-> m.id, patch |-> m.patch, ganti |-> m.ganti,
          mau |-> m.mau, baris |-> m.baris, hapus |-> m.hapus, sisip |-> m.sisip]
  /\ m.langkah \in {"diam", "tulis", "hapus", "sisip", "commit"} /\ m.j \in Jenis /\ m.id \in Nat

TipeMaster ==
  /\ \E S : induk \in [Jenis -> Seq(S)]
  /\ hak = [k \in DOMAIN hak |-> hak[k]]
  /\ \A k \in DOMAIN hak : k.u \in 1..Len(induk["users"])
  /\ minta = [s \in Peminta |-> minta[s]]
  /\ \A s \in Peminta : BentukMinta(minta[s])

HakAkun(i, H) == {KunciHak(i, h) : h \in H}
HakDiminta(m) == HakAkun(m.id, m.mau)
SudahMenulis(m) == m.langkah \in {"hapus", "sisip", "commit"}

\* What a request has written is its patch over the row as it is committed,
\* and the grants it deletes and inserts are the difference to those there.
Sesuai(m) ==
  /\ m.id # 0 => m.id \in 1..Len(induk[m.j]) /\ PatchSah(m.j, m.patch)
  /\ SudahMenulis(m) /\ m.id # 0 => m.baris = Tertimpa(induk[m.j][m.id], m.patch)
  /\ m.ganti => m.j = "users"
  /\ ~m.ganti => m.langkah \in {"diam", "tulis", "commit"}
  /\ ~m.ganti \/ m.langkah \in {"diam", "tulis", "hapus"} => m.hapus = {} /\ m.sisip = <<>>
  /\ m.ganti /\ m.langkah = "sisip" => m.sisip = <<>>
  /\ m.ganti /\ m.langkah \in {"sisip", "commit"} => m.hapus = HakMilik(m.id) \ HakDiminta(m)
  /\ m.ganti /\ m.langkah = "commit" => DOMAIN m.sisip = HakDiminta(m) \ DOMAIN hak

BedaTersimpan(m) ==
  SudahMenulis(m) => \A k \in KolomUnik(m.j) : \A i \in DOMAIN induk[m.j] :
    i # m.id => ~Sama(induk[m.j][i][k], m.baris[k])

\* Two that have written hold different rows and different keys.
Berbeda(m, n) ==
  SudahMenulis(m) /\ SudahMenulis(n) /\ m.j = n.j =>
    /\ m.id = n.id => m.id = 0
    /\ \A k \in KolomUnik(m.j) : ~Sama(m.baris[k], n.baris[k])

IMaster ==
  /\ TipeMaster /\ KunciUnik /\ PermintaanTerakhir
  /\ \A s \in Peminta : Sesuai(minta[s]) /\ BedaTersimpan(minta[s])
  /\ \A s, t \in Peminta : s # t => Berbeda(minta[s], minta[t])

LEMMA TanpaMintaSah == BentukMinta(TanpaMinta) /\ TanpaMinta.langkah = "diam" /\ Sesuai(TanpaMinta)
<1>1. /\ TanpaMinta.langkah = "diam" /\ TanpaMinta.id = 0 /\ TanpaMinta.ganti = FALSE
      /\ TanpaMinta.hapus = {} /\ TanpaMinta.sisip = <<>>
  BY DEF TanpaMinta
<1>2. BentukMinta(TanpaMinta)
  BY DEF BentukMinta, TanpaMinta, Jenis
<1>3. QED BY <1>1, <1>2 DEF Sesuai, SudahMenulis

\* A step of one request that commits nothing.
LEMMA MintaDiam ==
  ASSUME IMaster, NEW s \in Peminta, NEW m, minta' = [minta EXCEPT ![s] = m],
         UNCHANGED <<induk, hak, diminta>>, BentukMinta(m), Sesuai(m), BedaTersimpan(m),
         \A t \in Peminta \ {s} : Berbeda(m, minta[t]) /\ Berbeda(minta[t], m)
  PROVE  IMaster'
<1>1. \A t \in Peminta : minta'[t] = IF t = s THEN m ELSE minta[t]
  BY DEF IMaster, TipeMaster
<1>2. minta' = [t \in Peminta |-> minta'[t]]
  BY DEF IMaster, TipeMaster
<1>3. \A t \in Peminta : BentukMinta(minta'[t])
  BY <1>1 DEF IMaster, TipeMaster
<1>4. TipeMaster'
  BY <1>2, <1>3 DEF IMaster, TipeMaster
<1>5. \A n : (Sesuai(n)' <=> Sesuai(n)) /\ (BedaTersimpan(n)' <=> BedaTersimpan(n))
  BY DEF Sesuai, BedaTersimpan, HakMilik
<1>6. \A t \in Peminta : Sesuai(minta'[t]) /\ BedaTersimpan(minta'[t])
  BY <1>1 DEF IMaster
<1>7. \A t, u \in Peminta : t # u => Berbeda(minta'[t], minta'[u])
  BY <1>1 DEF IMaster
<1>8. KunciUnik' /\ PermintaanTerakhir'
  BY DEF IMaster, KunciUnik, PermintaanTerakhir
<1>9. QED BY <1>4, <1>5, <1>6, <1>7, <1>8 DEF IMaster, Sesuai, BedaTersimpan, HakMilik

\* Who has written nothing is in nobody's way.
LEMMA BelumMenulis ==
  ASSUME NEW m, ~SudahMenulis(m)
  PROVE  BedaTersimpan(m) /\ \A n : Berbeda(m, n) /\ Berbeda(n, m)
BY DEF BedaTersimpan, Berbeda

LEMMA PatchIsi ==
  ASSUME NEW W, NEW B, NEW p \in Patch(W, B)
  PROVE  \A k \in DOMAIN p : /\ k \in W \cup B \cup {"aktif"}
                             /\ p[k] = KolomKosong => k \in B
<1>1. CASE \E k \in W : p \in [{k} -> Teks]
  BY <1>1, AsumsiMaster
<1>2. CASE \E k \in B : p \in [{k} -> Teks \cup {KolomKosong}]
  BY <1>2
<1>3. CASE p \in [{"aktif"} -> {Ya, Tidak}]
  <2>1. DOMAIN p = {"aktif"} /\ p["aktif"] \in {"aktif", "pensiun"}
    BY <1>3 DEF Ya, Tidak
  <2>2. QED BY <2>1 DEF KolomKosong
<1>4. QED BY <1>1, <1>2, <1>3 DEF Patch

\* The SET clauses store what the patch says, a NULL included.
LEMMA PatchJadi ==
  ASSUME NEW j \in Jenis, NEW r, NEW p, PatchSah(j, p)
  PROVE  BarisPatch(j, r, p) = Tertimpa(r, p)
<1>1. ASSUME NEW W, NEW B, \A k \in DOMAIN p : /\ k \in W \cup B
                                               /\ p[k] = KolomKosong => k \in B
      PROVE  Ganti(Coalesce(r, p, W), p, B) = Tertimpa(r, p)
  BY <1>1 DEF Ganti, Coalesce, Tertimpa
<1>2. ASSUME NEW W, \A k \in DOMAIN p : k \in W /\ p[k] # KolomKosong
      PROVE  Coalesce(r, p, W) = Tertimpa(r, p)
  BY <1>2 DEF Coalesce, Tertimpa
<1>3. CASE j \in {"satuan", "role"}
  <2>1. \A k \in DOMAIN p : k \in {"nama", "aktif"} /\ p[k] # KolomKosong
    BY <1>3 DEF PatchSah, KolomWajib, KolomBoleh
  <2>2. QED BY <1>2, <1>3, <2>1 DEF BarisPatch, SetSatuan, SetRole
<1>4. CASE j = "ekspedisi"
  BY <1>1, <1>4 DEF PatchSah, KolomWajib, KolomBoleh, BarisPatch, SetEkspedisi
<1>5. CASE j = "supplier"
  BY <1>1, <1>5 DEF PatchSah, KolomWajib, KolomBoleh, BarisPatch, SetSupplier
<1>6. CASE j = "pelanggan"
  BY <1>1, <1>6 DEF PatchSah, KolomWajib, KolomBoleh, BarisPatch, SetPelanggan
<1>7. CASE j = "unit_kerja"
  BY <1>1, <1>7 DEF PatchSah, KolomWajib, KolomBoleh, BarisPatch, SetUnitKerja
<1>8. CASE j = "ruang"
  BY <1>1, <1>8 DEF PatchSah, KolomWajib, KolomBoleh, BarisPatch, SetRuang
<1>9. CASE j = "users"
  BY <1>1, <1>9 DEF PatchSah, KolomWajib, KolomBoleh, BarisPatch, SetUser
<1>10. QED BY <1>3, <1>4, <1>5, <1>6, <1>7, <1>8, <1>9 DEF Jenis

\* A request of which only its checks are done.
PermintaanMula(m, j, i, p) ==
  /\ m = [langkah |-> m.langkah, j |-> m.j, id |-> m.id, patch |-> m.patch, ganti |-> m.ganti,
          mau |-> m.mau, baris |-> m.baris, hapus |-> m.hapus, sisip |-> m.sisip]
  /\ m.langkah = "tulis" /\ m.j = j /\ m.id = i /\ m.patch = p /\ m.hapus = {} /\ m.sisip = <<>>

LEMMA MulaiSah ==
  ASSUME IMaster, NEW s \in Peminta, NEW j \in Jenis, NEW i \in Nat, NEW p, NEW m,
         UNCHANGED <<induk, hak, diminta>>, PermintaanMula(m, j, i, p), m.ganti => j = "users",
         i # 0 => i \in DOMAIN induk[j] /\ PatchSah(j, p),
         minta' = [minta EXCEPT ![s] = m]
  PROVE  IMaster'
<1>4. BentukMinta(m)
  BY DEF BentukMinta, PermintaanMula
<1>5. i # 0 => i \in 1..Len(induk[j])
  BY DEF IMaster, TipeMaster
<1>6. Sesuai(m) /\ ~SudahMenulis(m)
  BY <1>5 DEF Sesuai, SudahMenulis, PermintaanMula
<1>7. QED BY <1>4, <1>6, MintaDiam, BelumMenulis

LEMMA MulaiMintaSah ==
  ASSUME IMaster, NEW s \in Peminta, NEW j \in Jenis, NEW i \in Nat, NEW p,
         i # 0 => i \in DOMAIN induk[j] /\ PatchSah(j, p), MulaiMinta(s, j, i, p)
  PROVE  IMaster'
<1>1. PICK m : m = [TanpaMinta EXCEPT !.langkah = "tulis", !.j = j, !.id = i, !.patch = p]
  OBVIOUS
<1>2. PermintaanMula(m, j, i, p)
  BY <1>1 DEF TanpaMinta, PermintaanMula
<1>3. m.ganti = FALSE
  BY <1>1 DEF TanpaMinta
<1>4. minta' = [minta EXCEPT ![s] = m]
  BY <1>1 DEF MulaiMinta
<1>5. UNCHANGED <<induk, hak, diminta>>
  BY DEF MulaiMinta
<1>6. QED BY <1>2, <1>3, <1>4, <1>5, MulaiSah

\* The checks of an insert and of an update, for every kind.
LEMMA MulaiUbah ==
  ASSUME IMaster, NEW s \in Peminta, NEW j \in Jenis, NEW i \in DOMAIN induk[j], NEW W, NEW B,
         W \cup {"aktif"} = KolomWajib(j), B = KolomBoleh(j), NEW p \in Patch(W, B),
         MulaiMinta(s, j, i, p)
  PROVE  IMaster'
<1>1. PatchSah(j, p)
  BY PatchIsi DEF PatchSah
<1>2. i \in Nat
  BY DEF IMaster, TipeMaster
<1>4. QED BY <1>1, <1>2, MulaiMintaSah

LEMMA MulaiBuat ==
  ASSUME IMaster, NEW s \in Peminta, NEW j \in Jenis, NEW p, MulaiMinta(s, j, 0, p)
  PROVE  IMaster'
BY MulaiMintaSah

LEMMA SemuaBuat ==
  ASSUME IMaster, NEW s \in Peminta,
         \/ BuatSatuan(s) \/ BuatEkspedisi(s) \/ BuatRole(s) \/ BuatSupplier(s)
         \/ BuatPelanggan(s) \/ BuatUnitKerja(s) \/ BuatRuang(s)
  PROVE  IMaster'
<1>1. \E j \in Jenis : \E p : MulaiMinta(s, j, 0, p)
  BY DEF BuatSatuan, BuatEkspedisi, BuatRole, BuatSupplier, BuatPelanggan, BuatUnitKerja,
         BuatRuang, Jenis
<1>2. QED BY <1>1, MulaiBuat

LEMMA SemuaUbah ==
  ASSUME IMaster, NEW s \in Peminta,
         \/ \E i \in DOMAIN induk["satuan"] : UbahSatuan(s, i)
         \/ \E i \in DOMAIN induk["ekspedisi"] : UbahEkspedisi(s, i)
         \/ \E i \in DOMAIN induk["role"] : UbahRole(s, i)
         \/ \E i \in DOMAIN induk["supplier"] : UbahSupplier(s, i)
         \/ \E i \in DOMAIN induk["pelanggan"] : UbahPelanggan(s, i)
         \/ \E i \in DOMAIN induk["unit_kerja"] : UbahUnitKerja(s, i)
         \/ \E i \in DOMAIN induk["ruang"] : UbahRuang(s, i)
  PROVE  IMaster'
<1>1. \E j \in Jenis : \E i \in DOMAIN induk[j] : \E p \in Patch({"nama"}, KolomBoleh(j)) :
        j # "users" /\ MulaiMinta(s, j, i, p)
  BY DEF UbahSatuan, UbahEkspedisi, UbahRole, UbahSupplier, UbahPelanggan, UbahUnitKerja,
         UbahRuang, Jenis, KolomBoleh
<1>2. PICK j \in Jenis : \E i \in DOMAIN induk[j] : \E p \in Patch({"nama"}, KolomBoleh(j)) :
        j # "users" /\ MulaiMinta(s, j, i, p)
  BY <1>1
<1> PICK i \in DOMAIN induk[j] : \E p \in Patch({"nama"}, KolomBoleh(j)) :
        j # "users" /\ MulaiMinta(s, j, i, p)
  BY <1>2
<1> PICK p \in Patch({"nama"}, KolomBoleh(j)) : j # "users" /\ MulaiMinta(s, j, i, p)
  OBVIOUS
<1>3. {"nama"} \cup {"aktif"} = KolomWajib(j)
  BY DEF KolomWajib
<1>4. QED BY <1>3, MulaiUbah

\* The first step of a request about an account.
LEMMA MulaiAkunSah ==
  ASSUME IMaster, NEW s \in Peminta, NEW i \in Nat, NEW p, NEW g \in BOOLEAN, NEW H,
         i # 0 => i \in DOMAIN induk["users"] /\ PatchSah("users", p), MulaiAkun(s, i, p, g, H)
  PROVE  IMaster'
<1>1. PICK m : m = [TanpaMinta EXCEPT !.langkah = "tulis", !.j = "users", !.id = i, !.patch = p,
                                      !.ganti = g, !.mau = H]
  OBVIOUS
<1>2. PermintaanMula(m, "users", i, p)
  BY <1>1 DEF TanpaMinta, PermintaanMula
<1>3. minta' = [minta EXCEPT ![s] = m] /\ UNCHANGED <<induk, hak, diminta>>
  BY <1>1 DEF MulaiAkun
<1>4. "users" \in Jenis
  BY DEF Jenis
<1>5. QED BY <1>2, <1>3, <1>4, MulaiSah DEF MulaiAkun

LEMMA AkunBuat ==
  ASSUME IMaster, NEW s \in Peminta, BuatUser(s)
  PROVE  IMaster'
<1>1. PICK p, H : MulaiAkun(s, 0, p, TRUE, H)
  BY DEF BuatUser
<1>2. QED BY <1>1, MulaiAkunSah

LEMMA AkunUbah ==
  ASSUME IMaster, NEW s \in Peminta, NEW i \in DOMAIN induk["users"], UbahUser(s, i)
  PROVE  IMaster'
<1>1. i \in Nat
  BY DEF Jenis, IMaster, TipeMaster
<1>2. CASE \E p \in Patch({"username", "password"}, {"email"}) : MulaiAkun(s, i, p, FALSE, {})
  <2>1. PICK p \in Patch({"username", "password"}, {"email"}) : MulaiAkun(s, i, p, FALSE, {})
    BY <1>2
  <2>2. PatchSah("users", p)
    BY PatchIsi DEF PatchSah, KolomWajib, KolomBoleh
  <2>3. QED BY <1>1, <2>1, <2>2, MulaiAkunSah
<1>3. CASE \E p \in {<<>>, [aktif |-> Ya]}, H \in PilihanHak : MulaiAkun(s, i, p, TRUE, H)
  <2>1. PICK p \in {<<>>, [aktif |-> Ya]}, H \in PilihanHak : MulaiAkun(s, i, p, TRUE, H)
    BY <1>3
  <2>2. CASE p = <<>>
    <3>1. PatchSah("users", p)
      BY <2>2 DEF PatchSah
    <3>2. QED BY <1>1, <2>1, <3>1, MulaiAkunSah
  <2>3. CASE p = [aktif |-> Ya]
    <3>1. DOMAIN p = {"aktif"} /\ p["aktif"] = "aktif"
      BY <2>3 DEF Ya
    <3>2. PatchSah("users", p)
      BY <3>1 DEF PatchSah, KolomWajib, KolomBoleh, KolomKosong
    <3>3. QED BY <1>1, <2>1, <3>2, MulaiAkunSah
  <2>4. QED BY <2>2, <2>3
<1>4. QED BY <1>2, <1>3 DEF UbahUser

LEMMA SamaSimetris == ASSUME NEW a, NEW b PROVE Sama(a, b) <=> Sama(b, a)
BY DEF Sama

\* The write takes the row and its keys.
LEMMA TulisSah ==
  ASSUME IMaster, NEW s \in Peminta, Tulis(s)
  PROVE  IMaster'
<1>1. PICK m : m = minta[s]
  OBVIOUS
<1>2. PICK r : r = IF m.id = 0 THEN BarisMaster(m.j, m.patch) ELSE BarisPatch(m.j, induk[m.j][m.id], m.patch)
  OBVIOUS
<1>3. PICK n : n = [m EXCEPT !.baris = r, !.langkah = IF m.ganti THEN "hapus" ELSE "commit"]
  OBVIOUS
<1>4. /\ m.langkah = "tulis" /\ Pemegang(s) = {}
      /\ \A t \in Peminta \ {s}, k \in KolomUnik(m.j) :
           Menulis(t) /\ minta[t].j = m.j /\ (m.id = 0 \/ minta[t].id # m.id) =>
             ~Sama(minta[t].baris[k], r[k])
      /\ UNCHANGED <<induk, hak, diminta>>
  BY <1>1, <1>2 DEF Tulis
<1>5. \/ minta' = [minta EXCEPT ![s] = TanpaMinta]
      \/ /\ minta' = [minta EXCEPT ![s] = n]
         /\ \A k \in KolomUnik(m.j), i \in DOMAIN induk[m.j] : i # m.id => ~Sama(induk[m.j][i][k], r[k])
  <2>1. PICK b : b = (\E k \in KolomUnik(m.j), i \in DOMAIN induk[m.j] :
                        i # m.id /\ Sama(induk[m.j][i][k], r[k]))
    OBVIOUS
  <2>2. minta' = [minta EXCEPT ![s] = IF b THEN TanpaMinta ELSE n]
    BY <1>1, <1>2, <1>3, <2>1 DEF Tulis
  <2>3. QED BY <2>1, <2>2
<1>6. CASE minta' = [minta EXCEPT ![s] = TanpaMinta]
  BY <1>4, <1>6, MintaDiam, BelumMenulis, TanpaMintaSah DEF SudahMenulis
<1>7. ASSUME minta' = [minta EXCEPT ![s] = n],
             \A k \in KolomUnik(m.j), i \in DOMAIN induk[m.j] : i # m.id => ~Sama(induk[m.j][i][k], r[k])
      PROVE  IMaster'
  <2>1. BentukMinta(m) /\ Sesuai(m)
    BY <1>1 DEF IMaster, TipeMaster
  <2>2. /\ n.langkah = IF m.ganti THEN "hapus" ELSE "commit"
        /\ n.baris = r /\ n.j = m.j /\ n.id = m.id /\ n.patch = m.patch /\ n.ganti = m.ganti
        /\ n.mau = m.mau /\ n.hapus = m.hapus /\ n.sisip = m.sisip
        /\ n = [langkah |-> n.langkah, j |-> n.j, id |-> n.id, patch |-> n.patch, ganti |-> n.ganti,
                mau |-> n.mau, baris |-> n.baris, hapus |-> n.hapus, sisip |-> n.sisip]
    BY <1>3, <2>1 DEF BentukMinta
  <2>3. BentukMinta(n)
    BY <2>1, <2>2 DEF BentukMinta
  <2>4. m.id # 0 => r = Tertimpa(induk[m.j][m.id], m.patch)
    BY <1>2, <2>1, PatchJadi DEF BentukMinta, Sesuai
  <2>5. m.hapus = {} /\ m.sisip = <<>>
    BY <1>4, <2>1 DEF Sesuai
  <2>6. Sesuai(n)
    BY <2>1, <2>2, <2>4, <2>5 DEF Sesuai, SudahMenulis
  <2>7. BedaTersimpan(n)
    BY <1>7, <2>2 DEF BedaTersimpan
  <2>8. \A t \in Peminta \ {s} : Berbeda(n, minta[t]) /\ Berbeda(minta[t], n)
    <3>1. SUFFICES ASSUME NEW t \in Peminta \ {s}, SudahMenulis(minta[t]), minta[t].j = m.j
                   PROVE  /\ m.id = minta[t].id => m.id = 0
                          /\ \A k \in KolomUnik(m.j) : ~Sama(r[k], minta[t].baris[k])
                                                     /\ ~Sama(minta[t].baris[k], r[k])
      BY <2>2 DEF Berbeda
    <3>2. Menulis(t)
      BY <3>1 DEF Menulis, SudahMenulis
    <3>3. m.id = minta[t].id => m.id = 0
      BY <1>1, <1>4, <3>1, <3>2 DEF Pemegang
    <3>4. \A k \in KolomUnik(m.j) : ~Sama(minta[t].baris[k], r[k])
      BY <1>4, <3>1, <3>2, <3>3
    <3>5. QED BY <3>3, <3>4, SamaSimetris
  <2>9. QED BY <1>4, <1>7, <2>3, <2>6, <2>7, <2>8, MintaDiam
<1>8. QED BY <1>5, <1>6, <1>7

\* A step that changes only the grants a request deletes or inserts.
LEMMA HakSah ==
  ASSUME IMaster, NEW s \in Peminta, NEW n, minta' = [minta EXCEPT ![s] = n],
         UNCHANGED <<induk, hak, diminta>>, BentukMinta(n), Sesuai(n), SudahMenulis(minta[s]),
         n.j = minta[s].j, n.id = minta[s].id, n.baris = minta[s].baris
  PROVE  IMaster'
<1>1. BedaTersimpan(n)
  BY DEF IMaster, BedaTersimpan
<1>2. \A t \in Peminta \ {s} : Berbeda(n, minta[t]) /\ Berbeda(minta[t], n)
  BY DEF IMaster, Berbeda
<1>3. QED BY <1>1, <1>2, MintaDiam

LEMMA HapusHakSah ==
  ASSUME IMaster, NEW s \in Peminta, HapusHak(s)
  PROVE  IMaster'
<1>1. PICK m : m = minta[s]
  OBVIOUS
<1>2. PICK K : K = HakMilik(m.id) \ HakDiminta(m)
  OBVIOUS
<1>3. PICK n : n = [m EXCEPT !.hapus = K, !.langkah = "sisip"]
  OBVIOUS
<1>4. m.langkah = "hapus" /\ minta' = [minta EXCEPT ![s].hapus = K, ![s].langkah = "sisip"]
      /\ UNCHANGED <<induk, hak, diminta>>
  BY <1>1, <1>2 DEF HapusHak, HakDiminta, HakAkun
<1>5. BentukMinta(m) /\ Sesuai(m) /\ SudahMenulis(m)
  BY <1>1, <1>4 DEF IMaster, TipeMaster, SudahMenulis
<1>6. /\ n.langkah = "sisip" /\ n.hapus = K
      /\ n.baris = m.baris /\ n.j = m.j /\ n.id = m.id /\ n.patch = m.patch /\ n.ganti = m.ganti
      /\ n.mau = m.mau /\ n.sisip = m.sisip
      /\ n = [langkah |-> n.langkah, j |-> n.j, id |-> n.id, patch |-> n.patch, ganti |-> n.ganti,
              mau |-> n.mau, baris |-> n.baris, hapus |-> n.hapus, sisip |-> n.sisip]
  BY <1>3, <1>5 DEF BentukMinta
<1>7. minta' = [minta EXCEPT ![s] = n]
  BY <1>1, <1>3, <1>4 DEF IMaster, TipeMaster
<1>8. BentukMinta(n)
  BY <1>5, <1>6 DEF BentukMinta
<1>9. m.ganti /\ m.sisip = <<>>
  BY <1>4, <1>5 DEF Sesuai
<1>10. HakDiminta(n) = HakDiminta(m)
  BY <1>6 DEF HakDiminta
<1>11. Sesuai(n)
  BY <1>2, <1>5, <1>6, <1>9, <1>10 DEF Sesuai, SudahMenulis
<1>12. QED BY <1>1, <1>4, <1>5, <1>6, <1>7, <1>8, <1>11, HakSah

LEMMA SisipHakSah ==
  ASSUME IMaster, NEW s \in Peminta, SisipHak(s)
  PROVE  IMaster'
<1>1. PICK m : m = minta[s]
  OBVIOUS
<1>2. PICK K : K = HakDiminta(m) \ DOMAIN hak
  OBVIOUS
<1>3. PICK f \in [K -> (nomorHak + 1)..(nomorHak + Cardinality(K))] :
        minta' = [minta EXCEPT ![s].sisip = f, ![s].langkah = "commit"]
  <2>1. K = {KunciHak(minta[s].id, h) : h \in minta[s].mau} \ DOMAIN hak
    BY <1>1, <1>2 DEF HakDiminta, HakAkun
  <2>2. \E f \in [K -> (nomorHak + 1)..(nomorHak + Cardinality(K))] :
          minta' = [minta EXCEPT ![s].sisip = f, ![s].langkah = "commit"]
    BY <2>1, Zenon DEF SisipHak
  <2>3. QED BY <2>2
<1>4. m.langkah = "sisip" /\ UNCHANGED <<induk, hak, diminta>> /\ DOMAIN f = K
  BY <1>1 DEF SisipHak
<1>5. PICK n : n = [m EXCEPT !.sisip = f, !.langkah = "commit"]
  OBVIOUS
<1>6. BentukMinta(m) /\ Sesuai(m) /\ SudahMenulis(m)
  BY <1>1, <1>4 DEF IMaster, TipeMaster, SudahMenulis
<1>7. /\ n.langkah = "commit" /\ n.sisip = f
      /\ n.baris = m.baris /\ n.j = m.j /\ n.id = m.id /\ n.patch = m.patch /\ n.ganti = m.ganti
      /\ n.mau = m.mau /\ n.hapus = m.hapus
      /\ n = [langkah |-> n.langkah, j |-> n.j, id |-> n.id, patch |-> n.patch, ganti |-> n.ganti,
              mau |-> n.mau, baris |-> n.baris, hapus |-> n.hapus, sisip |-> n.sisip]
  BY <1>5, <1>6 DEF BentukMinta
<1>8. minta' = [minta EXCEPT ![s] = n]
  BY <1>1, <1>3, <1>5 DEF IMaster, TipeMaster
<1>9. BentukMinta(n)
  BY <1>6, <1>7 DEF BentukMinta
<1>10. m.ganti
  BY <1>4, <1>6 DEF Sesuai
<1>11. HakDiminta(n) = HakDiminta(m)
  BY <1>7 DEF HakDiminta
<1>12. Sesuai(n)
  BY <1>2, <1>4, <1>6, <1>7, <1>10, <1>11 DEF Sesuai, SudahMenulis
<1>13. QED BY <1>1, <1>4, <1>6, <1>7, <1>8, <1>9, <1>12, HakSah

LEMMA GagalSah ==
  ASSUME IMaster, NEW s \in Peminta, GagalMinta(s)
  PROVE  IMaster'
<1>1. minta' = [minta EXCEPT ![s] = TanpaMinta] /\ UNCHANGED <<induk, hak, diminta>>
  BY DEF GagalMinta
<1>2. QED BY <1>1, MintaDiam, BelumMenulis, TanpaMintaSah DEF SudahMenulis

LEMMA KunciGanti == ASSUME NEW a, NEW b, NEW h PROVE [KunciHak(a, h) EXCEPT !.u = b] = KunciHak(b, h)
BY DEF KunciHak

LEMMA KunciU == ASSUME NEW a, NEW h PROVE KunciHak(a, h).u = a
BY DEF KunciHak

\* The id the row of a request has or gets.
IdTulis(m) == IF m.id = 0 THEN Len(induk[m.j]) + 1 ELSE m.id

SisaHak(i, M) == {k \in DOMAIN hak : k.u # i \/ k \in M}

\* The grants a committed request writes are those asked for and not there.
LEMMA HakCommit ==
  ASSUME IMaster, NEW s \in Peminta, minta[s].langkah = "commit"
  PROVE  LET i == IdTulis(minta[s])
             F == DOMAIN Milik(minta[s].sisip, i)
             M == HakAkun(i, minta[s].mau) IN
         /\ ~minta[s].ganti => F = {} /\ minta[s].hapus = {}
         /\ minta[s].ganti => F = M \ DOMAIN hak /\ \A k \in F : k.u = i
         /\ minta[s].ganti => DOMAIN hak \ minta[s].hapus = SisaHak(i, M)
<1>m. PICK m : m = minta[s]
  OBVIOUS
<1>i. PICK i : i = IdTulis(m)
  OBVIOUS
<1>f. PICK f : f = Milik(m.sisip, i)
  OBVIOUS
<1>w. PICK mau : mau = HakAkun(i, m.mau)
  OBVIOUS
<1> SUFFICES /\ ~m.ganti => DOMAIN f = {} /\ m.hapus = {}
             /\ m.ganti => DOMAIN f = mau \ DOMAIN hak /\ \A k \in DOMAIN f : k.u = i
             /\ m.ganti => DOMAIN hak \ m.hapus = SisaHak(i, mau)
  BY <1>m, <1>i, <1>f, <1>w
<1>1. Sesuai(m) /\ BentukMinta(m) /\ m.langkah = "commit"
  BY <1>m DEF IMaster, TipeMaster
<1>2. DOMAIN f = {[x EXCEPT !.u = i] : x \in DOMAIN m.sisip}
  BY <1>f DEF Milik
<1>3. ~m.ganti => DOMAIN f = {} /\ m.hapus = {}
  <2>1. ~m.ganti => m.sisip = <<>> /\ m.hapus = {}
    BY <1>1 DEF Sesuai
  <2>2. ~m.ganti => DOMAIN m.sisip = {}
    BY <2>1
  <2>3. QED BY <1>2, <2>1, <2>2
<1>4. ASSUME m.ganti
      PROVE  DOMAIN f = mau \ DOMAIN hak /\ DOMAIN hak \ m.hapus = SisaHak(i, mau)
  <2>1. /\ m.j = "users" /\ m.hapus = HakMilik(m.id) \ HakDiminta(m)
        /\ DOMAIN m.sisip = HakDiminta(m) \ DOMAIN hak
    BY <1>1, <1>4 DEF Sesuai
  <2>2. \A k \in DOMAIN hak : k.u \in 1..Len(induk["users"])
    BY DEF IMaster, TipeMaster
  <2>3. CASE m.id = 0
    <3>0. Len(induk["users"]) \in Nat
      BY DEF IMaster, TipeMaster, Jenis
    <3>1. i = Len(induk["users"]) + 1
      BY <1>i, <2>1, <2>3 DEF IdTulis
    <3>2. \A k \in DOMAIN hak : k.u # 0 /\ k.u # i
      BY <2>2, <3>0, <3>1
    <3>3. HakDiminta(m) \cap DOMAIN hak = {} /\ mau \cap DOMAIN hak = {} /\ HakMilik(m.id) = {}
      BY <1>w, <2>3, <3>2, KunciU DEF HakDiminta, HakAkun, HakMilik
    <3>4. DOMAIN f = mau
      <4>1. DOMAIN m.sisip = HakDiminta(m)
        BY <2>1, <3>3
      <4>2. \A x \in DOMAIN m.sisip : \E h \in m.mau : [x EXCEPT !.u = i] = KunciHak(i, h)
        BY <4>1, KunciGanti DEF HakDiminta, HakAkun
      <4>3. \A h \in m.mau : \E x \in DOMAIN m.sisip : [x EXCEPT !.u = i] = KunciHak(i, h)
        <5>1. TAKE h \in m.mau
        <5>2. KunciHak(m.id, h) \in DOMAIN m.sisip
          BY <4>1 DEF HakDiminta, HakAkun
        <5>3. [KunciHak(m.id, h) EXCEPT !.u = i] = KunciHak(i, h)
          BY KunciGanti
        <5>4. WITNESS KunciHak(m.id, h) \in DOMAIN m.sisip
        <5>5. QED BY <5>3
      <4>4. \A y : y \in DOMAIN f <=> \E x \in DOMAIN m.sisip : y = [x EXCEPT !.u = i]
        BY <1>2, Zenon
      <4>5. \A y \in DOMAIN f : y \in mau
        BY <1>w, <4>2, <4>4 DEF HakAkun
      <4>6. \A y \in mau : y \in DOMAIN f
        <5>1. TAKE y \in mau
        <5>2. PICK h \in m.mau : y = KunciHak(i, h)
          BY <1>w DEF HakAkun
        <5>3. PICK x \in DOMAIN m.sisip : [x EXCEPT !.u = i] = KunciHak(i, h)
          BY <4>3
        <5>4. QED BY <4>4, <5>2, <5>3
      <4>7. QED BY <4>5, <4>6
    <3>5. DOMAIN hak \ m.hapus = SisaHak(i, mau)
      BY <2>1, <3>2, <3>3 DEF SisaHak
    <3>6. QED BY <3>3, <3>4, <3>5
  <2>4. CASE m.id # 0
    <3>1. i = m.id /\ mau = HakDiminta(m)
      BY <1>i, <1>w, <2>4 DEF HakDiminta, IdTulis
    <3>2. \A x \in DOMAIN m.sisip : [x EXCEPT !.u = i] = x
      BY <2>1, <3>1, KunciGanti DEF HakDiminta, HakAkun
    <3>3. DOMAIN f = DOMAIN m.sisip
      <4>1. ASSUME NEW D, \A x \in D : [x EXCEPT !.u = i] = x
            PROVE  {[x EXCEPT !.u = i] : x \in D} = D
        <5>1. \A y \in {[x EXCEPT !.u = i] : x \in D} : y \in D
          BY <4>1
        <5>2. \A y \in D : y \in {[x EXCEPT !.u = i] : x \in D}
          BY <4>1, Zenon
        <5>3. QED BY <5>1, <5>2
      <4>2. QED BY <1>2, <3>2, <4>1
    <3>4. DOMAIN hak \ m.hapus = SisaHak(i, mau)
      BY <2>1, <3>1 DEF HakMilik, SisaHak
    <3>5. QED BY <2>1, <3>1, <3>3, <3>4
  <2>5. QED BY <2>3, <2>4
<1>5. m.ganti => \A k \in DOMAIN f : k.u = i
  BY <1>w, <1>4, KunciU DEF HakAkun
<1>6. QED BY <1>3, <1>4, <1>5

\* What a commit makes of the rows.
LEMMA BarisCommit ==
  ASSUME IMaster, NEW s \in Peminta, Commit(s)
  PROVE  LET m == minta[s]
             i == IdTulis(minta[s]) IN
         /\ \E S : induk' \in [Jenis -> Seq(S)]
         /\ \A j \in Jenis : j # m.j => induk'[j] = induk[j]
         /\ m.j \in Jenis /\ i \in Nat \ {0}
         /\ m.id # 0 => i \in 1..Len(induk[m.j])
         /\ \A j \in Jenis : Len(induk[j]) \in Nat /\ Len(induk'[j]) \in Nat /\ Len(induk'[j]) >= Len(induk[j])
         /\ i \in 1..Len(induk'[m.j]) /\ induk'[m.j][i] = m.baris
         /\ \A x \in 1..Len(induk'[m.j]) : x # i => x \in 1..Len(induk[m.j]) /\ induk'[m.j][x] = induk[m.j][x]
<1>m. PICK m : m = minta[s]
  OBVIOUS
<1>i. PICK i : i = IF m.id = 0 THEN Len(induk[m.j]) + 1 ELSE m.id
  OBVIOUS
<1>k. i = IdTulis(minta[s])
  BY <1>m, <1>i DEF IdTulis
<1> SUFFICES /\ \E S : induk' \in [Jenis -> Seq(S)]
             /\ \A j \in Jenis : j # m.j => induk'[j] = induk[j]
             /\ m.j \in Jenis /\ i \in Nat \ {0}
             /\ m.id # 0 => i \in 1..Len(induk[m.j])
             /\ \A j \in Jenis : Len(induk[j]) \in Nat /\ Len(induk'[j]) \in Nat /\ Len(induk'[j]) >= Len(induk[j])
             /\ i \in 1..Len(induk'[m.j]) /\ induk'[m.j][i] = m.baris
             /\ \A x \in 1..Len(induk'[m.j]) : x # i => x \in 1..Len(induk[m.j]) /\ induk'[m.j][x] = induk[m.j][x]
  BY <1>m, <1>k
<1>1. PICK S : induk \in [Jenis -> Seq(S)]
  BY DEF IMaster, TipeMaster
<1>2. m.j \in Jenis /\ m.id \in Nat /\ (m.id # 0 => m.id \in 1..Len(induk[m.j]))
  BY <1>m DEF IMaster, TipeMaster, BentukMinta, Sesuai
<1>3. PICK q : q = induk[m.j]
  OBVIOUS
<1>4. PICK r : r = IF m.id = 0 THEN Append(q, m.baris) ELSE [q EXCEPT ![i] = m.baris]
  OBVIOUS
<1>5. induk' = [induk EXCEPT ![m.j] = r]
  BY <1>m, <1>i, <1>3, <1>4 DEF Commit
<1>6. PICK T : T = S \cup {m.baris}
  OBVIOUS
<1>7. q \in Seq(S) /\ q \in Seq(T) /\ m.baris \in T
  BY <1>1, <1>2, <1>3, <1>6
<1>8. /\ r \in Seq(T) /\ Len(q) \in Nat /\ Len(r) \in Nat /\ Len(r) >= Len(q)
      /\ i \in 1..Len(r) /\ r[i] = m.baris /\ i \in Nat \ {0}
      /\ \A x \in 1..Len(r) : x # i => x \in 1..Len(q) /\ r[x] = q[x]
  <2>1. CASE m.id = 0
    <3>1. r = Append(q, m.baris) /\ i = Len(q) + 1
      BY <1>i, <1>3, <1>4, <2>1
    <3>2. QED BY ONLY <1>7, <3>1
  <2>2. CASE m.id # 0
    <3>1. r = [q EXCEPT ![i] = m.baris] /\ i \in 1..Len(q)
      BY <1>i, <1>2, <1>3, <1>4, <2>2
    <3>2. QED BY ONLY <1>7, <3>1
  <2>3. QED BY <2>1, <2>2
<1>9. induk'[m.j] = r /\ \A j \in Jenis : j # m.j => induk'[j] = induk[j]
  BY <1>1, <1>2, <1>5
<1>10. \A j \in Jenis : induk[j] \in Seq(S)
  BY <1>1
<1>11. S \subseteq T
  BY <1>6
<1>12. \A j \in Jenis : induk'[j] \in Seq(T) /\ Len(induk[j]) \in Nat /\ Len(induk'[j]) \in Nat
                                        /\ Len(induk'[j]) >= Len(induk[j])
  BY <1>3, <1>8, <1>9, <1>10, <1>11
<1>13. induk' = [j \in Jenis |-> induk'[j]]
  BY <1>1, <1>5
<1>14. induk' \in [Jenis -> Seq(T)]
  BY <1>12, <1>13
<1>15. QED BY <1>i, <1>2, <1>3, <1>8, <1>9, <1>12, <1>14

\* What was asked is what is stored.
LEMMA DimintaCommit ==
  ASSUME IMaster, NEW s \in Peminta, Commit(s)
  PROVE  PermintaanTerakhir'
<1>1. PICK m : m = minta[s]
  OBVIOUS
<1>2. PICK i : i = IF m.id = 0 THEN Len(induk[m.j]) + 1 ELSE m.id
  OBVIOUS
<1>i. i = IdTulis(minta[s])
  BY <1>1, <1>2 DEF IdTulis
<1>3. PICK f : f = Milik(m.sisip, i)
  OBVIOUS
<1>4. PICK mau : mau = HakAkun(i, m.mau)
  OBVIOUS
<1>5. PICK tetap : tetap = {k \in DOMAIN diminta.hak : k.u # i \/ k \in mau}
  OBVIOUS
<1>6. induk = diminta.induk /\ hak = diminta.hak /\ m.langkah = "commit"
  BY <1>1 DEF IMaster, PermintaanTerakhir, Commit
<1>7. hak' = [k \in DOMAIN f \cup (DOMAIN hak \ m.hapus) |-> IF k \in DOMAIN f THEN f[k] ELSE hak[k]]
  BY <1>1, <1>2, <1>3 DEF Commit
<1>20. PICK A, B :
       /\ A = [diminta.induk EXCEPT ![m.j] =
                IF m.id = 0 THEN Append(@, IF m.id = 0 THEN m.baris ELSE Tertimpa(@[i], m.patch))
                ELSE [@ EXCEPT ![i] = IF m.id = 0 THEN m.baris ELSE Tertimpa(diminta.induk[m.j][i], m.patch)]]
       /\ B = IF m.ganti
                THEN [k \in mau \cup tetap |-> IF k \in tetap THEN diminta.hak[k]
                                            ELSE IF k \in DOMAIN f THEN f[k] ELSE 0]
                ELSE diminta.hak
  OBVIOUS
<1>21. diminta' = [induk |-> A, hak |-> B]
  <2>1. diminta'
          = [induk |-> [diminta.induk EXCEPT ![m.j] =
                IF m.id = 0 THEN Append(@, IF m.id = 0 THEN m.baris ELSE Tertimpa(@[i], m.patch))
                ELSE [@ EXCEPT ![i] = IF m.id = 0 THEN m.baris ELSE Tertimpa(diminta.induk[m.j][i], m.patch)]],
             hak |-> IF m.ganti
                THEN [k \in HakAkun(i, m.mau) \cup {k \in DOMAIN diminta.hak : k.u # i \/ k \in HakAkun(i, m.mau)}
                       |-> IF k \in {l \in DOMAIN diminta.hak : l.u # i \/ l \in HakAkun(i, m.mau)} THEN diminta.hak[k]
                           ELSE IF k \in DOMAIN Milik(m.sisip, i) THEN Milik(m.sisip, i)[k] ELSE 0]
                ELSE diminta.hak]
    BY <1>1, <1>2 DEF Commit, HakAkun
  <2>2. QED BY <1>3, <1>4, <1>5, <1>20, <2>1
<1>8. diminta'.hak = IF m.ganti
                     THEN [k \in mau \cup tetap |-> IF k \in tetap THEN hak[k]
                                                ELSE IF k \in DOMAIN f THEN f[k] ELSE 0]
                     ELSE hak
  BY <1>6, <1>20, <1>21
<1>9. hak = [k \in DOMAIN hak |-> hak[k]]
  BY DEF IMaster, TipeMaster
<1>10. /\ ~m.ganti => DOMAIN f = {} /\ m.hapus = {}
       /\ m.ganti => DOMAIN f = mau \ DOMAIN hak /\ DOMAIN hak \ m.hapus = tetap
  <2>1. /\ ~m.ganti => DOMAIN f = {} /\ m.hapus = {}
        /\ m.ganti => DOMAIN f = mau \ DOMAIN hak
        /\ m.ganti => DOMAIN hak \ m.hapus = SisaHak(i, mau)
    BY <1>1, <1>3, <1>4, <1>6, <1>i, HakCommit
  <2>2. QED BY <1>5, <1>6, <2>1 DEF SisaHak
<1>11. hak' = diminta'.hak
  <2>1. CASE ~m.ganti
    BY <1>7, <1>8, <1>9, <1>10, <2>1
  <2>2. CASE m.ganti
    <3>1. DOMAIN f \cup (DOMAIN hak \ m.hapus) = mau \cup tetap
      BY <1>5, <1>6, <1>10, <2>2
    <3>2. \A k \in mau \cup tetap : (IF k \in DOMAIN f THEN f[k] ELSE hak[k])
             = IF k \in tetap THEN hak[k] ELSE IF k \in DOMAIN f THEN f[k] ELSE 0
      BY <1>5, <1>6, <1>10, <2>2
    <3>3. QED BY <1>7, <1>8, <2>2, <3>1, <3>2
  <2>3. QED BY <2>1, <2>2
<1>12. induk' = diminta'.induk
  <2>1. induk' = [induk EXCEPT ![m.j] = IF m.id = 0 THEN Append(induk[m.j], m.baris)
                                       ELSE [induk[m.j] EXCEPT ![i] = m.baris]]
    BY <1>1, <1>2 DEF Commit
  <2>2. diminta'.induk = [induk EXCEPT ![m.j] =
                     IF m.id = 0 THEN Append(induk[m.j], m.baris)
                     ELSE [induk[m.j] EXCEPT ![i] = Tertimpa(induk[m.j][i], m.patch)]]
    <3>1. diminta'.induk = A
      BY <1>21
    <3>2. PICK q : q = diminta.induk
      OBVIOUS
    <3>3. A = [q EXCEPT ![m.j] = IF m.id = 0 THEN Append(q[m.j], m.baris)
                     ELSE [q[m.j] EXCEPT ![i] = Tertimpa(q[m.j][i], m.patch)]]
      BY <1>20, <3>2
    <3>4. QED BY <1>6, <3>1, <3>2, <3>3
  <2>3. m.id # 0 => m.baris = Tertimpa(induk[m.j][i], m.patch)
    BY <1>1, <1>2, <1>6 DEF IMaster, Sesuai, SudahMenulis
  <2>4. QED BY <2>1, <2>2, <2>3
<1>13. QED BY <1>11, <1>12 DEF PermintaanTerakhir

\* A commit takes the ground from under no other request.
LEMMA CommitSah ==
  ASSUME IMaster, NEW s \in Peminta, Commit(s)
  PROVE  IMaster'
<1>1. PICK m : m = minta[s]
  OBVIOUS
<1>2. PICK i : i = IF m.id = 0 THEN Len(induk[m.j]) + 1 ELSE m.id
  OBVIOUS
<1>3. PICK f : f = Milik(m.sisip, i)
  OBVIOUS
<1>4. /\ m.langkah = "commit" /\ minta' = [minta EXCEPT ![s] = TanpaMinta]
      /\ BentukMinta(m) /\ Sesuai(m) /\ BedaTersimpan(m) /\ SudahMenulis(m)
  BY <1>1 DEF Commit, IMaster, TipeMaster, SudahMenulis
<1>5. hak' = [k \in DOMAIN f \cup (DOMAIN hak \ m.hapus) |-> IF k \in DOMAIN f THEN f[k] ELSE hak[k]]
  BY <1>1, <1>2, <1>3 DEF Commit
<1>8. i = IdTulis(m)
  BY <1>2 DEF IdTulis
<1>6. /\ \E S : induk' \in [Jenis -> Seq(S)]
      /\ \A j \in Jenis : j # m.j => induk'[j] = induk[j]
      /\ m.j \in Jenis /\ i \in Nat \ {0}
      /\ m.id # 0 => i \in 1..Len(induk[m.j])
      /\ \A j \in Jenis : Len(induk[j]) \in Nat /\ Len(induk'[j]) \in Nat /\ Len(induk'[j]) >= Len(induk[j])
      /\ i \in 1..Len(induk'[m.j]) /\ induk'[m.j][i] = m.baris
      /\ \A x \in 1..Len(induk'[m.j]) : x # i => x \in 1..Len(induk[m.j]) /\ induk'[m.j][x] = induk[m.j][x]
  BY <1>1, <1>8, BarisCommit
<1>7. \A j \in Jenis : DOMAIN induk[j] = 1..Len(induk[j]) /\ DOMAIN induk'[j] = 1..Len(induk'[j])
  <2>1. \A j \in Jenis : (\E S : induk[j] \in Seq(S)) /\ (\E S : induk'[j] \in Seq(S))
    BY <1>6 DEF IMaster, TipeMaster
  <2>2. QED BY <2>1
<1>9. PICK M : M = HakAkun(i, m.mau)
  OBVIOUS
<1>10. /\ ~m.ganti => DOMAIN f = {} /\ m.hapus = {}
       /\ m.ganti => DOMAIN f = M \ DOMAIN hak /\ \A k \in DOMAIN f : k.u = i
       /\ m.ganti => DOMAIN hak \ m.hapus = SisaHak(i, M) /\ m.j = "users"
  <2>1. m.ganti => m.j = "users"
    BY <1>4 DEF Sesuai
  <2>2. QED BY <1>1, <1>3, <1>4, <1>8, <1>9, <2>1, HakCommit
<1>11. /\ \A k \in DOMAIN hak' : k \notin DOMAIN hak => m.ganti /\ k.u = i
       /\ \A k \in DOMAIN hak : k \notin DOMAIN hak' => m.ganti /\ k.u = i
  BY <1>5, <1>10 DEF SisaHak
<1>12. \A t \in Peminta : minta'[t] = IF t = s THEN TanpaMinta ELSE minta[t]
  BY <1>4 DEF IMaster, TipeMaster
<1>13. TipeMaster'
  <2>1. minta' = [t \in Peminta |-> minta'[t]]
    BY <1>4 DEF IMaster, TipeMaster
  <2>2. \A t \in Peminta : BentukMinta(minta'[t])
    BY <1>12, TanpaMintaSah DEF IMaster, TipeMaster
  <2>3. hak' = [k \in DOMAIN hak' |-> hak'[k]]
    BY <1>5
  <2>4. \A k \in DOMAIN hak' : k.u \in 1..Len(induk'["users"])
    <3>1. TAKE k \in DOMAIN hak'
    <3>2. CASE k \in DOMAIN hak
      <4>1. k.u \in 1..Len(induk["users"])
        BY <3>2 DEF IMaster, TipeMaster
      <4>2. QED BY <1>6, <4>1 DEF Jenis
    <3>3. CASE k \notin DOMAIN hak
      BY <1>6, <1>10, <1>11, <3>3
    <3>4. QED BY <3>2, <3>3
  <2>5. QED BY <1>6, <2>1, <2>2, <2>3, <2>4 DEF TipeMaster
<1>14. KunciUnik'
  <2>1. SUFFICES ASSUME NEW j \in Jenis, NEW a \in DOMAIN induk'[j], NEW b \in DOMAIN induk'[j], a # b,
                        NEW k \in KolomUnik(j)
                 PROVE  ~Sama(induk'[j][a][k], induk'[j][b][k])
    BY DEF KunciUnik, Sama
  <2>2. CASE j # m.j
    BY <1>6, <2>1, <2>2 DEF IMaster, KunciUnik
  <2>3. CASE j = m.j
    <3>1. \A x \in DOMAIN induk'[j] : x # i => x \in DOMAIN induk[j] /\ induk'[j][x] = induk[j][x]
                                            /\ ~Sama(induk'[j][x][k], m.baris[k])
      <4>1. TAKE x \in DOMAIN induk'[j]
      <4>2. SUFFICES ASSUME x # i PROVE x \in DOMAIN induk[j] /\ induk'[j][x] = induk[j][x]
                                            /\ ~Sama(induk'[j][x][k], m.baris[k])
        OBVIOUS
      <4>3. x \in DOMAIN induk[j] /\ induk'[j][x] = induk[j][x]
        BY <1>6, <1>7, <2>3, <4>2
      <4>4. x # m.id
        BY <1>2, <1>6, <1>7, <2>3, <4>2, <4>3
      <4>5. QED BY <1>4, <2>3, <4>3, <4>4 DEF BedaTersimpan
    <3>2. CASE a = i
      BY <1>6, <2>1, <2>3, <3>1, <3>2, SamaSimetris
    <3>3. CASE b = i
      BY <1>6, <2>1, <2>3, <3>1, <3>3
    <3>4. CASE a # i /\ b # i
      BY <2>1, <3>1, <3>4 DEF IMaster, KunciUnik
    <3>5. QED BY <3>2, <3>3, <3>4
  <2>4. QED BY <2>2, <2>3
<1>15. ASSUME NEW t \in Peminta, t # s, NEW n, n = minta[t]
       PROVE  Sesuai(n)' /\ BedaTersimpan(n)'
  <2>1. n = minta[t]
    BY <1>15
  <2>2. /\ Sesuai(n) /\ BedaTersimpan(n) /\ BentukMinta(n)
        /\ Berbeda(m, n) /\ Berbeda(n, m)
    BY <1>1, <1>15, <2>1 DEF IMaster, TipeMaster
  <2>3. n.j \in Jenis /\ n.id \in Nat
    BY <2>2 DEF BentukMinta
  <2>4. n.id # 0 => n.id \in 1..Len(induk[n.j]) /\ n.id \in 1..Len(induk'[n.j]) /\ PatchSah(n.j, n.patch)
    BY <1>6, <2>2, <2>3 DEF Sesuai
  <2>5. SudahMenulis(n) /\ n.j = m.j => n.id # i
    BY <1>2, <1>4, <1>6, <2>2, <2>4 DEF Berbeda
  <2>6. SudahMenulis(n) /\ n.id # 0 => n.baris = Tertimpa(induk'[n.j][n.id], n.patch)
    <3>1. SUFFICES ASSUME SudahMenulis(n), n.id # 0 PROVE induk'[n.j][n.id] = induk[n.j][n.id]
      BY <2>2 DEF Sesuai
    <3>2. QED BY <1>6, <2>3, <2>4, <2>5, <3>1
  <2>7. SudahMenulis(n) /\ n.j = "users" =>
          \A k : k.u = n.id => (k \in DOMAIN hak <=> k \in DOMAIN hak')
    BY <1>10, <1>11, <2>5
  <2>8. ASSUME n.ganti, n.langkah \in {"sisip", "commit"} PROVE n.hapus = HakMilik(n.id)' \ HakDiminta(n)
    <3>1. n.j = "users" /\ SudahMenulis(n) /\ n.hapus = HakMilik(n.id) \ HakDiminta(n)
      BY <2>2, <2>8 DEF Sesuai, SudahMenulis
    <3>2. HakMilik(n.id)' = HakMilik(n.id)
      BY <2>7, <3>1 DEF HakMilik
    <3>3. QED BY <3>1, <3>2
  <2>9. ASSUME n.ganti, n.langkah = "commit" PROVE DOMAIN n.sisip = HakDiminta(n) \ DOMAIN hak'
    <3>1. n.j = "users" /\ SudahMenulis(n) /\ DOMAIN n.sisip = HakDiminta(n) \ DOMAIN hak
      BY <2>2, <2>9 DEF Sesuai, SudahMenulis
    <3>2. \A k \in HakDiminta(n) : k.u = n.id
      BY KunciU DEF HakDiminta, HakAkun
    <3>3. QED BY <2>7, <3>1, <3>2
  <2>10. Sesuai(n)'
    <3>1. /\ n.ganti => n.j = "users"
          /\ ~n.ganti => n.langkah \in {"diam", "tulis", "commit"}
          /\ ~n.ganti \/ n.langkah \in {"diam", "tulis", "hapus"} => n.hapus = {} /\ n.sisip = <<>>
          /\ n.ganti /\ n.langkah = "sisip" => n.sisip = <<>>
      BY <2>2 DEF Sesuai
    <3>2. QED BY <2>4, <2>6, <2>8, <2>9, <3>1 DEF Sesuai
  <2>11. BedaTersimpan(n)'
    <3>1. SUFFICES ASSUME SudahMenulis(n), NEW k \in KolomUnik(n.j), NEW x \in DOMAIN induk'[n.j], x # n.id
                   PROVE  ~Sama(induk'[n.j][x][k], n.baris[k])
      BY DEF BedaTersimpan
    <3>2. CASE n.j = m.j /\ x = i
      BY <1>4, <1>6, <2>2, <3>1, <3>2 DEF Berbeda
    <3>3. CASE ~(n.j = m.j /\ x = i)
      <4>1. x \in DOMAIN induk[n.j] /\ induk'[n.j][x] = induk[n.j][x]
        BY <1>6, <1>7, <2>3, <3>1, <3>3
      <4>2. QED BY <2>2, <3>1, <4>1 DEF BedaTersimpan
    <3>4. QED BY <3>2, <3>3
  <2>12. QED BY <2>10, <2>11
<1>16. Sesuai(TanpaMinta)' /\ BedaTersimpan(TanpaMinta)' /\ \A n : Berbeda(TanpaMinta, n) /\ Berbeda(n, TanpaMinta)
  <2>1. ~SudahMenulis(TanpaMinta) /\ TanpaMinta.id = 0 /\ TanpaMinta.ganti = FALSE
        /\ TanpaMinta.hapus = {} /\ TanpaMinta.sisip = <<>> /\ TanpaMinta.langkah = "diam"
    BY DEF TanpaMinta, SudahMenulis
  <2>2. QED BY <2>1 DEF Sesuai, BedaTersimpan, Berbeda
<1>17. (\A t \in Peminta : Sesuai(minta[t]) /\ BedaTersimpan(minta[t]))'
  <2>1. TAKE t \in Peminta
  <2>2. PICK n : n = minta'[t]
    OBVIOUS
  <2>3. Sesuai(n)' /\ BedaTersimpan(n)'
    <3>1. CASE t = s
      <4>1. n = TanpaMinta
        BY <1>12, <2>2, <3>1
      <4>2. QED BY <1>16, <4>1
    <3>2. CASE t # s
      <4>1. n = minta[t]
        BY <1>12, <2>2, <3>2
      <4>2. QED BY <1>15, <3>2, <4>1
    <3>3. QED BY <3>1, <3>2
  <2>4. Sesuai(minta[t])'
    BY <2>2, <2>3 DEF Sesuai, HakMilik
  <2>5. BedaTersimpan(minta[t])'
    BY <2>2, <2>3 DEF BedaTersimpan
  <2>6. QED BY <2>4, <2>5
<1>18. \A t, u \in Peminta : t # u => Berbeda(minta'[t], minta'[u])
  BY <1>12, <1>16 DEF IMaster
<1>19. PermintaanTerakhir'
  BY DimintaCommit
<1>20. QED BY <1>13, <1>14, <1>17, <1>18, <1>19 DEF IMaster

LEMMA MasterMula == InitMaster => IMaster
<1> SUFFICES ASSUME InitMaster PROVE IMaster
  OBVIOUS
<1>1. /\ induk = IndukAwal /\ hak = HakAwal /\ diminta.induk = IndukAwal /\ diminta.hak = HakAwal
      /\ minta = [s \in Peminta |-> TanpaMinta]
  BY DEF InitMaster
<1>2. \E S : induk \in [Jenis -> Seq(S)]
  BY <1>1, AsumsiMaster
<1>3. DOMAIN induk["users"] = 1..Len(induk["users"])
  BY <1>2 DEF Jenis
<1>4. TipeMaster
  BY <1>1, <1>2, <1>3, AsumsiMaster, TanpaMintaSah DEF TipeMaster
<1>5. KunciUnik
  BY <1>1, AsumsiMaster DEF KunciUnik
<1>6. PermintaanTerakhir
  BY <1>1 DEF PermintaanTerakhir
<1>7. QED BY <1>1, <1>4, <1>5, <1>6, TanpaMintaSah, BelumMenulis DEF IMaster, SudahMenulis

LEMMA MasterLangkah == IMaster /\ [NextMaster]_varsMaster => IMaster'
<1> SUFFICES ASSUME IMaster, [NextMaster]_varsMaster PROVE IMaster'
  OBVIOUS
<1>1. CASE UNCHANGED <<induk, hak, minta, diminta>>
  BY <1>1 DEF IMaster, TipeMaster, KunciUnik, PermintaanTerakhir, Sesuai, BedaTersimpan, HakMilik
<1>2. ASSUME NEW s \in Peminta,
             \/ BuatSatuan(s) \/ BuatEkspedisi(s) \/ BuatRole(s) \/ BuatSupplier(s)
             \/ BuatPelanggan(s) \/ BuatUnitKerja(s) \/ BuatRuang(s)
      PROVE  IMaster'
  BY <1>2, SemuaBuat
<1>3. ASSUME NEW s \in Peminta,
             \/ \E i \in DOMAIN induk["satuan"] : UbahSatuan(s, i)
             \/ \E i \in DOMAIN induk["ekspedisi"] : UbahEkspedisi(s, i)
             \/ \E i \in DOMAIN induk["role"] : UbahRole(s, i)
             \/ \E i \in DOMAIN induk["supplier"] : UbahSupplier(s, i)
             \/ \E i \in DOMAIN induk["pelanggan"] : UbahPelanggan(s, i)
             \/ \E i \in DOMAIN induk["unit_kerja"] : UbahUnitKerja(s, i)
             \/ \E i \in DOMAIN induk["ruang"] : UbahRuang(s, i)
      PROVE  IMaster'
  BY <1>3, SemuaUbah
<1>4. ASSUME NEW s \in Peminta, BuatUser(s) \/ \E i \in DOMAIN induk["users"] : UbahUser(s, i)
      PROVE  IMaster'
  BY <1>4, AkunBuat, AkunUbah
<1>5. ASSUME NEW s \in Peminta, Tulis(s) PROVE IMaster'
  BY <1>5, TulisSah
<1>6. ASSUME NEW s \in Peminta, HapusHak(s) \/ SisipHak(s) PROVE IMaster'
  BY <1>6, HapusHakSah, SisipHakSah
<1>7. ASSUME NEW s \in Peminta, Commit(s) PROVE IMaster'
  BY <1>7, CommitSah
<1>8. ASSUME NEW s \in Peminta, GagalMinta(s) PROVE IMaster'
  BY <1>8, GagalSah
<1>9. CASE \E i \in DOMAIN induk["ruang"] : Bergerak(i)
  BY <1>1, <1>9 DEF Bergerak
<1>10. QED BY <1>1, <1>2, <1>3, <1>4, <1>5, <1>6, <1>7, <1>8, <1>9 DEF NextMaster, varsMaster

\* Whatever requests overlap, fail or die: every row is what the last committed
\* request that named each column said, a NULL included, and an account's
\* grants are those the last request that replaced them asked for
\* (the Update statements of supplier_repository.go and of the other kinds;
\* user_repository.go, ReplaceRoles).
THEOREM PermintaanSelaluTerakhir == SpecMaster => []PermintaanTerakhir
<1>1. IMaster => PermintaanTerakhir
  BY DEF IMaster
<1>2. QED BY <1>1, MasterMula, MasterLangkah, PTL DEF SpecMaster

\* Two requests that both found a name or a code free do not both store it:
\* the write meets the unique index, which the check before it cannot replace
\* (ExistsByKode, ExistsByNama; the indexes over lower(kode), lower(nama)).
THEOREM KunciSelaluUnik == SpecMaster => []KunciUnik
<1>1. IMaster => KunciUnik
  BY DEF IMaster
<1>2. QED BY <1>1, MasterMula, MasterLangkah, PTL DEF SpecMaster

\* The column an insert cannot do without.
KolomNama(j) == IF j = "users" THEN "username" ELSE "nama"

NilaiPatch(p) ==
  \A k \in DOMAIN p : IF k = "aktif" THEN p[k] \in {Ya, Tidak} ELSE p[k] \in Teks \cup {KolomKosong}

\* A request of n identities drawn.
MintaIsi(m, n) ==
  /\ NilaiPatch(m.patch) /\ IsFiniteSet(m.mau)
  /\ m.id = 0 /\ m.langkah # "diam" => KolomNama(m.j) \in DOMAIN m.patch
  /\ SudahMenulis(m) => BarisIsi(m.baris)
  /\ \A k \in DOMAIN m.sisip : m.sisip[k] \in 1..n

TipeIsi ==
  /\ \A j \in Jenis : \A i \in DOMAIN induk[j] : BarisIsi(induk[j][i])
  /\ nomorHak \in Nat /\ \A k \in DOMAIN hak : hak[k] \in 1..nomorHak
  /\ dimulai \in 0..MaksMinta
  /\ \A s \in Peminta : MintaIsi(minta[s], nomorHak)

LEMMA TanpaMintaIsi == ASSUME NEW n PROVE MintaIsi(TanpaMinta, n)
<1>1. /\ TanpaMinta.langkah = "diam" /\ TanpaMinta.patch = <<>> /\ TanpaMinta.mau = {}
      /\ TanpaMinta.sisip = <<>>
  BY DEF TanpaMinta
<1>2. DOMAIN TanpaMinta.patch = {} /\ DOMAIN TanpaMinta.sisip = {} /\ IsFiniteSet(TanpaMinta.mau)
  BY <1>1, FS_EmptySet
<1>3. QED BY <1>1, <1>2 DEF MintaIsi, NilaiPatch, SudahMenulis

LEMMA IsiNaik ==
  ASSUME NEW m, NEW a \in Nat, NEW b \in Nat, a <= b, MintaIsi(m, a)
  PROVE  MintaIsi(m, b)
<1>1. \A k \in DOMAIN m.sisip : m.sisip[k] \in 1..b
  BY DEF MintaIsi
<1>2. QED BY <1>1 DEF MintaIsi

\* A step of one request that commits nothing.
LEMMA IsiDiam ==
  ASSUME IMaster, TipeIsi, NEW s \in Peminta, NEW m, minta' = [minta EXCEPT ![s] = m],
         UNCHANGED <<induk, hak>>, nomorHak' \in Nat, nomorHak <= nomorHak',
         dimulai' \in 0..MaksMinta, MintaIsi(m, nomorHak')
  PROVE  TipeIsi'
<1>1. \A t \in Peminta : minta'[t] = IF t = s THEN m ELSE minta[t]
  BY DEF IMaster, TipeMaster
<1>2. PICK n : n = nomorHak'
  OBVIOUS
<1>3. n \in Nat /\ nomorHak \in Nat /\ nomorHak <= n
  BY <1>2 DEF TipeIsi
<1>4. \A t \in Peminta : MintaIsi(minta'[t], n)
  <2>1. \A t \in Peminta : MintaIsi(minta[t], n)
    BY <1>3, IsiNaik DEF TipeIsi
  <2>2. QED BY <1>1, <1>2, <2>1
<1>5. \A k \in DOMAIN hak : hak[k] \in 1..n
  BY <1>3 DEF TipeIsi
<1>6. \A j \in Jenis : \A i \in DOMAIN induk'[j] : BarisIsi(induk'[j][i])
  BY DEF TipeIsi
<1>7. QED BY <1>2, <1>3, <1>4, <1>5, <1>6 DEF TipeIsi

\* And that draws no identity.
LEMMA IsiTanpaNomor ==
  ASSUME IMaster, TipeIsi, NEW s \in Peminta, NEW m, minta' = [minta EXCEPT ![s] = m],
         induk' = induk, hak' = hak, nomorHak' = nomorHak,
         dimulai' \in 0..MaksMinta, MintaIsi(m, nomorHak)
  PROVE  TipeIsi'
<1>1. nomorHak' \in Nat /\ nomorHak <= nomorHak' /\ MintaIsi(m, nomorHak')
  BY DEF TipeIsi
<1>2. UNCHANGED <<induk, hak>>
  OBVIOUS
<1>3. QED BY <1>1, <1>2, IsiDiam

\* The start of a request.
LEMMA IsiMula ==
  ASSUME IMaster, TipeIsi, NEW s \in Peminta, NEW j, NEW i, NEW p, NEW m, PermintaanMula(m, j, i, p),
         minta' = [minta EXCEPT ![s] = m], UNCHANGED <<induk, hak, nomorHak>>,
         dimulai < MaksMinta, dimulai' = dimulai + 1,
         NilaiPatch(p), IsFiniteSet(m.mau), i = 0 => KolomNama(j) \in DOMAIN p
  PROVE  TipeIsi'
<1>1. dimulai' \in 0..MaksMinta /\ nomorHak \in Nat
  BY AsumsiMaster DEF TipeIsi
<1>2. DOMAIN m.sisip = {}
  BY DEF PermintaanMula
<1>3. MintaIsi(m, nomorHak)
  BY <1>2 DEF MintaIsi, PermintaanMula, SudahMenulis
<1>4. induk' = induk /\ hak' = hak /\ nomorHak' = nomorHak
  OBVIOUS
<1>5. QED BY <1>1, <1>3, <1>4, IsiTanpaNomor

LEMMA IsiMulaiMinta ==
  ASSUME IMaster, TipeIsi, NEW s \in Peminta, NEW j, NEW i, NEW p, MulaiMinta(s, j, i, p),
         NilaiPatch(p), i = 0 => KolomNama(j) \in DOMAIN p
  PROVE  TipeIsi'
<1>1. PICK m : m = [TanpaMinta EXCEPT !.langkah = "tulis", !.j = j, !.id = i, !.patch = p]
  OBVIOUS
<1>2. PermintaanMula(m, j, i, p) /\ m.mau = {}
  BY <1>1 DEF TanpaMinta, PermintaanMula
<1>3. IsFiniteSet(m.mau)
  BY <1>2, FS_EmptySet
<1>4. /\ minta' = [minta EXCEPT ![s] = m] /\ UNCHANGED <<induk, hak, nomorHak>>
      /\ dimulai < MaksMinta /\ dimulai' = dimulai + 1
  BY <1>1 DEF MulaiMinta
<1>5. QED BY <1>2, <1>3, <1>4, IsiMula

LEMMA IsiMulaiAkun ==
  ASSUME IMaster, TipeIsi, NEW s \in Peminta, NEW i, NEW p, NEW g, NEW H, IsFiniteSet(H),
         MulaiAkun(s, i, p, g, H), NilaiPatch(p), i = 0 => "username" \in DOMAIN p
  PROVE  TipeIsi'
<1>1. PICK m : m = [TanpaMinta EXCEPT !.langkah = "tulis", !.j = "users", !.id = i, !.patch = p,
                                      !.ganti = g, !.mau = H]
  OBVIOUS
<1>2. PermintaanMula(m, "users", i, p) /\ m.mau = H
  BY <1>1 DEF TanpaMinta, PermintaanMula
<1>3. /\ minta' = [minta EXCEPT ![s] = m] /\ UNCHANGED <<induk, hak, nomorHak>>
      /\ dimulai < MaksMinta /\ dimulai' = dimulai + 1
  BY <1>1 DEF MulaiAkun
<1>4. i = 0 => KolomNama("users") \in DOMAIN p
  BY DEF KolomNama
<1>5. QED BY <1>2, <1>3, <1>4, IsiMula

LEMMA PatchNilai ==
  ASSUME NEW W, NEW B, NEW p \in Patch(W, B), "aktif" \notin W \cup B
  PROVE  NilaiPatch(p)
<1>1. CASE \E k \in W : p \in [{k} -> Teks]
  BY <1>1 DEF NilaiPatch
<1>2. CASE \E k \in B : p \in [{k} -> Teks \cup {KolomKosong}]
  BY <1>2 DEF NilaiPatch
<1>3. CASE p \in [{"aktif"} -> {Ya, Tidak}]
  BY <1>3 DEF NilaiPatch
<1>4. QED BY <1>1, <1>2, <1>3 DEF Patch

LEMMA IsiBuat ==
  ASSUME IMaster, TipeIsi, NEW s \in Peminta,
         \/ BuatSatuan(s) \/ BuatEkspedisi(s) \/ BuatRole(s) \/ BuatSupplier(s)
         \/ BuatPelanggan(s) \/ BuatUnitKerja(s) \/ BuatRuang(s)
  PROVE  TipeIsi'
<1>1. PICK j, p : /\ j # "users" /\ MulaiMinta(s, j, 0, p)
                  /\ p \in [{"nama"} -> Teks] \cup [{"kode", "nama"} -> Teks]
  BY DEF BuatSatuan, BuatEkspedisi, BuatRole, BuatSupplier, BuatPelanggan, BuatUnitKerja,
         BuatRuang, IsianKode
<1>2. NilaiPatch(p) /\ KolomNama(j) \in DOMAIN p
  BY <1>1 DEF NilaiPatch, KolomNama
<1>3. QED BY <1>1, <1>2, IsiMulaiMinta

LEMMA IsiUbah ==
  ASSUME IMaster, TipeIsi, NEW s \in Peminta,
         \/ \E i \in DOMAIN induk["satuan"] : UbahSatuan(s, i)
         \/ \E i \in DOMAIN induk["ekspedisi"] : UbahEkspedisi(s, i)
         \/ \E i \in DOMAIN induk["role"] : UbahRole(s, i)
         \/ \E i \in DOMAIN induk["supplier"] : UbahSupplier(s, i)
         \/ \E i \in DOMAIN induk["pelanggan"] : UbahPelanggan(s, i)
         \/ \E i \in DOMAIN induk["unit_kerja"] : UbahUnitKerja(s, i)
         \/ \E i \in DOMAIN induk["ruang"] : UbahRuang(s, i)
  PROVE  TipeIsi'
<1>1. \E j \in Jenis : \E i \in DOMAIN induk[j] : \E p \in Patch({"nama"}, KolomBoleh(j)) :
        j # "users" /\ MulaiMinta(s, j, i, p)
  BY DEF UbahSatuan, UbahEkspedisi, UbahRole, UbahSupplier, UbahPelanggan, UbahUnitKerja,
         UbahRuang, Jenis, KolomBoleh
<1>2. PICK j \in Jenis : \E i \in DOMAIN induk[j] : \E p \in Patch({"nama"}, KolomBoleh(j)) :
        j # "users" /\ MulaiMinta(s, j, i, p)
  BY <1>1
<1> PICK i \in DOMAIN induk[j] : \E p \in Patch({"nama"}, KolomBoleh(j)) :
        j # "users" /\ MulaiMinta(s, j, i, p)
  BY <1>2
<1> PICK p \in Patch({"nama"}, KolomBoleh(j)) : j # "users" /\ MulaiMinta(s, j, i, p)
  OBVIOUS
<1>3. "aktif" \notin {"nama"} \cup KolomBoleh(j)
  BY DEF KolomBoleh
<1>4. i # 0
  BY DEF IMaster, TipeMaster
<1>5. NilaiPatch(p)
  BY <1>3, PatchNilai
<1>6. QED BY <1>4, <1>5, IsiMulaiMinta

LEMMA IsiAkun ==
  ASSUME IMaster, TipeIsi, NEW s \in Peminta,
         BuatUser(s) \/ \E i \in DOMAIN induk["users"] : UbahUser(s, i)
  PROVE  TipeIsi'
<1>1. \A H \in PilihanHak : IsFiniteSet(H)
  BY AsumsiMaster
<1>2. CASE BuatUser(s)
  <2>1. PICK p \in [{"username", "email"} -> Teks] \cup [{"username"} -> Teks], H \in PilihanHak :
          MulaiAkun(s, 0, p, TRUE, H)
    BY <1>2 DEF BuatUser
  <2>2. NilaiPatch(p) /\ "username" \in DOMAIN p
    BY DEF NilaiPatch
  <2>3. QED BY <1>1, <2>1, <2>2, IsiMulaiAkun
<1>3. ASSUME NEW i \in DOMAIN induk["users"], UbahUser(s, i) PROVE TipeIsi'
  <2>1. i # 0
    BY DEF IMaster, TipeMaster, Jenis
  <2>2. CASE \E p \in Patch({"username", "password"}, {"email"}) : MulaiAkun(s, i, p, FALSE, {})
    <3>1. PICK p \in Patch({"username", "password"}, {"email"}) : MulaiAkun(s, i, p, FALSE, {})
      BY <2>2
    <3>2. NilaiPatch(p)
      BY PatchNilai
    <3>3. IsFiniteSet({})
      BY FS_EmptySet
    <3>4. QED BY <2>1, <3>1, <3>2, <3>3, IsiMulaiAkun
  <2>3. CASE \E p \in {<<>>, [aktif |-> Ya]}, H \in PilihanHak : MulaiAkun(s, i, p, TRUE, H)
    <3>1. PICK p \in {<<>>, [aktif |-> Ya]}, H \in PilihanHak : MulaiAkun(s, i, p, TRUE, H)
      BY <2>3
    <3>2. CASE p = <<>>
      <4>1. DOMAIN p = {}
        BY <3>2
      <4>2. NilaiPatch(p)
        BY <4>1 DEF NilaiPatch
      <4>3. QED BY <1>1, <2>1, <3>1, <4>2, IsiMulaiAkun
    <3>3. CASE p = [aktif |-> Ya]
      <4>1. DOMAIN p = {"aktif"} /\ p["aktif"] = Ya
        BY <3>3
      <4>2. NilaiPatch(p)
        BY <4>1 DEF NilaiPatch
      <4>3. QED BY <1>1, <2>1, <3>1, <4>2, IsiMulaiAkun
    <3>4. QED BY <3>2, <3>3
  <2>4. QED BY <1>3, <2>2, <2>3 DEF UbahUser
<1>4. QED BY <1>2, <1>3

\* What an insert stores.
LEMMA BarisBaruIsi ==
  ASSUME NEW j \in Jenis, NEW p, NilaiPatch(p), KolomNama(j) \in DOMAIN p
  PROVE  BarisIsi(BarisMaster(j, p))
<1>1. ASSUME NEW k \in DOMAIN p, k # "aktif" PROVE p[k] \in Teks \cup {KolomKosong}
  BY <1>1 DEF NilaiPatch
<1>2. Kode(p) \in Teks \cup {KolomKosong}
  <2>1. CASE "kode" \in DOMAIN p
    BY <1>1, <2>1 DEF Kode
  <2>2. CASE "kode" \notin DOMAIN p
    BY <2>2 DEF Kode
  <2>3. QED BY <2>1, <2>2
<1>3. CASE j # "users"
  <2>1. p.nama \in Teks \cup {KolomKosong}
    BY <1>1, <1>3 DEF KolomNama
  <2>2. PICK a : a = p.nama
    OBVIOUS
  <2>3. PICK c : c = Kode(p)
    OBVIOUS
  <2>4. \/ BarisMaster(j, p) = [nama |-> a, aktif |-> Ya]
        \/ BarisMaster(j, p) = [nama |-> a, telepon |-> KolomKosong, aktif |-> Ya]
        \/ BarisMaster(j, p) = [kode |-> c, nama |-> a, npwp |-> KolomKosong, aktif |-> Ya]
        \/ BarisMaster(j, p) = [kode |-> c, nama |-> a, plafon_kredit |-> KolomKosong, aktif |-> Ya]
        \/ BarisMaster(j, p) = [kode |-> c, nama |-> a, aktif |-> Ya]
    BY <1>3, <2>2, <2>3 DEF BarisMaster, SisipSatuan, SisipEkspedisi, SisipRole, SisipSupplier,
       SisipPelanggan, SisipUnitKerja, SisipRuang, Jenis
  <2>5. a \in Teks \cup {KolomKosong} /\ c \in Teks \cup {KolomKosong}
    BY <1>2, <2>1, <2>2, <2>3
  <2>6. PICK r : r = BarisMaster(j, p)
    OBVIOUS
  <2>7. BarisIsi(r)
    <3>1. CASE r = [nama |-> a, aktif |-> Ya]
      BY <2>5, <3>1 DEF BarisIsi
    <3>2. CASE r = [nama |-> a, telepon |-> KolomKosong, aktif |-> Ya]
      BY <2>5, <3>2 DEF BarisIsi
    <3>3. CASE r = [kode |-> c, nama |-> a, npwp |-> KolomKosong, aktif |-> Ya]
      BY <2>5, <3>3 DEF BarisIsi
    <3>4. CASE r = [kode |-> c, nama |-> a, plafon_kredit |-> KolomKosong, aktif |-> Ya]
      BY <2>5, <3>4 DEF BarisIsi
    <3>5. CASE r = [kode |-> c, nama |-> a, aktif |-> Ya]
      BY <2>5, <3>5 DEF BarisIsi
    <3>6. QED BY <2>4, <2>6, <3>1, <3>2, <3>3, <3>4, <3>5
  <2>8. QED BY <2>6, <2>7
<1>4. CASE j = "users"
  <2>1. PICK a : a = p.username
    OBVIOUS
  <2>2. PICK e : e = IF "email" \in DOMAIN p THEN p.email ELSE KolomKosong
    OBVIOUS
  <2>3. PICK w : w = CHOOSE x \in Teks : TRUE
    OBVIOUS
  <2>4. PICK r : r = [username |-> a, email |-> e, password |-> w, aktif |-> Ya]
    OBVIOUS
  <2>5. BarisMaster(j, p) = r
    BY <1>4, <2>1, <2>2, <2>3, <2>4 DEF BarisMaster, SisipUser
  <2>6. a \in Teks \cup {KolomKosong}
    BY <1>1, <1>4, <2>1 DEF KolomNama
  <2>7. e \in Teks \cup {KolomKosong}
    BY <1>1, <2>2
  <2>8. w \in Teks \cup {KolomKosong}
    BY <2>3
  <2>9. BarisIsi(r)
    BY <2>4, <2>6, <2>7, <2>8 DEF BarisIsi
  <2>10. QED BY <2>5, <2>9
<1>5. QED BY <1>3, <1>4

LEMMA TertimpaIsi ==
  ASSUME NEW r, BarisIsi(r), NEW p, NilaiPatch(p)
  PROVE  BarisIsi(Tertimpa(r, p))
<1>1. PICK q : q = Tertimpa(r, p)
  OBVIOUS
<1>2. DOMAIN q = DOMAIN r /\ \A k \in DOMAIN r : q[k] = IF k \in DOMAIN p THEN p[k] ELSE r[k]
  BY <1>1 DEF Tertimpa
<1>3. "aktif" \in DOMAIN q /\ q["aktif"] \in {Ya, Tidak}
  BY <1>2 DEF BarisIsi, NilaiPatch
<1>4. \A k \in DOMAIN q \ {"aktif"} : q[k] \in Teks \cup {KolomKosong}
  BY <1>2 DEF BarisIsi, NilaiPatch
<1>5. QED BY <1>1, <1>3, <1>4 DEF BarisIsi

LEMMA IsiTulis ==
  ASSUME IMaster, TipeIsi, NEW s \in Peminta, Tulis(s)
  PROVE  TipeIsi'
<1>1. PICK m : m = minta[s]
  OBVIOUS
<1>2. PICK r : r = IF m.id = 0 THEN BarisMaster(m.j, m.patch) ELSE BarisPatch(m.j, induk[m.j][m.id], m.patch)
  OBVIOUS
<1>3. PICK n : n = [m EXCEPT !.baris = r, !.langkah = IF m.ganti THEN "hapus" ELSE "commit"]
  OBVIOUS
<1>4. /\ m.langkah = "tulis" /\ UNCHANGED <<induk, hak, nomorHak, dimulai>>
      /\ minta' = [minta EXCEPT ![s] = TanpaMinta] \/ minta' = [minta EXCEPT ![s] = n]
  <2>1. PICK b : b = (\E k \in KolomUnik(m.j), i \in DOMAIN induk[m.j] :
                        i # m.id /\ Sama(induk[m.j][i][k], r[k]))
    OBVIOUS
  <2>2. minta' = [minta EXCEPT ![s] = IF b THEN TanpaMinta ELSE n]
    BY <1>1, <1>2, <1>3, <2>1 DEF Tulis
  <2>3. m.langkah = "tulis" /\ UNCHANGED <<induk, hak, nomorHak, dimulai>>
    BY <1>1 DEF Tulis
  <2>4. QED BY <2>2, <2>3
<1>5. /\ BentukMinta(m) /\ Sesuai(m) /\ MintaIsi(m, nomorHak) /\ nomorHak \in Nat
      /\ dimulai \in 0..MaksMinta
  BY <1>1 DEF IMaster, TipeMaster, TipeIsi
<1>6. BarisIsi(r)
  <2>1. CASE m.id = 0
    BY <1>2, <1>4, <1>5, <2>1, BarisBaruIsi DEF MintaIsi, BentukMinta
  <2>2. CASE m.id # 0
    <3>1. m.j \in Jenis /\ m.id \in DOMAIN induk[m.j] /\ PatchSah(m.j, m.patch)
      <4>1. m.j \in Jenis /\ m.id \in 1..Len(induk[m.j]) /\ PatchSah(m.j, m.patch)
        BY <1>5, <2>2 DEF BentukMinta, Sesuai
      <4>2. PICK S : induk \in [Jenis -> Seq(S)]
        BY DEF IMaster, TipeMaster
      <4>3. QED BY <4>1, <4>2
    <3>2. r = Tertimpa(induk[m.j][m.id], m.patch)
      BY <1>2, <2>2, <3>1, PatchJadi
    <3>3. BarisIsi(induk[m.j][m.id]) /\ NilaiPatch(m.patch)
      BY <1>5, <3>1 DEF TipeIsi, MintaIsi
    <3>4. QED BY <3>2, <3>3, TertimpaIsi
  <2>3. QED BY <2>1, <2>2
<1>7. MintaIsi(n, nomorHak)
  <2>1. n.baris = r /\ n.j = m.j /\ n.id = m.id /\ n.patch = m.patch /\ n.mau = m.mau /\ n.sisip = m.sisip
    BY <1>3, <1>5 DEF BentukMinta
  <2>2. QED BY <1>4, <1>5, <1>6, <2>1 DEF MintaIsi
<1>8. CASE minta' = [minta EXCEPT ![s] = TanpaMinta]
  <2>1. induk' = induk /\ hak' = hak /\ nomorHak' = nomorHak /\ dimulai' \in 0..MaksMinta
    BY <1>4, <1>5
  <2>2. MintaIsi(TanpaMinta, nomorHak)
    BY TanpaMintaIsi
  <2>3. QED BY <1>8, <2>1, <2>2, IsiTanpaNomor
<1>9. CASE minta' = [minta EXCEPT ![s] = n]
  <2>1. induk' = induk /\ hak' = hak /\ nomorHak' = nomorHak /\ dimulai' \in 0..MaksMinta
    BY <1>4, <1>5
  <2>2. QED BY <1>7, <1>9, <2>1, IsiTanpaNomor
<1>10. QED BY <1>4, <1>8, <1>9

LEMMA IsiHapusHak ==
  ASSUME IMaster, TipeIsi, NEW s \in Peminta, HapusHak(s)
  PROVE  TipeIsi'
<1>1. PICK m : m = minta[s]
  OBVIOUS
<1>2. PICK K : K = HakMilik(m.id) \ HakDiminta(m)
  OBVIOUS
<1>3. PICK n : n = [m EXCEPT !.hapus = K, !.langkah = "sisip"]
  OBVIOUS
<1>4. m.langkah = "hapus" /\ minta' = [minta EXCEPT ![s].hapus = K, ![s].langkah = "sisip"]
      /\ UNCHANGED <<induk, hak, nomorHak, dimulai>>
  BY <1>1, <1>2 DEF HapusHak, HakDiminta, HakAkun
<1>5. /\ BentukMinta(m) /\ MintaIsi(m, nomorHak) /\ nomorHak \in Nat
      /\ dimulai \in 0..MaksMinta
  BY <1>1 DEF IMaster, TipeMaster, TipeIsi
<1>6. /\ n.langkah = "sisip" /\ n.baris = m.baris /\ n.j = m.j /\ n.id = m.id
      /\ n.patch = m.patch /\ n.mau = m.mau /\ n.sisip = m.sisip
  BY <1>3, <1>5 DEF BentukMinta
<1>7. minta' = [minta EXCEPT ![s] = n]
  BY <1>1, <1>3, <1>4 DEF IMaster, TipeMaster
<1>8. MintaIsi(n, nomorHak)
  BY <1>4, <1>5, <1>6 DEF MintaIsi, SudahMenulis
<1>9. induk' = induk /\ hak' = hak /\ nomorHak' = nomorHak /\ dimulai' \in 0..MaksMinta
  BY <1>4, <1>5
<1>10. QED BY <1>7, <1>8, <1>9, IsiTanpaNomor

LEMMA IsiSisipHak ==
  ASSUME IMaster, TipeIsi, NEW s \in Peminta, SisipHak(s)
  PROVE  TipeIsi'
<1>1. PICK m : m = minta[s]
  OBVIOUS
<1>2. PICK K : K = HakDiminta(m) \ DOMAIN hak
  OBVIOUS
<1>3. PICK f \in [K -> (nomorHak + 1)..(nomorHak + Cardinality(K))] :
        minta' = [minta EXCEPT ![s].sisip = f, ![s].langkah = "commit"]
  <2>1. K = {KunciHak(minta[s].id, h) : h \in minta[s].mau} \ DOMAIN hak
    BY <1>1, <1>2 DEF HakDiminta, HakAkun
  <2>2. \E f \in [K -> (nomorHak + 1)..(nomorHak + Cardinality(K))] :
          minta' = [minta EXCEPT ![s].sisip = f, ![s].langkah = "commit"]
    BY <2>1, Zenon DEF SisipHak
  <2>3. QED BY <2>2
<1>4. m.langkah = "sisip" /\ UNCHANGED <<induk, hak, dimulai>> /\ nomorHak' = nomorHak + Cardinality(K)
  <2>1. K = {KunciHak(minta[s].id, h) : h \in minta[s].mau} \ DOMAIN hak
    BY <1>1, <1>2 DEF HakDiminta, HakAkun
  <2>2. QED BY <1>1, <2>1, Zenon DEF SisipHak
<1>5. PICK n : n = [m EXCEPT !.sisip = f, !.langkah = "commit"]
  OBVIOUS
<1>6. /\ BentukMinta(m) /\ MintaIsi(m, nomorHak) /\ nomorHak \in Nat
      /\ dimulai \in 0..MaksMinta
  BY <1>1 DEF IMaster, TipeMaster, TipeIsi
<1>7. /\ n.langkah = "commit" /\ n.baris = m.baris /\ n.j = m.j /\ n.id = m.id
      /\ n.patch = m.patch /\ n.mau = m.mau /\ n.sisip = f
  BY <1>5, <1>6 DEF BentukMinta
<1>8. minta' = [minta EXCEPT ![s] = n]
  BY <1>1, <1>3, <1>5 DEF IMaster, TipeMaster
<1>9. Cardinality(K) \in Nat
  <2>1. PICK M : M = m.mau
    OBVIOUS
  <2>2. PICK i : i = m.id
    OBVIOUS
  <2>3. IsFiniteSet(M)
    BY <1>6, <2>1 DEF MintaIsi
  <2>4. IsFiniteSet({KunciHak(i, h) : h \in M})
    <3> DEFINE kunci == [h \in M |-> KunciHak(i, h)]
    <3>1. IsFiniteSet({kunci[h] : h \in M})
      BY <2>3, Citra
    <3>2. {kunci[h] : h \in M} = {KunciHak(i, h) : h \in M}
      OBVIOUS
    <3>3. QED BY <3>1, <3>2
  <2>5. K \subseteq {KunciHak(i, h) : h \in M}
    BY <1>2, <2>1, <2>2 DEF HakDiminta, HakAkun
  <2>6. QED BY <2>4, <2>5, FS_Subset, FS_CardinalityType
<1>10. \A k \in DOMAIN f : f[k] \in 1..(nomorHak + Cardinality(K))
  BY <1>6, <1>9
<1>11. MintaIsi(n, nomorHak')
  BY <1>4, <1>6, <1>7, <1>10 DEF MintaIsi, SudahMenulis
<1>12. nomorHak' \in Nat /\ nomorHak <= nomorHak'
  BY <1>4, <1>6, <1>9
<1>13. QED BY <1>4, <1>6, <1>8, <1>11, <1>12, IsiDiam

LEMMA IsiCommit ==
  ASSUME IMaster, TipeIsi, NEW s \in Peminta, Commit(s)
  PROVE  TipeIsi'
<1>1. PICK m : m = minta[s]
  OBVIOUS
<1>2. PICK i : i = IdTulis(m)
  OBVIOUS
<1>3. PICK f : f = Milik(m.sisip, i)
  OBVIOUS
<1>4. /\ m.langkah = "commit" /\ minta' = [minta EXCEPT ![s] = TanpaMinta]
      /\ UNCHANGED <<nomorHak, dimulai>>
      /\ hak' = [k \in DOMAIN f \cup (DOMAIN hak \ m.hapus) |-> IF k \in DOMAIN f THEN f[k] ELSE hak[k]]
  BY <1>1, <1>2, <1>3 DEF Commit, IdTulis
<1>5. MintaIsi(m, nomorHak) /\ BarisIsi(m.baris)
  BY <1>1, <1>4 DEF TipeIsi, MintaIsi, SudahMenulis
<1>6. \A k \in DOMAIN f : f[k] \in 1..nomorHak
  <2>1. PICK g : g = m.sisip
    OBVIOUS
  <2>2. SUFFICES ASSUME NEW k \in DOMAIN f PROVE f[k] \in 1..nomorHak
    OBVIOUS
  <2>3. /\ DOMAIN f = {[x EXCEPT !.u = i] : x \in DOMAIN g}
        /\ f[k] = g[CHOOSE x \in DOMAIN g : [x EXCEPT !.u = i] = k]
    BY <1>3, <2>1, <2>2 DEF Milik
  <2>4. \E x \in DOMAIN g : [x EXCEPT !.u = i] = k
    BY <2>2, <2>3
  <2>5. PICK y : y = CHOOSE x \in DOMAIN g : [x EXCEPT !.u = i] = k
    OBVIOUS
  <2>6. y \in DOMAIN g
    BY <2>4, <2>5
  <2>7. QED BY <1>5, <2>1, <2>3, <2>5, <2>6 DEF MintaIsi
<1>7. \A k \in DOMAIN hak' : hak'[k] \in 1..nomorHak
  BY <1>4, <1>6 DEF TipeIsi
<1>8. /\ \E S : induk' \in [Jenis -> Seq(S)]
      /\ \A j \in Jenis : j # m.j => induk'[j] = induk[j]
      /\ i \in 1..Len(induk'[m.j]) /\ induk'[m.j][i] = m.baris
      /\ \A x \in 1..Len(induk'[m.j]) : x # i => x \in 1..Len(induk[m.j]) /\ induk'[m.j][x] = induk[m.j][x]
  BY <1>1, <1>2, BarisCommit
<1>9. \A j \in Jenis : DOMAIN induk[j] = 1..Len(induk[j]) /\ DOMAIN induk'[j] = 1..Len(induk'[j])
  <2>1. \A j \in Jenis : (\E S : induk[j] \in Seq(S)) /\ (\E S : induk'[j] \in Seq(S))
    BY <1>8 DEF IMaster, TipeMaster
  <2>2. QED BY <2>1
<1>10. ASSUME NEW j \in Jenis, NEW x \in DOMAIN induk'[j] PROVE BarisIsi(induk'[j][x])
  <2>1. CASE j # m.j
    BY <1>8, <1>10, <2>1 DEF TipeIsi
  <2>2. CASE j = m.j /\ x = i
    BY <1>5, <1>8, <2>2
  <2>3. CASE j = m.j /\ x # i
    <3>1. x \in DOMAIN induk[j] /\ induk'[j][x] = induk[j][x]
      BY <1>8, <1>9, <1>10, <2>3
    <3>2. QED BY <3>1 DEF TipeIsi
  <2>4. QED BY <2>1, <2>2, <2>3
<1>11. \A t \in Peminta : MintaIsi(minta'[t], nomorHak)
  <2>1. \A t \in Peminta : minta'[t] = IF t = s THEN TanpaMinta ELSE minta[t]
    BY <1>4 DEF IMaster, TipeMaster
  <2>2. QED BY <2>1, TanpaMintaIsi DEF TipeIsi
<1>12. nomorHak \in Nat /\ dimulai \in 0..MaksMinta
  BY DEF TipeIsi
<1>13. QED BY <1>4, <1>7, <1>10, <1>11, <1>12 DEF TipeIsi

LEMMA IsiLangkah == IMaster /\ TipeIsi /\ [NextMaster]_varsMaster => TipeIsi'
<1> SUFFICES ASSUME IMaster, TipeIsi, [NextMaster]_varsMaster PROVE TipeIsi'
  OBVIOUS
<1>1. CASE UNCHANGED <<induk, hak, nomorHak, minta, dimulai>>
  BY <1>1 DEF TipeIsi
<1>2. ASSUME NEW s \in Peminta, GagalMinta(s) PROVE TipeIsi'
  <2>1. minta' = [minta EXCEPT ![s] = TanpaMinta] /\ UNCHANGED <<induk, hak, nomorHak, dimulai>>
    BY <1>2 DEF GagalMinta
  <2>2. induk' = induk /\ hak' = hak /\ nomorHak' = nomorHak /\ dimulai' \in 0..MaksMinta
    BY <2>1 DEF TipeIsi
  <2>3. MintaIsi(TanpaMinta, nomorHak)
    BY TanpaMintaIsi
  <2>4. QED BY <2>1, <2>2, <2>3, IsiTanpaNomor
<1>3. CASE \E i \in DOMAIN induk["ruang"] : Bergerak(i)
  BY <1>1, <1>3 DEF Bergerak
<1>4. CASE UNCHANGED varsMaster
  BY <1>1, <1>4 DEF varsMaster
<1>5. CASE NextMaster
  BY <1>2, <1>3, <1>5, IsiBuat, IsiUbah, IsiAkun, IsiTulis, IsiHapusHak, IsiSisipHak, IsiCommit
     DEF NextMaster
<1>6. QED BY <1>4, <1>5

\* TypeOKMaster: the columns that may not be NULL never are, and the unique
\* indexes hold.
LEMMA TipeMasterSelalu == SpecMaster => []TypeOKMaster
<1>1. InitMaster => IMaster /\ TipeIsi
  <2> SUFFICES ASSUME InitMaster PROVE TipeIsi
    BY MasterMula
  <2>1. /\ induk = IndukAwal /\ hak = HakAwal /\ nomorHak = Cardinality(DOMAIN HakAwal)
        /\ dimulai = 0 /\ \A s \in Peminta : minta[s] = TanpaMinta
    BY DEF InitMaster
  <2>2. nomorHak \in Nat /\ dimulai \in 0..MaksMinta
    BY <2>1, AsumsiMaster, FS_CardinalityType
  <2>3. /\ \A k \in DOMAIN hak : hak[k] \in 1..nomorHak
        /\ \A j \in Jenis : \A i \in DOMAIN induk[j] : BarisIsi(induk[j][i])
    BY <2>1, AsumsiMaster
  <2>4. QED BY <2>1, <2>2, <2>3, TanpaMintaIsi DEF TipeIsi
<1>2. IMaster /\ TipeIsi => TypeOKMaster
  <2> SUFFICES ASSUME IMaster, TipeIsi PROVE TypeOKMaster
    OBVIOUS
  <2>1. DOMAIN induk["users"] = 1..Len(induk["users"])
    BY DEF IMaster, TipeMaster, Jenis
  <2>2. QED BY <2>1 DEF IMaster, TipeMaster, TipeIsi, TypeOKMaster
<1>3. QED BY <1>1, <1>2, MasterLangkah, IsiLangkah, PTL DEF SpecMaster

-----------------------------------------------------------------------------
(***************************************************************************)
(* PembayaranUtang: no invoice is paid more than it is worth.              *)
(***************************************************************************)
\* What a payment takes of an invoice: nothing unless it counts and points at
\* it, and no more than any of its rows there.
LEMMA GunaUtangBenar ==
  ASSUME NEW b, SahUtang(b), NEW f
  PROVE  /\ GunaUtang(b, f) \in Nat
         /\ ~(b.status = "POSTED" /\ b.giro \in {"TANPA", "CAIR"}) => GunaUtang(b, f) = 0
         /\ (\A a \in ToSet(b.alokasi) : a.faktur # f) => GunaUtang(b, f) = 0
         /\ \A a \in ToSet(b.alokasi) : a.faktur = f => GunaUtang(b, f) <= a.jumlah
<1> DEFINE T == {x \in ToSet(b.alokasi) : x.faktur = f}
<1> DEFINE S == {a.jumlah : a \in T}
<1>1. /\ IsFiniteSet(ToSet(b.alokasi)) /\ IsFiniteSet(T)
      /\ \A a \in ToSet(b.alokasi) : a.jumlah \in Nat
  <2>1. ToSet(b.alokasi) \subseteq BarisAlokasiUtang /\ IsFiniteSet(ToSet(b.alokasi))
    BY ToSetTerhingga DEF SahUtang
  <2>2. IsFiniteSet(T)
    BY <2>1, FS_Subset
  <2>3. QED BY <2>1, <2>2 DEF BarisAlokasiUtang
<1>2. IsFiniteSet(S)
  <2> DEFINE g == [a \in T |-> a.jumlah]
  <2>1. IsFiniteSet({g[x] : x \in T})
    BY <1>1, Citra
  <2>2. {g[x] : x \in T} = S
    OBVIOUS
  <2>3. QED BY <2>1, <2>2
<1>3. SumSet(S) \in Nat
  BY <1>1, <1>2, SumSetAlami
<1>4. ASSUME \A a \in ToSet(b.alokasi) : a.faktur # f PROVE SumSet(S) = 0
  <2>1. S = {}
    BY <1>4
  <2>2. QED BY <2>1, SumSetKecil
<1>5. ASSUME NEW a \in ToSet(b.alokasi), a.faktur = f
      PROVE  SumSet(S) = a.jumlah /\ a.jumlah \in Nat
  <2>1. \A x \in T : x = a
    BY <1>5 DEF SahUtang, ToSet
  <2>2. S = {a.jumlah} /\ a.jumlah \in Int
    BY <1>1, <1>5, <2>1
  <2>3. QED BY <1>1, <1>5, <2>2, SumSetKecil
<1>6. GunaUtang(b, f) = IF b.status = "POSTED" /\ b.giro \in {"TANPA", "CAIR"} THEN SumSet(S) ELSE 0
  BY DEF GunaUtang
<1> HIDE DEF S
<1>7. QED BY <1>3, <1>4, <1>5, <1>6

\* The payments of a table, each as the table allows it.
TabelUtang(U) ==
  /\ \E S : U \in Seq(S)
  /\ \A e \in DOMAIN U : SahUtang(U[e])

LEMMA TerpakaiBenar ==
  ASSUME NEW U, TabelUtang(U), NEW f, NEW d
  PROVE  /\ TerpakaiUtang(U, f, d) = Jml([e \in DOMAIN U |-> GunaUtang(U[e], f)], DOMAIN U \ {d})
         /\ TerpakaiUtang(U, f, d) \in Nat
         /\ IsFiniteSet(DOMAIN U) /\ IsFiniteSet(DOMAIN U \ {d})
         /\ \A e \in DOMAIN U : GunaUtang(U[e], f) \in Nat
<1> DEFINE S == DOMAIN U \ {d}
<1> DEFINE g == [e \in DOMAIN U |-> GunaUtang(U[e], f)]
<1> DEFINE G == CHOOSE G : G = [s \in SUBSET S |-> IF s = {} THEN 0
                   ELSE GunaUtang(U[CHOOSE x \in s : TRUE], f) + G[s \ {CHOOSE x \in s : TRUE}]]
<1>0. IsFiniteSet(DOMAIN U) /\ IsFiniteSet(S)
  <2>1. PICK n \in Nat : DOMAIN U = 1..n
    BY DEF TabelUtang
  <2>2. IsFiniteSet(1..n)
    BY FS_Interval
  <2>3. IsFiniteSet(DOMAIN U)
    BY <2>1, <2>2
  <2>4. QED BY <2>3, FS_Subset
<1>1. PICK F : Menjumlah(F, g, SUBSET S)
  BY <1>0, PenjumlahAda
<1>2. \A s \in SUBSET S : s # {} => g[Ambil(s)] = GunaUtang(U[CHOOSE x \in s : TRUE], f)
  BY Ambilan DEF Ambil
<1>3. \A e \in DOMAIN U : GunaUtang(U[e], f) \in Nat /\ g[e] \in Nat
  BY GunaUtangBenar DEF TabelUtang
<1>4. TerpakaiUtang(U, f, d) = G[S]
  BY DEF TerpakaiUtang, MapThenSumSet, MapThenFoldSet
<1> HIDE DEF g
<1>5. F = [s \in SUBSET S |-> IF s = {} THEN 0
             ELSE GunaUtang(U[CHOOSE x \in s : TRUE], f) + F[s \ {CHOOSE x \in s : TRUE}]]
  BY <1>1, <1>2 DEF Ambil, Menjumlah
<1>6. G = [s \in SUBSET S |-> IF s = {} THEN 0
             ELSE GunaUtang(U[CHOOSE x \in s : TRUE], f) + G[s \ {CHOOSE x \in s : TRUE}]]
  BY <1>5
<1> HIDE DEF G
<1>7. Menjumlah(G, g, SUBSET S)
  BY <1>6, <1>2 DEF Menjumlah, Ambil
<1>8. Jml(g, S) = G[S] /\ Jml(g, S) \in Nat
  BY <1>0, <1>3, <1>7, JmlAdalah, JmlAlami
<1>9. QED BY <1>0, <1>3, <1>4, <1>8 DEF g

\* One payment and all the others are all of them.
LEMMA TerpakaiPisah ==
  ASSUME NEW U, TabelUtang(U), NEW f, NEW d \in DOMAIN U
  PROVE  TerpakaiUtang(U, f, 0) = GunaUtang(U[d], f) + TerpakaiUtang(U, f, d)
<1> DEFINE g == [e \in DOMAIN U |-> GunaUtang(U[e], f)]
<1>1. DOMAIN U \ {0} = DOMAIN U
  <2>1. DOMAIN U = 1..Len(U)
    BY DEF TabelUtang
  <2>2. QED BY <2>1
<1>2. /\ TerpakaiUtang(U, f, 0) = Jml(g, DOMAIN U)
      /\ TerpakaiUtang(U, f, d) = Jml(g, DOMAIN U \ {d})
      /\ IsFiniteSet(DOMAIN U) /\ \A e \in DOMAIN U : g[e] \in Int
  BY <1>1, TerpakaiBenar
<1>3. g[d] = GunaUtang(U[d], f)
  OBVIOUS
<1> HIDE DEF g
<1>4. Jml(g, DOMAIN U) = g[d] + Jml(g, DOMAIN U \ {d})
  BY <1>2, JmlAmbil
<1>5. QED BY <1>2, <1>3, <1>4

\* When none of the others takes more, they take no more together.
LEMMA TerpakaiTurun ==
  ASSUME NEW U, TabelUtang(U), NEW V, TabelUtang(V), NEW f, NEW d, DOMAIN V = DOMAIN U,
         \A e \in DOMAIN U \ {d} : GunaUtang(V[e], f) <= GunaUtang(U[e], f)
  PROVE  TerpakaiUtang(V, f, d) <= TerpakaiUtang(U, f, d)
<1> DEFINE g == [e \in DOMAIN U |-> GunaUtang(U[e], f)]
<1> DEFINE h == [e \in DOMAIN V |-> GunaUtang(V[e], f)]
<1>1. /\ TerpakaiUtang(U, f, d) = Jml(g, DOMAIN U \ {d})
      /\ TerpakaiUtang(V, f, d) = Jml(h, DOMAIN U \ {d})
      /\ IsFiniteSet(DOMAIN U \ {d})
      /\ \A e \in DOMAIN U \ {d} : g[e] \in Int /\ h[e] \in Int /\ h[e] <= g[e]
  BY TerpakaiBenar
<1> HIDE DEF g, h
<1>2. QED BY <1>1, JmlNaik

\* A payment that takes nothing adds nothing.
LEMMA TerpakaiTambah ==
  ASSUME NEW U, TabelUtang(U), NEW b, TabelUtang(Append(U, b)), NEW f, GunaUtang(b, f) = 0, NEW d,
         d # Len(U) + 1
  PROVE  TerpakaiUtang(Append(U, b), f, d) = TerpakaiUtang(U, f, d)
<1> DEFINE V == Append(U, b)
<1> DEFINE n == Len(U) + 1
<1> DEFINE g == [e \in DOMAIN U |-> GunaUtang(U[e], f)]
<1> DEFINE h == [e \in DOMAIN V |-> GunaUtang(V[e], f)]
<1>1. /\ DOMAIN U = 1..Len(U) /\ DOMAIN V = DOMAIN U \cup {n} /\ n \notin DOMAIN U
      /\ V[n] = b /\ \A e \in DOMAIN U : V[e] = U[e]
  <2>1. PICK S : U \in Seq(S)
    BY DEF TabelUtang
  <2>2. QED BY <2>1
<1>2. /\ TerpakaiUtang(U, f, d) = Jml(g, DOMAIN U \ {d})
      /\ TerpakaiUtang(V, f, d) = Jml(h, DOMAIN V \ {d})
      /\ IsFiniteSet(DOMAIN U \ {d}) /\ IsFiniteSet(DOMAIN V \ {d})
      /\ \A e \in DOMAIN V : h[e] \in Int
  <2>1. TerpakaiUtang(U, f, d) = Jml(g, DOMAIN U \ {d}) /\ IsFiniteSet(DOMAIN U \ {d})
    BY TerpakaiBenar
  <2> HIDE DEF g, V
  <2>2. TabelUtang(V)
    BY DEF V
  <2>3. /\ TerpakaiUtang(V, f, d) = Jml(h, DOMAIN V \ {d}) /\ IsFiniteSet(DOMAIN V \ {d})
        /\ \A e \in DOMAIN V : GunaUtang(V[e], f) \in Nat
    BY <2>2, TerpakaiBenar
  <2>4. \A e \in DOMAIN V : h[e] \in Int
    BY <2>3
  <2>5. QED BY <2>1, <2>3, <2>4 DEF V
<1>3. (\A e \in DOMAIN U : g[e] = h[e]) /\ h[n] = 0
  BY <1>1
<1> HIDE DEF g, h, V, n
<1>4. DOMAIN U \ {d} \in SUBSET (DOMAIN V \ {d}) /\ \A e \in (DOMAIN V \ {d}) \ (DOMAIN U \ {d}) : h[e] = 0
  BY <1>1, <1>3
<1>5. Jml(h, DOMAIN U \ {d}) = Jml(h, DOMAIN V \ {d})
  BY <1>2, <1>4, JmlSempit
<1>6. Jml(g, DOMAIN U \ {d}) = Jml(h, DOMAIN U \ {d})
  BY <1>2, <1>3, JmlSama
<1>7. QED BY <1>2, <1>5, <1>6 DEF V
-----------------------------------------------------------------------------
(* The inductive invariant.                                                *)
AksiLama == {"ubah", "alokasi", "posting", "batal", "cair", "tolak"}

\* The row a of the payment d can be paid whatever else is committed while
\* its invoice is locked.
TersediaUtang(U, d, a) ==
  a.jumlah <= FakturUtang[a.faktur].total - TerpakaiUtang(U, a.faktur, d) - FakturUtang[a.faktur].kredit

\* What a session k knows of the table U: whoever has locked a payment knows
\* its row, and a posting or clearing has locked and asked every invoice that
\* it is not still to ask.
SesiUtang(U, k) ==
  /\ k = [langkah |-> k.langkah, aksi |-> k.aksi, id |-> k.id, baris |-> k.baris, mau |-> k.mau,
          sisa |-> k.sisa, faktur |-> k.faktur]
  /\ k.langkah \in {"diam", "kunci", "sisa"}
  /\ k.langkah # "sisa" => k.faktur = {}
  /\ k.langkah = "diam" => k = SebelumKerja
  /\ k.mau \in Seq(BarisAlokasiUtang) /\ k.sisa \in Seq(BarisAlokasiUtang)
  /\ k.id # 0 => k.id \in DOMAIN U /\ k.aksi \in AksiLama
  /\ k.id = 0 /\ k.langkah # "diam" =>
       k.langkah = "sisa" /\ k.aksi = "buat" /\ \E i \in IsianUtang : k.baris = BarisUtang(i)
  /\ k.id # 0 /\ k.langkah = "sisa" =>
       /\ BolehUtang(k.aksi, U[k.id])
       /\ k.aksi = "alokasi" => k.baris.alokasi = U[k.id].alokasi
       /\ k.aksi \in {"posting", "cair"} =>
            \A a \in ToSet(U[k.id].alokasi) :
              a \in ToSet(k.sisa) \/ (a.faktur \in k.faktur /\ TersediaUtang(U, k.id, a))

\* A payment and an invoice have one transaction each that has locked them.
SendiriUtang ==
  \A s, t \in Kasir : s # t /\ bayaran[s].langkah = "sisa" /\ bayaran[t].langkah = "sisa" =>
    /\ bayaran[s].id # 0 => bayaran[s].id # bayaran[t].id
    /\ bayaran[s].faktur \cap bayaran[t].faktur = {}

IUtang ==
  /\ TabelUtang(utang) /\ TerjagaUtang(utang)
  /\ bayaran = [s \in Kasir |-> bayaran[s]]
  /\ \A s \in Kasir : SesiUtang(utang, bayaran[s])
  /\ SendiriUtang

-----------------------------------------------------------------------------
LEMMA SesiTetap ==
  ASSUME NEW U, TabelUtang(U), NEW V, TabelUtang(V), NEW k, SesiUtang(U, k),
         k.id # 0 => k.id \in DOMAIN V,
         k.id # 0 /\ k.langkah = "sisa" =>
           /\ V[k.id] = U[k.id]
           /\ \A f \in k.faktur : TerpakaiUtang(V, f, k.id) <= TerpakaiUtang(U, f, k.id)
  PROVE  SesiUtang(V, k)
<1>1. ASSUME k.id # 0, k.langkah = "sisa", k.aksi \in {"posting", "cair"},
             NEW a \in ToSet(U[k.id].alokasi), a.faktur \in k.faktur, TersediaUtang(U, k.id, a)
      PROVE  TersediaUtang(V, k.id, a)
  <2>1. a \in BarisAlokasiUtang
    BY <1>1, ToSetTerhingga DEF SesiUtang, TabelUtang, SahUtang
  <2>2. a.jumlah \in Nat /\ FakturUtang[a.faktur].total \in Nat /\ FakturUtang[a.faktur].kredit \in Nat
    BY <2>1, AsumsiUtang DEF AsumsiUtang, BarisAlokasiUtang
  <2>3. TerpakaiUtang(V, a.faktur, k.id) \in Nat /\ TerpakaiUtang(U, a.faktur, k.id) \in Nat
    BY TerpakaiBenar
  <2>4. TerpakaiUtang(V, a.faktur, k.id) <= TerpakaiUtang(U, a.faktur, k.id)
    BY <1>1
  <2>5. QED BY <1>1, <2>2, <2>3, <2>4 DEF TersediaUtang
<1>2. QED BY <1>1 DEF SesiUtang

\* A step that writes nothing changes one session.
LEMMA HanyaSesi ==
  ASSUME IUtang, NEW s \in Kasir, NEW k, utang' = utang, bayaran' = [bayaran EXCEPT ![s] = k],
         SesiUtang(utang, k),
         k.langkah = "sisa" =>
           \A t \in Kasir : t # s /\ bayaran[t].langkah = "sisa" =>
             /\ k.id # 0 => k.id # bayaran[t].id
             /\ k.faktur \cap bayaran[t].faktur = {}
  PROVE  IUtang'
<1>1. /\ bayaran'[s] = k /\ \A t \in Kasir : t # s => bayaran'[t] = bayaran[t]
      /\ bayaran' = [t \in Kasir |-> bayaran'[t]]
  BY DEF IUtang
<1>2. \A t \in Kasir : SesiUtang(utang, bayaran'[t])
  BY <1>1 DEF IUtang
<1>3. SendiriUtang'
  <2> SUFFICES ASSUME NEW t \in Kasir, NEW u \in Kasir, t # u, bayaran'[t].langkah = "sisa",
                      bayaran'[u].langkah = "sisa"
               PROVE  /\ bayaran'[t].id # 0 => bayaran'[t].id # bayaran'[u].id
                      /\ bayaran'[t].faktur \cap bayaran'[u].faktur = {}
    BY DEF SendiriUtang
  <2>1. CASE t = s
    BY <1>1, <2>1
  <2>2. CASE u = s
    <3>1. /\ k.id # 0 => k.id # bayaran[t].id
          /\ k.faktur \cap bayaran[t].faktur = {}
      BY <1>1, <2>2
    <3>2. QED BY <1>1, <2>2, <3>1
  <2>3. CASE t # s /\ u # s
    BY <1>1, <2>3 DEF IUtang, SendiriUtang
  <2>4. QED BY <2>1, <2>2, <2>3
<1>4. TabelUtang(utang)' /\ TerjagaUtang(utang)'
  BY DEF IUtang, TabelUtang, TerjagaUtang
<1>5. QED BY <1>1, <1>2, <1>3, <1>4 DEF IUtang

LEMMA SebelumSah == SesiUtang(utang, SebelumKerja)
BY DEF SesiUtang, SebelumKerja

LEMMA BatalKerjaAman ==
  ASSUME IUtang, NEW s \in Kasir, BatalKerja(s)
  PROVE  IUtang'
<1>1. SebelumKerja.langkah # "sisa"
  BY DEF SebelumKerja
<1>2. QED BY <1>1, SebelumSah, HanyaSesi DEF BatalKerja

LEMMA MulaiUtangAman ==
  ASSUME IUtang, NEW s \in Kasir, NEW aksi, NEW id, NEW brs, NEW mau, MulaiUtang(s, aksi, id, brs, mau),
         mau \in Seq(BarisAlokasiUtang),
         IF id = 0 THEN aksi = "buat" /\ \E i \in IsianUtang : brs = BarisUtang(i)
         ELSE id \in DOMAIN utang /\ aksi \in AksiLama
  PROVE  IUtang'
<1>1. PICK k : k = [langkah |-> IF id = 0 THEN "sisa" ELSE "kunci", aksi |-> aksi, id |-> id,
                    baris |-> brs, mau |-> mau, sisa |-> mau, faktur |-> {}]
  OBVIOUS
<1>2. bayaran' = [bayaran EXCEPT ![s] = k] /\ utang' = utang
  <2>1. k = [SebelumKerja EXCEPT !.langkah = IF id = 0 THEN "sisa" ELSE "kunci", !.aksi = aksi,
                                 !.id = id, !.baris = brs, !.mau = mau, !.sisa = mau]
    <3>1. PICK l : l = IF id = 0 THEN "sisa" ELSE "kunci"
      OBVIOUS
    <3>2. PICK r : r = SebelumKerja
      OBVIOUS
    <3>3. r = [langkah |-> r.langkah, aksi |-> r.aksi, id |-> r.id, baris |-> r.baris, mau |-> r.mau,
               sisa |-> r.sisa, faktur |-> {}]
      BY <3>2 DEF SebelumKerja
    <3>4. k = [r EXCEPT !.langkah = l, !.aksi = aksi, !.id = id, !.baris = brs, !.mau = mau,
                        !.sisa = mau]
      <4>1. k = [langkah |-> l, aksi |-> aksi, id |-> id, baris |-> brs, mau |-> mau, sisa |-> mau,
                 faktur |-> {}]
        BY <1>1, <3>1
      <4>2. DOMAIN r = {"langkah", "aksi", "id", "baris", "mau", "sisa", "faktur"} /\ r.faktur = {}
        BY <3>3
      <4> DEFINE q == [r EXCEPT !.langkah = l, !.aksi = aksi, !.id = id, !.baris = brs, !.mau = mau,
                                !.sisa = mau]
      <4>3. q = [x \in DOMAIN r |-> q[x]]
        OBVIOUS
      <4>4. /\ q.langkah = l /\ q.aksi = aksi /\ q.id = id /\ q.baris = brs /\ q.mau = mau
            /\ q.sisa = mau /\ q.faktur = {}
        BY <4>2
      <4> HIDE DEF q
      <4>5. k = q
        BY <4>1, <4>2, <4>3, <4>4
      <4>6. QED BY <4>5 DEF q
    <3>5. QED BY <3>1, <3>2, <3>4
  <2>2. QED BY <2>1 DEF MulaiUtang
<1>3. SesiUtang(utang, k)
  BY <1>1 DEF SesiUtang
<1>4. k.langkah = "sisa" => k.id = 0 /\ k.faktur = {}
  BY <1>1
<1>5. QED BY <1>2, <1>3, <1>4, HanyaSesi

LEMMA AwalPembayaranAman ==
  ASSUME IUtang, NEW s \in Kasir,
         \/ CreateUtang(s)
         \/ \E d \in DOMAIN utang : UpdateUtang(s, d) \/ ReplaceAlokasi(s, d) \/ PindahUtang(s, d)
  PROVE  IUtang'
<1>0. <<>> \in Seq(BarisAlokasiUtang) /\ 0 \notin DOMAIN utang
  <2>1. PICK S : utang \in Seq(S)
    BY DEF IUtang, TabelUtang
  <2>2. QED BY <2>1
<1>1. CASE CreateUtang(s)
  <2>1. PICK i \in IsianUtang : MulaiUtang(s, "buat", 0, BarisUtang(i), i.alokasi)
    BY <1>1 DEF CreateUtang
  <2>2. i.alokasi \in Seq(BarisAlokasiUtang)
    BY AsumsiUtang DEF AsumsiUtang
  <2>3. QED BY <2>1, <2>2, MulaiUtangAman
<1>2. ASSUME NEW d \in DOMAIN utang, UpdateUtang(s, d) PROVE IUtang'
  <2>1. PICK n : MulaiUtang(s, "ubah", d, [jumlah |-> n], <<>>)
    BY <1>2 DEF UpdateUtang
  <2>2. "ubah" \in AksiLama
    BY DEF AksiLama
  <2>3. QED BY <1>0, <1>2, <2>1, <2>2, MulaiUtangAman
<1>3. ASSUME NEW d \in DOMAIN utang, ReplaceAlokasi(s, d) PROVE IUtang'
  <2>1. PICK q \in AlokasiUtang : MulaiUtang(s, "alokasi", d, <<>>, q)
    BY <1>3 DEF ReplaceAlokasi
  <2>2. "alokasi" \in AksiLama /\ q \in Seq(BarisAlokasiUtang)
    BY AsumsiUtang DEF AksiLama, AsumsiUtang
  <2>3. QED BY <1>0, <1>3, <2>1, <2>2, MulaiUtangAman
<1>4. ASSUME NEW d \in DOMAIN utang, PindahUtang(s, d) PROVE IUtang'
  <2>1. PICK a \in {"posting", "batal", "cair", "tolak"} : MulaiUtang(s, a, d, <<>>, <<>>)
    BY <1>4 DEF PindahUtang
  <2>2. a \in AksiLama
    BY DEF AksiLama
  <2>3. QED BY <1>0, <1>4, <2>1, <2>2, MulaiUtangAman
<1>5. QED BY <1>1, <1>2, <1>3, <1>4

LEMMA KunciUtangAman ==
  ASSUME IUtang, NEW s \in Kasir, KunciUtang(s)
  PROVE  IUtang'
<1>1. CASE BatalKerja(s)
  BY <1>1, BatalKerjaAman
<1>2. CASE ~BatalKerja(s)
  <2>1. PICK k : k = bayaran[s]
    OBVIOUS
  <2>2. PICK b : b = utang[k.id]
    OBVIOUS
  <2>3. PICK m : m = [k EXCEPT !.langkah = "sisa",
             !.baris = IF k.aksi = "ubah" THEN [b EXCEPT !.jumlah = k.baris.jumlah] ELSE b,
             !.sisa = IF k.aksi \in {"posting", "cair"} THEN b.alokasi ELSE k.mau]
    OBVIOUS
  <2>4. /\ SesiUtang(utang, k) /\ k.langkah = "kunci" /\ PemegangUtang(s, k.id) = {}
        /\ BolehUtang(k.aksi, b) /\ utang' = utang
    BY <1>2, <2>1, <2>2 DEF KunciUtang, IUtang
  <2>5. bayaran' = [bayaran EXCEPT ![s] = m]
    BY <1>2, <2>1, <2>2, <2>3 DEF KunciUtang, IUtang, SesiUtang
  <2>6. k.id # 0 /\ k.id \in DOMAIN utang /\ k.faktur = {} /\ SahUtang(b)
    BY <2>2, <2>4 DEF SesiUtang, IUtang, TabelUtang
  <2>7. m = [langkah |-> "sisa", aksi |-> k.aksi, id |-> k.id, baris |-> m.baris, mau |-> k.mau,
             sisa |-> m.sisa, faktur |-> {}]
    BY <2>3, <2>4, <2>6 DEF SesiUtang
  <2>8. /\ k.aksi # "ubah" => m.baris = b
        /\ m.sisa = IF k.aksi \in {"posting", "cair"} THEN b.alokasi ELSE k.mau
    BY <2>3, <2>4 DEF SesiUtang
  <2>9. SesiUtang(utang, m)
    <3>1. m.sisa \in Seq(BarisAlokasiUtang) /\ m.mau \in Seq(BarisAlokasiUtang)
      BY <2>4, <2>6, <2>7, <2>8 DEF SesiUtang, SahUtang
    <3>2. m.id # 0 /\ m.id \in DOMAIN utang /\ m.aksi \in AksiLama
      BY <2>4, <2>6, <2>7 DEF SesiUtang
    <3>3. BolehUtang(m.aksi, utang[m.id])
      BY <2>2, <2>4, <2>7
    <3>4. m.aksi = "alokasi" => m.baris.alokasi = utang[m.id].alokasi
      BY <2>2, <2>7, <2>8
    <3>5. m.aksi \in {"posting", "cair"} => m.sisa = utang[m.id].alokasi
      BY <2>2, <2>7, <2>8
    <3>6. m.langkah = "sisa"
      BY <2>7
    <3>7. QED BY <2>7, <3>1, <3>2, <3>3, <3>4, <3>5, <3>6 DEF SesiUtang
  <2>10. \A t \in Kasir : t # s /\ bayaran[t].langkah = "sisa" =>
           /\ m.id # 0 => m.id # bayaran[t].id
           /\ m.faktur \cap bayaran[t].faktur = {}
    BY <2>4, <2>7 DEF PemegangUtang
  <2>11. QED BY <2>4, <2>5, <2>9, <2>10, HanyaSesi
<1>3. QED BY <1>1, <1>2

LEMMA PeriksaSisaUtangAman ==
  ASSUME IUtang, NEW s \in Kasir, PeriksaSisaUtang(s)
  PROVE  IUtang'
<1>1. CASE BatalKerja(s)
  BY <1>1, BatalKerjaAman
<1>2. CASE ~BatalKerja(s)
  <2>1. PICK k : k = bayaran[s]
    OBVIOUS
  <2>2. PICK a : a = Head(k.sisa)
    OBVIOUS
  <2>3. PICK m : m = [k EXCEPT !.sisa = Tail(k.sisa), !.faktur = k.faktur \cup {a.faktur}]
    OBVIOUS
  <2>4. /\ SesiUtang(utang, k) /\ k.langkah = "sisa" /\ k.sisa # <<>> /\ utang' = utang
        /\ CukupUtang(k.baris, k.id, a)
        /\ \A t \in Kasir \ {s} : a.faktur \notin bayaran[t].faktur
    BY <1>2, <2>1, <2>2 DEF PeriksaSisaUtang, IUtang
  <2>5. bayaran' = [bayaran EXCEPT ![s] = m]
    BY <1>2, <2>1, <2>2, <2>3 DEF PeriksaSisaUtang, IUtang, SesiUtang
  <2>6. TersediaUtang(utang, k.id, a)
    BY <2>4 DEF CukupUtang, TersediaUtang
  <2>7. m = [langkah |-> "sisa", aksi |-> k.aksi, id |-> k.id, baris |-> k.baris, mau |-> k.mau,
             sisa |-> Tail(k.sisa), faktur |-> k.faktur \cup {a.faktur}]
    BY <2>3, <2>4 DEF SesiUtang
  <2>8. /\ Tail(k.sisa) \in Seq(BarisAlokasiUtang)
        /\ \A x \in ToSet(k.sisa) : x = a \/ x \in ToSet(Tail(k.sisa))
    BY <2>2, <2>4, KepalaEkor DEF SesiUtang
  <2>9. SesiUtang(utang, m)
    <3>1. ASSUME k.id # 0, k.aksi \in {"posting", "cair"}, NEW x \in ToSet(utang[k.id].alokasi)
          PROVE  x \in ToSet(m.sisa) \/ (x.faktur \in m.faktur /\ TersediaUtang(utang, k.id, x))
      <4>1. x \in ToSet(k.sisa) \/ (x.faktur \in k.faktur /\ TersediaUtang(utang, k.id, x))
        BY <2>4, <3>1 DEF SesiUtang
      <4>2. QED BY <2>6, <2>7, <2>8, <4>1
    <3>2. QED BY <2>4, <2>7, <2>8, <3>1 DEF SesiUtang
  <2>10. \A t \in Kasir : t # s /\ bayaran[t].langkah = "sisa" =>
           /\ m.id # 0 => m.id # bayaran[t].id
           /\ m.faktur \cap bayaran[t].faktur = {}
    BY <2>1, <2>4, <2>7 DEF IUtang, SendiriUtang
  <2>11. QED BY <2>4, <2>5, <2>9, <2>10, HanyaSesi
<1>3. QED BY <1>1, <1>2

\* What a draft is given: the rows of the request in the place of its own.
LEMMA TulisAlokasiBenar ==
  ASSUME NEW k, NEW b, k.mau \in Seq(BarisAlokasiUtang), k.baris.alokasi = b.alokasi
  PROVE  TulisAlokasiUtang(k, b) = [b EXCEPT !.alokasi = k.mau, !.dialokasikan = TotalUtang(k.mau)]
<1>1. PICK E : E = ToSet(b.alokasi) \ ToSet(k.baris.alokasi)
  OBVIOUS
<1>2. E = {} /\ IsFiniteSet(E)
  BY <1>1, FS_EmptySet
<1>3. SetToSeq(E) \in Seq(E)
  BY <1>2, SetToSeqBenar
<1>4. SetToSeq(E) = <<>>
  BY <1>2, <1>3
<1>5. SetToSeq(E) \o k.mau = k.mau
  BY <1>4
<1>6. QED BY <1>1, <1>5 DEF TulisAlokasiUtang

\* The row of a new payment.
LEMMA HasilBaru ==
  ASSUME NEW k, SesiUtang(utang, k), k.langkah = "sisa", k.id = 0, DiterimaUtang(k)
  PROVE  /\ SahUtang(HasilUtang(k)) /\ HasilUtang(k).status = "DRAFT"
         /\ HasilUtang(k).dialokasikan = TotalUtang(HasilUtang(k).alokasi)
<1>1. k.aksi = "buat" /\ k.mau \in Seq(BarisAlokasiUtang) /\ \E i \in IsianUtang : k.baris = BarisUtang(i)
  BY DEF SesiUtang
<1>2. PICK b : b = k.baris
  OBVIOUS
<1>3. /\ b = [supplier |-> b.supplier, giro |-> b.giro, jumlah |-> b.jumlah,
              dialokasikan |-> b.dialokasikan, status |-> b.status, alokasi |-> b.alokasi]
      /\ b.status = "DRAFT"
  BY <1>1, <1>2 DEF BarisUtang
<1>4. PICK n : n = TotalUtang(k.mau)
  OBVIOUS
<1>5. PICK h : h = [b EXCEPT !.alokasi = k.mau, !.dialokasikan = n]
  OBVIOUS
<1>6. HasilUtang(k) = h
  BY <1>1, <1>2, <1>4, <1>5, TulisAlokasiBenar DEF HasilUtang
<1>7. h = [supplier |-> b.supplier, giro |-> b.giro, jumlah |-> b.jumlah,
           dialokasikan |-> n, status |-> "DRAFT", alokasi |-> k.mau]
  BY <1>3, <1>5
<1>8. \A x, y \in DOMAIN h.alokasi : h.alokasi[x].faktur = h.alokasi[y].faktur => x = y
  BY <1>6 DEF DiterimaUtang
<1>9. QED BY <1>1, <1>4, <1>6, <1>7, <1>8 DEF SahUtang

\* The row of a payment there is: only a posting and a clearing make money
\* count, and they leave the allocations alone.
LEMMA HasilLama ==
  ASSUME NEW k, SesiUtang(utang, k), TabelUtang(utang), TerjagaUtang(utang), k.langkah = "sisa",
         k.id # 0, DiterimaUtang(k)
  PROVE  /\ SahUtang(HasilUtang(k))
         /\ HasilUtang(k).dialokasikan = TotalUtang(HasilUtang(k).alokasi)
         /\ k.aksi \in {"posting", "cair"} => HasilUtang(k).alokasi = utang[k.id].alokasi
         /\ k.aksi \notin {"posting", "cair"} => \A f : GunaUtang(HasilUtang(k), f) = 0
<1>1. PICK b : b = utang[k.id]
  OBVIOUS
<1>2. PICK h : h = HasilUtang(k)
  OBVIOUS
<1>3. SahUtang(b) /\ b.dialokasikan = TotalUtang(b.alokasi) /\ BolehUtang(k.aksi, b) /\ k.aksi \in AksiLama
  BY <1>1 DEF SesiUtang, TabelUtang, TerjagaUtang
<1>4. \A x, y \in DOMAIN h.alokasi : h.alokasi[x].faktur = h.alokasi[y].faktur => x = y
  BY <1>2 DEF DiterimaUtang
<1> DEFINE Rek(st, gr, jm) ==
      [supplier |-> b.supplier, giro |-> gr, jumlah |-> jm, dialokasikan |-> b.dialokasikan,
       status |-> st, alokasi |-> b.alokasi]
<1>5. ASSUME NEW st, NEW gr, NEW jm, h = Rek(st, gr, jm)
      PROVE  /\ SahUtang(h) /\ h.dialokasikan = TotalUtang(h.alokasi) /\ h.alokasi = b.alokasi
             /\ h.status = st /\ h.giro = gr
  BY <1>3, <1>5 DEF SahUtang
<1>6. b = Rek(b.status, b.giro, b.jumlah)
  BY <1>3 DEF SahUtang
<1>7. CASE k.aksi = "ubah"
  <2>1. h = [b EXCEPT !.jumlah = k.baris.jumlah]
    BY <1>1, <1>2, <1>7 DEF HasilUtang
  <2>2. h = Rek(b.status, b.giro, k.baris.jumlah)
    BY <1>6, <2>1
  <2>3. b.status = "DRAFT"
    BY <1>3, <1>7 DEF BolehUtang
  <2> HIDE DEF Rek
  <2>4. SahUtang(h) /\ h.dialokasikan = TotalUtang(h.alokasi) /\ h.status = "DRAFT"
    BY <1>5, <2>2, <2>3
  <2>5. QED BY <1>2, <1>7, <2>4, GunaUtangBenar
<1>8. CASE k.aksi = "alokasi"
  <2>1. PICK n : n = TotalUtang(k.mau)
    OBVIOUS
  <2>2. k.mau \in Seq(BarisAlokasiUtang) /\ k.baris.alokasi = b.alokasi /\ b.status = "DRAFT"
    BY <1>1, <1>3, <1>8 DEF SesiUtang, BolehUtang
  <2>3. h = [b EXCEPT !.alokasi = k.mau, !.dialokasikan = n]
    <3>1. h = TulisAlokasiUtang(k, b)
      BY <1>1, <1>2, <1>8 DEF HasilUtang
    <3>2. QED BY <2>1, <2>2, <3>1, TulisAlokasiBenar
  <2>4. h = [supplier |-> b.supplier, giro |-> b.giro, jumlah |-> b.jumlah,
             dialokasikan |-> n, status |-> "DRAFT", alokasi |-> k.mau]
    BY <1>6, <2>2, <2>3
  <2>5. SahUtang(h) /\ h.dialokasikan = TotalUtang(h.alokasi) /\ h.status = "DRAFT"
    BY <1>4, <2>1, <2>2, <2>4 DEF SahUtang
  <2>6. QED BY <1>2, <1>8, <2>5, GunaUtangBenar
<1>9. CASE k.aksi = "posting"
  <2>1. h = [b EXCEPT !.status = "POSTED"]
    BY <1>1, <1>2, <1>9 DEF HasilUtang
  <2>2. h = Rek("POSTED", b.giro, b.jumlah)
    BY <1>6, <2>1
  <2> HIDE DEF Rek
  <2>3. SahUtang(h) /\ h.dialokasikan = TotalUtang(h.alokasi) /\ h.alokasi = b.alokasi
    BY <1>5, <2>2
  <2>4. QED BY <1>1, <1>2, <1>9, <2>3
<1>10. CASE k.aksi = "batal"
  <2>1. h = [b EXCEPT !.status = "BATAL"]
    BY <1>1, <1>2, <1>10 DEF HasilUtang
  <2>2. h = Rek("BATAL", b.giro, b.jumlah)
    BY <1>6, <2>1
  <2> HIDE DEF Rek
  <2>3. SahUtang(h) /\ h.dialokasikan = TotalUtang(h.alokasi) /\ h.status = "BATAL"
    BY <1>5, <2>2
  <2>4. QED BY <1>2, <1>10, <2>3, GunaUtangBenar
<1>11. CASE k.aksi = "cair"
  <2>1. h = [b EXCEPT !.giro = "CAIR"]
    BY <1>1, <1>2, <1>11 DEF HasilUtang
  <2>2. h = Rek(b.status, "CAIR", b.jumlah)
    BY <1>6, <2>1
  <2> HIDE DEF Rek
  <2>3. SahUtang(h) /\ h.dialokasikan = TotalUtang(h.alokasi) /\ h.alokasi = b.alokasi
    BY <1>5, <2>2
  <2>4. QED BY <1>1, <1>2, <1>11, <2>3
<1>12. CASE k.aksi = "tolak"
  <2>1. h = [b EXCEPT !.giro = "TOLAK"]
    BY <1>1, <1>2, <1>12 DEF HasilUtang
  <2>2. h = Rek(b.status, "TOLAK", b.jumlah)
    BY <1>6, <2>1
  <2> HIDE DEF Rek
  <2>3. SahUtang(h) /\ h.dialokasikan = TotalUtang(h.alokasi) /\ h.giro = "TOLAK"
    BY <1>5, <2>2
  <2>4. QED BY <1>2, <1>12, <2>3, GunaUtangBenar
<1>13. QED BY <1>3, <1>7, <1>8, <1>9, <1>10, <1>11, <1>12 DEF AksiLama

\* The end of a session that has written: its own row, and no other, and
\* nothing that the others have asked for gets less.
LEMMA TulisTetap ==
  ASSUME IUtang, NEW s \in Kasir, bayaran' = [bayaran EXCEPT ![s] = SebelumKerja],
         TabelUtang(utang'), TerjagaUtang(utang'), DOMAIN utang \subseteq DOMAIN utang',
         \A t \in Kasir : t # s /\ bayaran[t].id # 0 /\ bayaran[t].langkah = "sisa" =>
           /\ utang'[bayaran[t].id] = utang[bayaran[t].id]
           /\ \A f \in bayaran[t].faktur :
                TerpakaiUtang(utang', f, bayaran[t].id) <= TerpakaiUtang(utang, f, bayaran[t].id)
  PROVE  IUtang'
<1>1. PICK V : V = utang'
  OBVIOUS
<1>2. /\ bayaran'[s] = SebelumKerja /\ \A t \in Kasir : t # s => bayaran'[t] = bayaran[t]
      /\ bayaran' = [t \in Kasir |-> bayaran'[t]]
  BY DEF IUtang
<1>3. SesiUtang(V, SebelumKerja)
  BY DEF SesiUtang, SebelumKerja
<1>4. ASSUME NEW t \in Kasir PROVE SesiUtang(V, bayaran'[t])
  <2>1. CASE t = s
    BY <1>2, <1>3, <2>1
  <2>2. CASE t # s
    <3>1. PICK k : k = bayaran[t]
      OBVIOUS
    <3>2. SesiUtang(utang, k) /\ TabelUtang(utang) /\ TabelUtang(V)
      BY <1>1, <3>1 DEF IUtang
    <3>3. k.id # 0 => k.id \in DOMAIN V
      BY <1>1, <3>2 DEF SesiUtang
    <3>4. k.id # 0 /\ k.langkah = "sisa" =>
            /\ V[k.id] = utang[k.id]
            /\ \A f \in k.faktur : TerpakaiUtang(V, f, k.id) <= TerpakaiUtang(utang, f, k.id)
      BY <1>1, <2>2, <3>1
    <3>5. SesiUtang(V, k)
      BY <3>2, <3>3, <3>4, SesiTetap
    <3>6. QED BY <1>2, <2>2, <3>1, <3>5
  <2>3. QED BY <2>1, <2>2
<1>5. SebelumKerja.langkah # "sisa"
  BY DEF SebelumKerja
<1>6. SendiriUtang'
  BY <1>2, <1>5 DEF IUtang, SendiriUtang
<1>7. QED BY <1>1, <1>2, <1>4, <1>6 DEF IUtang

LEMMA TulisBaru ==
  ASSUME IUtang, NEW s \in Kasir, TulisUtang(s), ~BatalKerja(s), bayaran[s].id = 0
  PROVE  IUtang'
<1>1. PICK k : k = bayaran[s]
  OBVIOUS
<1>2. PICK h : h = HasilUtang(k)
  OBVIOUS
<1>3. PICK U : U = utang
  OBVIOUS
<1>4. PICK V : V = Append(U, h)
  OBVIOUS
<1>5. /\ SesiUtang(U, k) /\ k.langkah = "sisa" /\ DiterimaUtang(k) /\ utang' = V
      /\ bayaran' = [bayaran EXCEPT ![s] = SebelumKerja] /\ TabelUtang(U) /\ TerjagaUtang(U)
  BY <1>1, <1>2, <1>3, <1>4 DEF TulisUtang, IUtang
<1>6. SahUtang(h) /\ h.status = "DRAFT" /\ h.dialokasikan = TotalUtang(h.alokasi)
  BY <1>1, <1>2, <1>3, <1>5, HasilBaru
<1>7. \A f : GunaUtang(h, f) = 0
  BY <1>6, GunaUtangBenar
<1>8. PICK S : U \in Seq(S)
  BY <1>5 DEF TabelUtang
<1>9. PICK n : n = Len(U) + 1
  OBVIOUS
<1>10. /\ V \in Seq(S \cup {h}) /\ DOMAIN U = 1..Len(U) /\ Len(U) \in Nat
       /\ DOMAIN V = DOMAIN U \cup {n} /\ n \notin DOMAIN U /\ n # 0
       /\ V[n] = h /\ \A e \in DOMAIN U : V[e] = U[e]
  BY <1>4, <1>8, <1>9
<1>11. TabelUtang(V)
  BY <1>5, <1>6, <1>10 DEF TabelUtang
<1>12. \A f, d : d # n => TerpakaiUtang(V, f, d) = TerpakaiUtang(U, f, d)
  BY <1>4, <1>5, <1>7, <1>9, <1>11, TerpakaiTambah
<1>13. TerjagaUtang(V)
  <2>1. \A d \in DOMAIN V : V[d].dialokasikan = TotalUtang(V[d].alokasi)
    BY <1>5, <1>6, <1>10 DEF TerjagaUtang
  <2>2. \A f : TerpakaiUtang(V, f, 0) = TerpakaiUtang(U, f, 0)
    BY <1>10, <1>12
  <2>3. QED BY <1>5, <2>1, <2>2 DEF TerjagaUtang
<1>14. ASSUME NEW t \in Kasir, t # s, bayaran[t].id # 0, bayaran[t].langkah = "sisa"
       PROVE  /\ V[bayaran[t].id] = U[bayaran[t].id]
              /\ \A f \in bayaran[t].faktur :
                   TerpakaiUtang(V, f, bayaran[t].id) <= TerpakaiUtang(U, f, bayaran[t].id)
  <2>1. PICK d : d = bayaran[t].id
    OBVIOUS
  <2>2. d \in DOMAIN U
    BY <1>3, <1>14, <2>1 DEF IUtang, SesiUtang
  <2>3. \A f : TerpakaiUtang(V, f, d) = TerpakaiUtang(U, f, d) /\ TerpakaiUtang(U, f, d) \in Nat
    BY <1>5, <1>10, <1>12, <2>2, TerpakaiBenar
  <2>4. \A f : TerpakaiUtang(V, f, d) <= TerpakaiUtang(U, f, d)
    BY <2>3
  <2>5. QED BY <1>10, <2>1, <2>2, <2>4
<1>15. DOMAIN U \subseteq DOMAIN V
  BY <1>10
<1>16. QED BY <1>3, <1>5, <1>11, <1>13, <1>14, <1>15, TulisTetap

LEMMA TulisLama ==
  ASSUME IUtang, NEW s \in Kasir, TulisUtang(s), ~BatalKerja(s), bayaran[s].id # 0
  PROVE  IUtang'
<1>1. PICK k : k = bayaran[s]
  OBVIOUS
<1>2. PICK h : h = HasilUtang(k)
  OBVIOUS
<1>3. PICK U : U = utang
  OBVIOUS
<1>4. PICK d : d = k.id
  OBVIOUS
<1>5. PICK V : V = [U EXCEPT ![d] = h]
  OBVIOUS
<1>6. /\ SesiUtang(U, k) /\ k.langkah = "sisa" /\ k.sisa = <<>> /\ DiterimaUtang(k) /\ utang' = V
      /\ bayaran' = [bayaran EXCEPT ![s] = SebelumKerja] /\ TabelUtang(U) /\ TerjagaUtang(U)
      /\ d # 0 /\ d \in DOMAIN U
  BY <1>1, <1>2, <1>3, <1>4, <1>5 DEF TulisUtang, IUtang, SesiUtang
<1>7. /\ SahUtang(h) /\ h.dialokasikan = TotalUtang(h.alokasi)
      /\ k.aksi \in {"posting", "cair"} => h.alokasi = U[d].alokasi
      /\ k.aksi \notin {"posting", "cair"} => \A f : GunaUtang(h, f) = 0
  BY <1>1, <1>2, <1>3, <1>4, <1>6, HasilLama
<1>8. PICK S : U \in Seq(S)
  BY <1>6 DEF TabelUtang
<1>9. /\ V \in Seq(S \cup {h}) /\ DOMAIN V = DOMAIN U /\ V[d] = h
      /\ \A e \in DOMAIN U : e # d => V[e] = U[e]
  <2>1. U \in Seq(S \cup {h}) /\ h \in S \cup {h} /\ d \in 1..Len(U)
    BY <1>6, <1>8
  <2>2. V \in Seq(S \cup {h})
    BY <1>5, <2>1
  <2>3. QED BY <1>5, <1>6, <2>2
<1>10. TabelUtang(V)
  BY <1>6, <1>7, <1>9 DEF TabelUtang
<1>11. \A f : TerpakaiUtang(V, f, d) <= TerpakaiUtang(U, f, d)
  <2> SUFFICES ASSUME NEW f PROVE TerpakaiUtang(V, f, d) <= TerpakaiUtang(U, f, d)
    OBVIOUS
  <2>1. \A e \in DOMAIN U \ {d} : V[e] = U[e] /\ GunaUtang(U[e], f) \in Nat
    BY <1>6, <1>9, TerpakaiBenar
  <2>2. \A e \in DOMAIN U \ {d} : GunaUtang(V[e], f) <= GunaUtang(U[e], f)
    BY <2>1
  <2>3. QED BY <1>6, <1>9, <1>10, <2>2, TerpakaiTurun
\* What is taken now was asked for, and its invoice locked.
<1>12. ASSUME NEW f
       PROVE  \/ GunaUtang(h, f) = 0
              \/ /\ f \in DOMAIN FakturUtang /\ f \in k.faktur
                 /\ GunaUtang(h, f) <= FakturUtang[f].total - TerpakaiUtang(U, f, d) - FakturUtang[f].kredit
  <2> SUFFICES ASSUME GunaUtang(h, f) # 0
               PROVE  /\ f \in DOMAIN FakturUtang /\ f \in k.faktur
                      /\ GunaUtang(h, f) <=
                           FakturUtang[f].total - TerpakaiUtang(U, f, d) - FakturUtang[f].kredit
    OBVIOUS
  <2>1. k.aksi \in {"posting", "cair"} /\ h.alokasi = U[d].alokasi
    BY <1>7
  <2>2. PICK a \in ToSet(h.alokasi) : a.faktur = f
    BY <1>7, GunaUtangBenar
  <2>3. a \in BarisAlokasiUtang
    BY <1>7, ToSetTerhingga DEF SahUtang
  <2>4. a \notin ToSet(k.sisa)
    BY <1>6 DEF ToSet
  <2>5. a.faktur \in k.faktur /\ TersediaUtang(U, d, a)
    BY <1>4, <1>6, <2>1, <2>2, <2>4 DEF SesiUtang
  <2>6. GunaUtang(h, f) <= a.jumlah /\ GunaUtang(h, f) \in Nat /\ a.jumlah \in Nat
    BY <1>7, <2>2, <2>3, GunaUtangBenar DEF BarisAlokasiUtang
  <2>7. f \in DOMAIN FakturUtang /\ FakturUtang[f].total \in Nat /\ FakturUtang[f].kredit \in Nat
    BY <2>2, <2>3, AsumsiUtang DEF BarisAlokasiUtang, AsumsiUtang
  <2>8. a.jumlah <= FakturUtang[f].total - TerpakaiUtang(U, f, d) - FakturUtang[f].kredit
    BY <2>2, <2>5 DEF TersediaUtang
  <2>9. TerpakaiUtang(U, f, d) \in Nat
    BY <1>6, TerpakaiBenar
  <2>10. QED BY <2>2, <2>5, <2>6, <2>7, <2>8, <2>9
<1>13. TerjagaUtang(V)
  <2>1. \A e \in DOMAIN V : V[e].dialokasikan = TotalUtang(V[e].alokasi)
    BY <1>6, <1>7, <1>9 DEF TerjagaUtang
  <2>2. ASSUME NEW f \in DOMAIN FakturUtang
        PROVE  TerpakaiUtang(V, f, 0) + FakturUtang[f].kredit <= FakturUtang[f].total
    <3>1. /\ TerpakaiUtang(V, f, 0) = GunaUtang(h, f) + TerpakaiUtang(V, f, d)
          /\ TerpakaiUtang(U, f, 0) = GunaUtang(U[d], f) + TerpakaiUtang(U, f, d)
      BY <1>6, <1>9, <1>10, TerpakaiPisah
    <3>2. /\ TerpakaiUtang(V, f, 0) \in Nat /\ TerpakaiUtang(V, f, d) \in Nat
          /\ TerpakaiUtang(U, f, 0) \in Nat /\ TerpakaiUtang(U, f, d) \in Nat
          /\ GunaUtang(U[d], f) \in Nat
      BY <1>6, <1>10, TerpakaiBenar
    <3>3. GunaUtang(h, f) \in Nat
      BY <1>7, GunaUtangBenar
    <3>4. FakturUtang[f].total \in Nat /\ FakturUtang[f].kredit \in Nat
      BY AsumsiUtang DEF AsumsiUtang
    <3>5. TerpakaiUtang(U, f, 0) + FakturUtang[f].kredit <= FakturUtang[f].total
      BY <1>6 DEF TerjagaUtang
    <3>6. TerpakaiUtang(V, f, d) <= TerpakaiUtang(U, f, d)
      BY <1>11
    <3>7. GunaUtang(h, f) = 0
          \/ GunaUtang(h, f) <= FakturUtang[f].total - TerpakaiUtang(U, f, d) - FakturUtang[f].kredit
      BY <1>12
    <3>8. QED BY <3>1, <3>2, <3>3, <3>4, <3>5, <3>6, <3>7
  <2>3. QED BY <2>1, <2>2 DEF TerjagaUtang
<1>14. ASSUME NEW t \in Kasir, t # s, bayaran[t].id # 0, bayaran[t].langkah = "sisa"
       PROVE  /\ V[bayaran[t].id] = U[bayaran[t].id]
              /\ \A f \in bayaran[t].faktur :
                   TerpakaiUtang(V, f, bayaran[t].id) <= TerpakaiUtang(U, f, bayaran[t].id)
  <2>1. PICK e : e = bayaran[t].id
    OBVIOUS
  <2>2. e \in DOMAIN U /\ e # d /\ bayaran[t].faktur \cap k.faktur = {}
    BY <1>1, <1>3, <1>4, <1>6, <1>14, <2>1 DEF IUtang, SesiUtang, SendiriUtang
  <2>3. ASSUME NEW f \in bayaran[t].faktur
        PROVE  TerpakaiUtang(V, f, e) <= TerpakaiUtang(U, f, e)
    <3>1. GunaUtang(h, f) = 0
      BY <1>12, <2>2
    <3>2. \A x \in DOMAIN U : GunaUtang(U[x], f) \in Nat
      BY <1>6, TerpakaiBenar
    <3>3. \A x \in DOMAIN U \ {e} : GunaUtang(V[x], f) <= GunaUtang(U[x], f)
      <4>1. ASSUME NEW x \in DOMAIN U PROVE GunaUtang(V[x], f) <= GunaUtang(U[x], f)
        <5>1. CASE x = d
          BY <1>9, <3>1, <3>2, <5>1
        <5>2. CASE x # d
          BY <1>9, <3>2, <5>2
        <5>3. QED BY <5>1, <5>2
      <4>2. QED BY <4>1
    <3>4. QED BY <1>6, <1>9, <1>10, <3>3, TerpakaiTurun
  <2>4. QED BY <1>9, <2>1, <2>2, <2>3
<1>15. QED BY <1>3, <1>6, <1>9, <1>10, <1>13, <1>14, TulisTetap

LEMMA UtangAwalBenar == InitUtang => IUtang
<1> SUFFICES ASSUME InitUtang PROVE IUtang
  OBVIOUS
<1>1. TabelUtang(utang) /\ TerjagaUtang(utang)
  BY RiwayatUtang DEF RiwayatUtang, InitUtang, TabelUtang
<1>2. /\ bayaran = [s \in Kasir |-> bayaran[s]]
      /\ \A s \in Kasir : SesiUtang(utang, bayaran[s]) /\ bayaran[s].langkah # "sisa"
  BY SebelumSah DEF InitUtang, SebelumKerja
<1>3. QED BY <1>1, <1>2 DEF IUtang, SendiriUtang

LEMMA UtangInduktif == IUtang /\ [NextUtang]_varsUtang => IUtang'
<1> SUFFICES ASSUME IUtang, [NextUtang]_varsUtang PROVE IUtang'
  OBVIOUS
<1>1. ASSUME NEW s \in Kasir, CreateUtang(s) PROVE IUtang'
  BY <1>1, AwalPembayaranAman
<1>2. ASSUME NEW s \in Kasir, NEW d \in DOMAIN utang,
             UpdateUtang(s, d) \/ ReplaceAlokasi(s, d) \/ PindahUtang(s, d)
      PROVE  IUtang'
  BY <1>2, AwalPembayaranAman
<1>3. ASSUME NEW s \in Kasir, KunciUtang(s) \/ PeriksaSisaUtang(s) PROVE IUtang'
  BY <1>3, KunciUtangAman, PeriksaSisaUtangAman
<1>4. ASSUME NEW s \in Kasir, TulisUtang(s) PROVE IUtang'
  BY <1>4, BatalKerjaAman, TulisBaru, TulisLama
<1>5. ASSUME NEW s \in Kasir, PutusUtang(s) PROVE IUtang'
  BY <1>5, BatalKerjaAman DEF PutusUtang
<1>6. CASE UNCHANGED varsUtang
  <2>1. utang' = utang /\ bayaran' = bayaran
    BY <1>6 DEF varsUtang
  <2>2. QED BY <2>1 DEF IUtang, SendiriUtang, TabelUtang, TerjagaUtang, SesiUtang, TersediaUtang
<1>7. QED BY <1>1, <1>2, <1>3, <1>4, <1>5, <1>6 DEF NextUtang

\* For any invoices, any payments and any number of requests at once:
\* jumlah_dialokasikan is the sum of a payment's rows, and the payments that
\* count never take more of an invoice than its returns leave
\* (pembayaran_utang_usecase.go, periksaSisaUtang and tulisAlokasi).
THEOREM AlokasiUtangSelaluTerjaga == SpecUtang => []AlokasiUtangTerjaga
<1>1. IUtang => AlokasiUtangTerjaga
  BY DEF IUtang, AlokasiUtangTerjaga
<1>2. QED BY <1>1, UtangAwalBenar, UtangInduktif, PTL DEF SpecUtang

\* What was allocated adds up to a number.
LEMMA TotalUtangAlami ==
  ASSUME NEW a \in Seq(BarisAlokasiUtang)
  PROVE  TotalUtang(a) \in Nat
<1> DEFINE S == DOMAIN a
<1> DEFINE f == [i \in S |-> a[i].jumlah]
<1> DEFINE G == CHOOSE G : G = [s \in SUBSET S |-> IF s = {} THEN 0
                   ELSE a[CHOOSE x \in s : TRUE].jumlah + G[s \ {CHOOSE x \in s : TRUE}]]
<1>0. /\ IsFiniteSet(S) /\ \A i \in S : f[i] \in Nat
  <2>1. S = 1..Len(a) /\ Len(a) \in Nat /\ \A i \in S : a[i] \in BarisAlokasiUtang
    OBVIOUS
  <2>2. QED BY <2>1, FS_Interval DEF BarisAlokasiUtang
<1>1. PICK F : Menjumlah(F, f, SUBSET S)
  BY <1>0, PenjumlahAda
<1>2. \A s \in SUBSET S : s # {} => f[Ambil(s)] = a[CHOOSE x \in s : TRUE].jumlah
  BY DEF Ambil
<1>3. F = [s \in SUBSET S |-> IF s = {} THEN 0
             ELSE a[CHOOSE x \in s : TRUE].jumlah + F[s \ {CHOOSE x \in s : TRUE}]]
  BY <1>1, <1>2 DEF Ambil, Menjumlah
<1>4. G = [s \in SUBSET S |-> IF s = {} THEN 0
             ELSE a[CHOOSE x \in s : TRUE].jumlah + G[s \ {CHOOSE x \in s : TRUE}]]
  BY <1>3
<1>5. TotalUtang(a) = G[S]
  BY DEF TotalUtang, FoldSeq, FoldFunction, FoldFunctionOnSet, MapThenFoldSet
<1> HIDE DEF G, f
<1>6. Menjumlah(G, f, SUBSET S)
  BY ZenonT(30), <1>4, <1>2 DEF Menjumlah, Ambil
<1>7. Jml(f, S) = G[S]
  BY <1>0, <1>6, JmlAdalah
<1>8. QED BY <1>0, <1>5, <1>7, JmlAlami

\* The rows of every payment, and the payments that are being made.
Pembuat == {t \in Kasir : bayaran[t].aksi = "buat"}

TipeUtang ==
  /\ \A d \in DOMAIN utang : KolomUtang(utang[d])
  /\ \A s \in Kasir : bayaran[s].aksi = "ubah" => bayaran[s].baris.jumlah \in Nat \ {0}
  /\ jumlahKerja \in 0..MaksKerja
  /\ Len(utang) + Cardinality(Pembuat) <= MaksUtang

LEMMA PembuatHingga == ASSUME IUtang PROVE IsFiniteSet(Pembuat) /\ Len(utang) \in Nat /\ MaksUtang \in Nat
<1>1. IsFiniteSet(Kasir) /\ MaksUtang \in Nat
  BY AsumsiUtang
<1>2. Pembuat \in SUBSET Kasir
  BY DEF Pembuat
<1>3. Len(utang) \in Nat
  <2>1. PICK S : utang \in Seq(S)
    BY DEF IUtang, TabelUtang
  <2>2. QED BY <2>1
<1>4. QED BY <1>1, <1>2, <1>3, FS_Subset

\* A session that ends, or goes on without being one that makes a payment.
LEMMA SesiTipe ==
  ASSUME IUtang, TipeUtang, NEW s \in Kasir, NEW k, bayaran' = [bayaran EXCEPT ![s] = k],
         k.aksi = "buat" => bayaran[s].aksi = "buat",
         k.aksi = "ubah" => k.baris.jumlah \in Nat \ {0},
         utang' = utang, jumlahKerja' \in 0..MaksKerja
  PROVE  TipeUtang'
<1>1. bayaran'[s] = k /\ \A t \in Kasir : t # s => bayaran'[t] = bayaran[t]
  BY DEF IUtang
<1>2. PICK P : P = Pembuat'
  OBVIOUS
<1>3. P \in SUBSET Pembuat
  BY <1>1, <1>2 DEF Pembuat
<1>4. /\ IsFiniteSet(Pembuat) /\ IsFiniteSet(P) /\ Cardinality(P) <= Cardinality(Pembuat)
      /\ Cardinality(P) \in Nat /\ Cardinality(Pembuat) \in Nat
  BY <1>3, PembuatHingga, FS_Subset, FS_CardinalityType
<1>5. Len(utang) + Cardinality(P) <= MaksUtang
  BY <1>4, PembuatHingga DEF TipeUtang
<1>6. QED BY <1>1, <1>2, <1>5 DEF TipeUtang

LEMMA BatalTipe == ASSUME IUtang, TipeUtang, NEW s \in Kasir, BatalKerja(s) PROVE TipeUtang'
<1>1. SebelumKerja.aksi = "tiada"
  BY DEF SebelumKerja
<1>2. jumlahKerja' \in 0..MaksKerja
  BY DEF BatalKerja, TipeUtang
<1>3. QED BY <1>1, <1>2, SesiTipe DEF BatalKerja

LEMMA MulaiBayaran ==
  ASSUME NEW s, NEW aksi, NEW id, NEW brs, NEW mau, MulaiUtang(s, aksi, id, brs, mau)
  PROVE  \E k : bayaran' = [bayaran EXCEPT ![s] = k] /\ k.aksi = aksi /\ k.baris = brs
<1>1. PICK k : k = [SebelumKerja EXCEPT !.langkah = IF id = 0 THEN "sisa" ELSE "kunci", !.aksi = aksi,
                                 !.id = id, !.baris = brs, !.mau = mau, !.sisa = mau]
  OBVIOUS
<1>2. k.aksi = aksi /\ k.baris = brs
  <2>1. PICK l : l = IF id = 0 THEN "sisa" ELSE "kunci"
    OBVIOUS
  <2>2. PICK r : r = SebelumKerja
    OBVIOUS
  <2>3. DOMAIN r = {"langkah", "aksi", "id", "baris", "mau", "sisa", "faktur"}
    BY <2>2 DEF SebelumKerja
  <2>4. k = [r EXCEPT !.langkah = l, !.aksi = aksi, !.id = id, !.baris = brs, !.mau = mau, !.sisa = mau]
    BY <1>1, <2>1, <2>2
  <2>5. QED BY <2>3, <2>4
<1>3. bayaran' = [bayaran EXCEPT ![s] = k]
  BY <1>1 DEF MulaiUtang
<1>4. QED BY <1>2, <1>3

LEMMA MulaiTipe ==
  ASSUME IUtang, TipeUtang, NEW s \in Kasir, NEW aksi, NEW id, NEW brs, NEW mau,
         MulaiUtang(s, aksi, id, brs, mau), aksi # "buat",
         aksi = "ubah" => brs.jumlah \in Nat \ {0}
  PROVE  TipeUtang'
<1>1. PICK k : bayaran' = [bayaran EXCEPT ![s] = k] /\ k.aksi = aksi /\ k.baris = brs
  BY MulaiBayaran
<1>2. jumlahKerja' \in 0..MaksKerja /\ utang' = utang
  <2>1. jumlahKerja < MaksKerja /\ jumlahKerja' = jumlahKerja + 1 /\ utang' = utang
    BY DEF MulaiUtang
  <2>2. jumlahKerja \in 0..MaksKerja /\ MaksKerja \in Nat
    BY AsumsiUtang DEF TipeUtang
  <2>3. QED BY <2>1, <2>2
<1>3. QED BY <1>1, <1>2, SesiTipe

LEMMA CreateTipe == ASSUME IUtang, TipeUtang, NEW s \in Kasir, CreateUtang(s) PROVE TipeUtang'
<1>1. PICK i \in IsianUtang : /\ Len(utang) + Cardinality(Pembuat) < MaksUtang
                              /\ MulaiUtang(s, "buat", 0, BarisUtang(i), i.alokasi)
  BY DEF CreateUtang, Pembuat
<1>2. PICK k : bayaran' = [bayaran EXCEPT ![s] = k] /\ k.aksi = "buat"
  BY <1>1, MulaiBayaran
<1>3. bayaran'[s] = k /\ \A t \in Kasir : t # s => bayaran'[t] = bayaran[t]
  BY <1>2 DEF IUtang
<1>4. /\ bayaran[s] = SebelumKerja /\ utang' = utang
      /\ jumlahKerja < MaksKerja /\ jumlahKerja' = jumlahKerja + 1
  BY <1>1 DEF MulaiUtang
<1>5. jumlahKerja' \in 0..MaksKerja
  BY <1>4, AsumsiUtang DEF TipeUtang
<1>6. PICK P : P = Pembuat'
  OBVIOUS
<1>7. P = Pembuat \cup {s} /\ s \notin Pembuat
  BY <1>2, <1>3, <1>4, <1>6 DEF Pembuat, SebelumKerja
<1>8. Cardinality(P) = Cardinality(Pembuat) + 1 /\ Cardinality(Pembuat) \in Nat
  BY <1>7, PembuatHingga, FS_AddElement, FS_CardinalityType
<1>9. Len(utang) + Cardinality(P) <= MaksUtang
  BY <1>1, <1>8, PembuatHingga
<1>10. \A t \in Kasir : bayaran'[t].aksi = "ubah" => bayaran'[t].baris.jumlah \in Nat \ {0}
  BY <1>2, <1>3 DEF TipeUtang
<1>11. QED BY <1>4, <1>5, <1>6, <1>9, <1>10 DEF TipeUtang

LEMMA KunciTipe == ASSUME IUtang, TipeUtang, NEW s \in Kasir, KunciUtang(s) PROVE TipeUtang'
<1>1. CASE BatalKerja(s)
  BY <1>1, BatalTipe
<1>2. CASE ~BatalKerja(s)
  <2>1. PICK k : k = bayaran[s]
    OBVIOUS
  <2>2. PICK b : b = utang[k.id]
    OBVIOUS
  <2>3. PICK r : r = IF k.aksi = "ubah" THEN [b EXCEPT !.jumlah = k.baris.jumlah] ELSE b
    OBVIOUS
  <2>4. PICK q : q = IF k.aksi \in {"posting", "cair"} THEN b.alokasi ELSE k.mau
    OBVIOUS
  <2>5. PICK m : m = [k EXCEPT !.langkah = "sisa", !.baris = r, !.sisa = q]
    OBVIOUS
  <2>6. /\ bayaran' = [bayaran EXCEPT ![s].langkah = "sisa", ![s].baris = r, ![s].sisa = q]
        /\ UNCHANGED <<utang, jumlahKerja>> /\ k.langkah = "kunci"
    BY <1>2, <2>1, <2>2, <2>3, <2>4, Zenon DEF KunciUtang
  <2>7. bayaran' = [bayaran EXCEPT ![s] = m]
    BY <2>1, <2>5, <2>6 DEF IUtang
  <2>8. /\ SesiUtang(utang, k) /\ k.id # 0 /\ k.id \in DOMAIN utang /\ SahUtang(b)
    <3>1. SesiUtang(utang, k)
      BY <2>1 DEF IUtang
    <3>2. k.id # 0 /\ k.id \in DOMAIN utang
      BY <2>6, <3>1 DEF SesiUtang
    <3>3. QED BY <2>2, <3>1, <3>2 DEF IUtang, TabelUtang
  <2>9. k.aksi = "ubah" => r.jumlah \in Nat \ {0}
    <3>1. k.aksi = "ubah" => k.baris.jumlah \in Nat \ {0}
      BY <2>1 DEF TipeUtang
    <3>2. QED BY <2>3, <2>8, <3>1 DEF SahUtang
  <2>10. m.aksi = k.aksi /\ m.baris = r
    BY <2>5, <2>8 DEF SesiUtang
  <2>11. jumlahKerja' \in 0..MaksKerja /\ utang' = utang
    BY <2>6 DEF TipeUtang
  <2>12. QED BY <2>1, <2>7, <2>9, <2>10, <2>11, SesiTipe
<1>3. QED BY <1>1, <1>2

LEMMA PeriksaTipe == ASSUME IUtang, TipeUtang, NEW s \in Kasir, PeriksaSisaUtang(s) PROVE TipeUtang'
<1>1. CASE BatalKerja(s)
  BY <1>1, BatalTipe
<1>2. CASE ~BatalKerja(s)
  <2>1. PICK k : k = bayaran[s]
    OBVIOUS
  <2>2. PICK m : m = [k EXCEPT !.sisa = Tail(k.sisa), !.faktur = k.faktur \cup {Head(k.sisa).faktur}]
    OBVIOUS
  <2>3. bayaran' = [bayaran EXCEPT ![s] = m] /\ UNCHANGED <<utang, jumlahKerja>>
    BY <1>2, <2>1, <2>2 DEF PeriksaSisaUtang, IUtang
  <2>4. SesiUtang(utang, k)
    BY <2>1 DEF IUtang
  <2>5. m.aksi = k.aksi /\ m.baris = k.baris
    BY <2>2, <2>4 DEF SesiUtang
  <2>6. jumlahKerja' \in 0..MaksKerja /\ utang' = utang
    BY <2>3 DEF TipeUtang
  <2>7. k.aksi = "ubah" => k.baris.jumlah \in Nat \ {0}
    BY <2>1 DEF TipeUtang
  <2>8. QED BY <2>1, <2>3, <2>5, <2>6, <2>7, SesiTipe
<1>3. QED BY <1>1, <1>2

\* What is written fits the checks.
LEMMA HasilKolom ==
  ASSUME IUtang, TipeUtang, NEW s \in Kasir, NEW k, k = bayaran[s], k.langkah = "sisa", DiterimaUtang(k)
  PROVE  KolomUtang(HasilUtang(k))
<1>1. PICK h : h = HasilUtang(k)
  OBVIOUS
<1>2. SesiUtang(utang, k) /\ TabelUtang(utang) /\ TerjagaUtang(utang) /\ h.dialokasikan <= h.jumlah
  BY <1>1 DEF IUtang, DiterimaUtang
<1>3. SahUtang(h) /\ h.dialokasikan = TotalUtang(h.alokasi)
  BY <1>1, <1>2, HasilBaru, HasilLama
<1>4. h.dialokasikan \in Nat
  BY <1>3, TotalUtangAlami DEF SahUtang
<1>5. ASSUME h.status \in {"DRAFT", "POSTED", "BATAL"}, h.jumlah \in Nat \ {0},
             h.giro \in {"TANPA", "BELUM_CAIR", "CAIR", "TOLAK"}
      PROVE  KolomUtang(h)
  BY <1>2, <1>4, <1>5 DEF KolomUtang
<1>6. CASE k.id = 0
  <2>1. k.aksi = "buat" /\ k.mau \in Seq(BarisAlokasiUtang)
    BY <1>2, <1>6 DEF SesiUtang
  <2>2. PICK i \in IsianUtang : k.baris = BarisUtang(i)
    BY <1>2, <1>6 DEF SesiUtang
  <2>3. PICK b : b = k.baris
    OBVIOUS
  <2>4. /\ b.status = "DRAFT" /\ b.giro \in {"TANPA", "BELUM_CAIR"} /\ b.jumlah \in Nat \ {0}
        /\ DOMAIN b = {"supplier", "giro", "jumlah", "dialokasikan", "status", "alokasi"}
    BY <2>2, <2>3, AsumsiUtang DEF BarisUtang
  <2>5. PICK n : n = TotalUtang(k.mau)
    OBVIOUS
  <2>6. h = [b EXCEPT !.alokasi = k.mau, !.dialokasikan = n]
    <3>1. h = TulisAlokasiUtang(k, b)
      BY <1>1, <2>1, <2>3 DEF HasilUtang
    <3>2. k.baris.alokasi = b.alokasi
      BY <2>3
    <3>3. QED BY <2>1, <2>5, <3>1, <3>2, TulisAlokasiBenar
  <2>7. h.status = b.status /\ h.giro = b.giro /\ h.jumlah = b.jumlah
    BY <2>4, <2>6
  <2>8. QED BY <1>1, <1>5, <2>4, <2>7
<1>7. CASE k.id # 0
  <2>1. PICK b : b = utang[k.id]
    OBVIOUS
  <2>2. /\ k.id \in DOMAIN utang /\ k.aksi \in AksiLama /\ SahUtang(b) /\ KolomUtang(b)
        /\ k.aksi = "alokasi" => k.baris.alokasi = b.alokasi
        /\ k.mau \in Seq(BarisAlokasiUtang)
    BY <1>2, <1>7, <2>1 DEF SesiUtang, TabelUtang, TipeUtang
  <2>3. DOMAIN b = {"supplier", "giro", "jumlah", "dialokasikan", "status", "alokasi"}
    BY <2>2 DEF SahUtang
  <2>4. /\ b.status \in {"DRAFT", "POSTED", "BATAL"} /\ b.jumlah \in Nat \ {0}
        /\ b.giro \in {"TANPA", "BELUM_CAIR", "CAIR", "TOLAK"}
    BY <2>2 DEF KolomUtang
  <2>5. CASE k.aksi = "ubah"
    <3>1. h = [b EXCEPT !.jumlah = k.baris.jumlah]
      BY <1>1, <2>1, <2>5 DEF HasilUtang
    <3>2. k.baris.jumlah \in Nat \ {0}
      BY <2>5 DEF TipeUtang
    <3>3. h.status = b.status /\ h.giro = b.giro /\ h.jumlah = k.baris.jumlah
      BY <2>3, <3>1
    <3>4. QED BY <1>1, <1>5, <2>4, <3>2, <3>3
  <2>6. CASE k.aksi = "alokasi"
    <3>1. PICK n : n = TotalUtang(k.mau)
      OBVIOUS
    <3>2. h = [b EXCEPT !.alokasi = k.mau, !.dialokasikan = n]
      <4>1. h = TulisAlokasiUtang(k, b)
        BY <1>1, <2>1, <2>6 DEF HasilUtang
      <4>2. QED BY <2>2, <2>6, <3>1, <4>1, TulisAlokasiBenar
    <3>3. h.status = b.status /\ h.giro = b.giro /\ h.jumlah = b.jumlah
      BY <2>3, <3>2
    <3>4. QED BY <1>1, <1>5, <2>4, <3>3
  <2>7. CASE k.aksi = "posting"
    <3>1. h = [b EXCEPT !.status = "POSTED"]
      BY <1>1, <2>1, <2>7 DEF HasilUtang
    <3>2. h.status = "POSTED" /\ h.giro = b.giro /\ h.jumlah = b.jumlah
      BY <2>3, <3>1
    <3>3. QED BY <1>1, <1>5, <2>4, <3>2
  <2>8. CASE k.aksi = "batal"
    <3>1. h = [b EXCEPT !.status = "BATAL"]
      BY <1>1, <2>1, <2>8 DEF HasilUtang
    <3>2. h.status = "BATAL" /\ h.giro = b.giro /\ h.jumlah = b.jumlah
      BY <2>3, <3>1
    <3>3. QED BY <1>1, <1>5, <2>4, <3>2
  <2>9. CASE k.aksi = "cair"
    <3>1. h = [b EXCEPT !.giro = "CAIR"]
      BY <1>1, <2>1, <2>9 DEF HasilUtang
    <3>2. h.status = b.status /\ h.giro = "CAIR" /\ h.jumlah = b.jumlah
      BY <2>3, <3>1
    <3>3. QED BY <1>1, <1>5, <2>4, <3>2
  <2>10. CASE k.aksi = "tolak"
    <3>1. h = [b EXCEPT !.giro = "TOLAK"]
      BY <1>1, <2>1, <2>10 DEF HasilUtang
    <3>2. h.status = b.status /\ h.giro = "TOLAK" /\ h.jumlah = b.jumlah
      BY <2>3, <3>1
    <3>3. QED BY <1>1, <1>5, <2>4, <3>2
  <2>11. QED BY <2>2, <2>5, <2>6, <2>7, <2>8, <2>9, <2>10 DEF AksiLama
<1>8. QED BY <1>6, <1>7

LEMMA TulisTipe == ASSUME IUtang, TipeUtang, NEW s \in Kasir, TulisUtang(s) PROVE TipeUtang'
<1>1. CASE BatalKerja(s)
  BY <1>1, BatalTipe
<1>2. CASE ~BatalKerja(s)
  <2>1. PICK k : k = bayaran[s]
    OBVIOUS
  <2>2. PICK h : h = HasilUtang(k)
    OBVIOUS
  <2>3. /\ k.langkah = "sisa" /\ DiterimaUtang(k) /\ jumlahKerja' = jumlahKerja
        /\ utang' = IF k.id = 0 THEN Append(utang, h) ELSE [utang EXCEPT ![k.id] = h]
        /\ bayaran' = [bayaran EXCEPT ![s] = SebelumKerja]
    BY <1>2, <2>1, <2>2 DEF TulisUtang
  <2>4. KolomUtang(h)
    BY <2>1, <2>2, <2>3, HasilKolom
  <2>5. PICK S : utang \in Seq(S)
    BY DEF IUtang, TabelUtang
  <2>6. bayaran'[s] = SebelumKerja /\ \A t \in Kasir : t # s => bayaran'[t] = bayaran[t]
    BY <2>3 DEF IUtang
  <2>7. SebelumKerja.aksi = "tiada"
    BY DEF SebelumKerja
  <2>8. /\ \A t \in Kasir : bayaran'[t].aksi = "ubah" => bayaran'[t].baris.jumlah \in Nat \ {0}
        /\ jumlahKerja' \in 0..MaksKerja
    BY <2>3, <2>6, <2>7 DEF TipeUtang
  <2>9. PICK P : P = Pembuat'
    OBVIOUS
  <2>10. P = Pembuat \ {s}
    BY <2>6, <2>7, <2>9 DEF Pembuat
  <2>11. /\ IsFiniteSet(Pembuat) /\ Cardinality(Pembuat) \in Nat
         /\ Cardinality(P) = IF s \in Pembuat THEN Cardinality(Pembuat) - 1 ELSE Cardinality(Pembuat)
    BY <2>10, PembuatHingga, FS_RemoveElement, FS_CardinalityType
  <2>12. SesiUtang(utang, k)
    BY <2>1 DEF IUtang
  <2>13. CASE k.id = 0
    <3>1. utang' = Append(utang, h) /\ s \in Pembuat
      BY <2>1, <2>3, <2>12, <2>13 DEF SesiUtang, Pembuat
    <3>2. Len(utang') = Len(utang) + 1 /\ \A d \in DOMAIN utang' :
            utang'[d] = h \/ (d \in DOMAIN utang /\ utang'[d] = utang[d])
      BY <2>5, <3>1
    <3>3. \A d \in DOMAIN utang' : KolomUtang(utang'[d])
      BY <2>4, <3>2 DEF TipeUtang
    <3>4. Len(utang') + Cardinality(P) <= MaksUtang
      BY <2>11, <3>1, <3>2, PembuatHingga DEF TipeUtang
    <3>5. QED BY <2>8, <2>9, <3>3, <3>4 DEF TipeUtang
  <2>14. CASE k.id # 0
    <3>1. utang' = [utang EXCEPT ![k.id] = h] /\ k.id \in DOMAIN utang
      BY <2>3, <2>12, <2>14 DEF SesiUtang
    <3>2. Len(utang') = Len(utang) /\ DOMAIN utang' = DOMAIN utang
      BY <2>5, <3>1
    <3>3. \A d \in DOMAIN utang' : KolomUtang(utang'[d])
      BY <2>4, <3>1, <3>2 DEF TipeUtang
    <3>4. Len(utang') + Cardinality(P) <= MaksUtang
      BY <2>11, <3>2, PembuatHingga DEF TipeUtang
    <3>5. QED BY <2>8, <2>9, <3>3, <3>4 DEF TipeUtang
  <2>15. QED BY <2>13, <2>14
<1>3. QED BY <1>1, <1>2

LEMMA TipeUtangLangkah == IUtang /\ TipeUtang /\ [NextUtang]_varsUtang => TipeUtang'
<1> SUFFICES ASSUME IUtang, TipeUtang, [NextUtang]_varsUtang PROVE TipeUtang'
  OBVIOUS
<1>1. ASSUME NEW s \in Kasir, NEW d, UpdateUtang(s, d) PROVE TipeUtang'
  <2>1. PICK n \in JumlahBaru : MulaiUtang(s, "ubah", d, [jumlah |-> n], <<>>)
    BY <1>1 DEF UpdateUtang
  <2>2. [jumlah |-> n].jumlah \in Nat \ {0}
    BY AsumsiUtang
  <2>3. QED BY <2>1, <2>2, MulaiTipe
<1>2. ASSUME NEW s \in Kasir, NEW d, ReplaceAlokasi(s, d) \/ PindahUtang(s, d) PROVE TipeUtang'
  <2>1. PICK a, q : MulaiUtang(s, a, d, <<>>, q) /\ a \notin {"buat", "ubah"}
    BY <1>2 DEF ReplaceAlokasi, PindahUtang
  <2>2. QED BY <2>1, MulaiTipe
<1>3. ASSUME NEW s \in Kasir, PutusUtang(s) PROVE TipeUtang'
  BY <1>3, BatalTipe DEF PutusUtang
<1>4. CASE UNCHANGED varsUtang
  <2>1. utang' = utang /\ bayaran' = bayaran /\ jumlahKerja' = jumlahKerja /\ Pembuat' = Pembuat
    BY <1>4 DEF varsUtang, Pembuat
  <2>2. QED BY <2>1 DEF TipeUtang
<1>5. QED BY <1>1, <1>2, <1>3, <1>4, CreateTipe, KunciTipe, PeriksaTipe, TulisTipe DEF NextUtang

\* TypeOKUtang: no payment gives away more than it is.
LEMMA TipeUtangSelalu == SpecUtang => []TypeOKUtang
<1>1. InitUtang => IUtang /\ TipeUtang
  <2> SUFFICES ASSUME InitUtang PROVE TipeUtang
    BY UtangAwalBenar
  <2>1. SebelumKerja.aksi = "tiada" /\ \A t \in Kasir : bayaran[t] = SebelumKerja
    BY DEF InitUtang, SebelumKerja
  <2>2. Pembuat = {}
    BY <2>1 DEF Pembuat
  <2>3. Cardinality(Pembuat) = 0
    BY <2>2, FS_EmptySet
  <2>4. Len(utang) <= MaksUtang /\ Len(utang) \in Nat
    BY RiwayatUtang, PembuatHingga, UtangAwalBenar DEF InitUtang
  <2>5. jumlahKerja \in 0..MaksKerja
    BY AsumsiUtang DEF InitUtang
  <2>6. \A d \in DOMAIN utang : KolomUtang(utang[d])
    BY RiwayatUtang DEF InitUtang
  <2>7. QED BY <2>1, <2>3, <2>4, <2>5, <2>6 DEF TipeUtang
<1>2. IUtang /\ TipeUtang => TypeOKUtang
  <2> SUFFICES ASSUME IUtang, TipeUtang PROVE TypeOKUtang
    OBVIOUS
  <2>1. ASSUME NEW d \in DOMAIN utang, NEW a \in ToSet(utang[d].alokasi)
        PROVE  a.faktur \in DOMAIN FakturUtang /\ a.jumlah \in Nat \ {0}
    <3>1. a \in BarisAlokasiUtang
      BY <2>1, ToSetTerhingga DEF IUtang, TabelUtang, SahUtang
    <3>2. QED BY <3>1 DEF BarisAlokasiUtang
  <2>2. Len(utang) <= MaksUtang
    <3>1. Cardinality(Pembuat) \in Nat
      BY PembuatHingga, FS_CardinalityType
    <3>2. QED BY <3>1, PembuatHingga DEF TipeUtang
  <2>3. QED BY <2>1, <2>2 DEF TipeUtang, TypeOKUtang
<1>3. QED BY <1>1, <1>2, UtangInduktif, TipeUtangLangkah, PTL DEF SpecUtang

-----------------------------------------------------------------------------
(***************************************************************************)
(* Akses: a refresh token is spent once, and the index of an account names *)
(* every live token its clients hold, whatever the lifetime.               *)
(***************************************************************************)
Langkah == {"diam", "simpan", "indeks", "panjangkan", "lepas", "lepas_keluar", "akun",
            "daftar", "cabut"}

RekToken  == [u : Akun, asal : Nat, habis : Nat]
RekIndeks == [isi : SUBSET Nat, habis : Nat \cup {Abadi}]
RekSesi   == [langkah : Langkah, u : Akun \cup {0}, t : Nat, daftar : SUBSET Nat]

TipeAkses ==
  /\ token \in Seq(RekToken) /\ Len(token) <= MaksToken
  /\ hidup \subseteq DOMAIN token /\ terkirim \subseteq DOMAIN token /\ terlewat \subseteq DOMAIN token
  /\ indeks \in [Akun -> RekIndeks]
  /\ detak \in Nat
  /\ sesi \in [Pemohon -> RekSesi]
  /\ \A p \in Pemohon : sesi[p].langkah # "diam" => sesi[p].u \in Akun

\* Requests on their way from a spent token to a new one.
MembawaToken(p) == sesi[p].langkah \in {"lepas", "akun", "simpan"} /\ sesi[p].t # 0

\* Requests inside Store, after the SET.
Menyimpan(p) == sesi[p].langkah \in {"indeks", "panjangkan"}

\* What a request knows of its token.
TokenSesi ==
  \A p \in Pemohon :
    /\ MembawaToken(p) \/ sesi[p].langkah = "lepas_keluar" =>
         sesi[p].t \in terkirim \ hidup
    /\ Menyimpan(p) => /\ sesi[p].t \in DOMAIN token \ terkirim
                       /\ token[sesi[p].t].u = sesi[p].u
    /\ \A q \in Pemohon : p # q /\ Menyimpan(p) /\ Menyimpan(q) => sesi[p].t # sesi[q].t

\* A spent token has one heir: the request that spent it or the token it got.
SatuPenerus ==
  /\ \A p, q \in Pemohon : MembawaToken(p) /\ MembawaToken(q) /\ sesi[p].t = sesi[q].t => p = q
  /\ \A j \in DOMAIN token : token[j].asal # 0 =>
       /\ token[j].asal \in DOMAIN token \ hidup
       /\ \A p \in Pemohon : MembawaToken(p) => sesi[p].t # token[j].asal
       /\ \A i \in DOMAIN token : token[i].asal = token[j].asal => i = j

\* Nothing outlives one more lifetime from now.
UmurTerbatas ==
  /\ \A t \in DOMAIN token : token[t].habis <= detak + Umur
  /\ \A u \in Akun : indeks[u].habis <= detak + Umur

\* A live token is in the index, and the index lives at least as long; until
\* its EXPIRE, a Store's own token is at least in it.
Terindeks ==
  /\ \A t \in (hidup \cap terkirim) \ terlewat :
       /\ t \in indeks[token[t].u].isi
       /\ indeks[token[t].u].habis # Abadi /\ token[t].habis <= indeks[token[t].u].habis
  /\ \A p \in Pemohon : sesi[p].langkah = "panjangkan" /\ sesi[p].t \in hidup \ terlewat =>
       sesi[p].t \in indeks[sesi[p].u].isi

IAkses == TipeAkses /\ TokenSesi /\ SatuPenerus /\ UmurTerbatas /\ Terindeks

-----------------------------------------------------------------------------
(***************************************************************************)
(* What the commands with a choice in them do.                             *)
(***************************************************************************)
\* Only p moves, to the step l with its token, or to the end.
Pindah(p, l) ==
  /\ sesi' \in [Pemohon -> RekSesi] /\ \A q \in Pemohon : q # p => sesi'[q] = sesi[q]
  /\ \/ sesi'[p] = TanpaSesi
     \/ sesi'[p].langkah = l /\ sesi'[p].t = sesi[p].t /\ sesi'[p].u = sesi[p].u

EfekSimpan(p) ==
  LET t == Len(token) + 1 IN
  /\ t \in Nat /\ t \notin DOMAIN token /\ t <= MaksToken
  /\ token' \in Seq(RekToken) /\ Len(token') = t
  /\ DOMAIN token' = DOMAIN token \cup {t} /\ \A j \in DOMAIN token : token'[j] = token[j]
  /\ token'[t].u = sesi[p].u /\ token'[t].asal = sesi[p].t /\ token'[t].habis = detak + Umur
  /\ hidup' = hidup \cup {t} /\ UNCHANGED <<akun, indeks, detak, terkirim, terlewat>>
  /\ sesi[p].langkah = "simpan"
  /\ sesi' \in [Pemohon -> RekSesi] /\ \A q \in Pemohon : q # p => sesi'[q] = sesi[q]
  /\ sesi'[p].langkah = "indeks" /\ sesi'[p].t = t /\ sesi'[p].u = sesi[p].u

EfekLepas(p) ==
  /\ UNCHANGED <<akun, token, hidup, detak, terkirim, terlewat>>
  /\ sesi[p].langkah \in {"lepas", "lepas_keluar"} /\ Pindah(p, "akun")
  /\ sesi[p].langkah = "lepas_keluar" => sesi'[p] = TanpaSesi
  /\ indeks' \in [Akun -> RekIndeks]
  /\ \A u \in Akun : \/ indeks'[u] = indeks[u]
                     \/ /\ indeks'[u].isi = indeks[u].isi \ {sesi[p].t}
                        /\ \/ indeks'[u].habis = indeks[u].habis
                           \/ indeks'[u].habis = Abadi /\ indeks'[u].isi = {}

EfekPeriksa(p) ==
  /\ UNCHANGED <<akun, token, hidup, indeks, detak, terkirim, terlewat>>
  /\ sesi[p].langkah = "akun" /\ Pindah(p, "simpan")

\* Rows of tokens.
LEMMA TokenAda ==
  ASSUME TipeAkses
  PROVE  /\ DOMAIN token = 1..Len(token) /\ Len(token) \in Nat
         /\ \A t \in DOMAIN token : /\ t \in Nat /\ t # 0 /\ token[t].u \in Akun
                                    /\ token[t].asal \in Nat /\ token[t].habis \in Nat
<1>1. token \in Seq(RekToken)
  BY DEF TipeAkses
<1>2. DOMAIN token = 1..Len(token) /\ Len(token) \in Nat /\ \A t \in DOMAIN token : token[t] \in RekToken
  BY <1>1
<1>3. QED BY <1>2 DEF RekToken

\* SET of a new token.
LEMMA SimpanHasil ==
  ASSUME TipeAkses, NEW p \in Pemohon, SimpanToken(p)
  PROVE  EfekSimpan(p)
<1> DEFINE t == Len(token) + 1
           r == [u |-> sesi[p].u, asal |-> sesi[p].t, habis |-> detak + Umur]
<1>1. DOMAIN token = 1..Len(token) /\ Len(token) \in Nat
  BY TokenAda
<1>2. r \in RekToken
  BY AsumsiAkses DEF SimpanToken, TipeAkses, RekToken, RekSesi
<1>3. token' = Append(token, r) /\ t <= MaksToken
  BY DEF SimpanToken
<1>4. r.u = sesi[p].u /\ r.asal = sesi[p].t /\ r.habis = detak + Umur
  OBVIOUS
<1> HIDE DEF r
<1>5. token \in Seq(RekToken)
  BY DEF TipeAkses
<1>6. /\ token' \in Seq(RekToken) /\ Len(token') = t
      /\ DOMAIN token' = DOMAIN token \cup {t} /\ token'[t] = r
      /\ \A j \in DOMAIN token : token'[j] = token[j]
  BY <1>1, <1>2, <1>3, <1>5
<1>7. t \in Nat /\ t \notin DOMAIN token
  BY <1>1
<1>8. /\ sesi' \in [Pemohon -> RekSesi] /\ \A q \in Pemohon : q # p => sesi'[q] = sesi[q]
      /\ sesi'[p].langkah = "indeks" /\ sesi'[p].t = t /\ sesi'[p].u = sesi[p].u
  BY <1>7 DEF SimpanToken, TipeAkses, RekSesi, Langkah
<1>9. QED BY <1>3, <1>4, <1>6, <1>7, <1>8 DEF SimpanToken, EfekSimpan

\* KeSesi and Usai.
LEMMA PindahHasil ==
  ASSUME TipeAkses, NEW p \in Pemohon, NEW l \in Langkah, KeSesi(p, l) \/ Usai(p)
  PROVE  Pindah(p, l)
<1>1. CASE KeSesi(p, l)
  BY <1>1 DEF KeSesi, TipeAkses, RekSesi, Pindah
<1>2. CASE Usai(p)
  BY <1>2 DEF Usai, TipeAkses, RekSesi, Langkah, TanpaSesi, Pindah
<1>3. QED BY <1>1, <1>2

\* SREM, which may fail.
LEMMA LepasHasil ==
  ASSUME TipeAkses, NEW p \in Pemohon, LepasIndeks(p)
  PROVE  EfekLepas(p)
<1>1. /\ UNCHANGED <<akun, token, hidup, detak, terkirim, terlewat>>
      /\ sesi[p].langkah \in {"lepas", "lepas_keluar"} /\ sesi[p].u \in Akun
  BY DEF LepasIndeks, TipeAkses
<1>2. "akun" \in Langkah
  BY DEF Langkah
<1>3. KeSesi(p, "akun") \/ Usai(p)
  BY DEF LepasIndeks
<1>4. Pindah(p, "akun")
  BY <1>2, <1>3, PindahHasil
<1>5. sesi[p].langkah = "lepas_keluar" => sesi'[p] = TanpaSesi
  BY DEF LepasIndeks, Usai, TipeAkses
<1>6. /\ indeks' \in [Akun -> RekIndeks]
      /\ \A u \in Akun : \/ indeks'[u] = indeks[u]
                         \/ /\ indeks'[u].isi = indeks[u].isi \ {sesi[p].t}
                            /\ \/ indeks'[u].habis = indeks[u].habis
                               \/ indeks'[u].habis = Abadi /\ indeks'[u].isi = {}
  <2> DEFINE sisa == indeks[sesi[p].u].isi \ {sesi[p].t}
  <2>1. CASE indeks' = indeks
    BY <2>1 DEF TipeAkses
  <2>2. CASE sisa = {} /\ indeks' = [indeks EXCEPT ![sesi[p].u] = IndeksKosong]
    BY <1>1, <2>2 DEF TipeAkses, RekIndeks, IndeksKosong
  <2>3. CASE sisa # {} /\ indeks' = [indeks EXCEPT ![sesi[p].u].isi = sisa]
    BY <1>1, <2>3 DEF TipeAkses, RekIndeks
  <2>4. QED BY <2>1, <2>2, <2>3 DEF LepasIndeks, Tanpa
<1>7. QED BY <1>1, <1>4, <1>5, <1>6 DEF EfekLepas

\* The account is active, or the request ends.
LEMMA PeriksaHasil ==
  ASSUME TipeAkses, NEW p \in Pemohon, PeriksaAkun(p)
  PROVE  EfekPeriksa(p)
<1>1. "simpan" \in Langkah
  BY DEF Langkah
<1>2. KeSesi(p, "simpan") \/ Usai(p)
  BY DEF PeriksaAkun
<1>3. Pindah(p, "simpan")
  BY <1>1, <1>2, PindahHasil
<1>4. QED BY <1>3 DEF PeriksaAkun, redis, EfekPeriksa

\* A request that moves on carries what it carried.
Terbawa ==
  \A q \in Pemohon :
    /\ MembawaToken(q)' => MembawaToken(q) /\ sesi'[q].t = sesi[q].t
    /\ Menyimpan(q)' => Menyimpan(q) /\ sesi'[q] = sesi[q]
    /\ sesi'[q].langkah = "lepas_keluar" => sesi'[q] = sesi[q]

LEMMA PindahMembawa ==
  ASSUME NEW p \in Pemohon,
         EfekLepas(p) \/ EfekPeriksa(p)
  PROVE  Terbawa
<1> SUFFICES ASSUME NEW q \in Pemohon
             PROVE  /\ MembawaToken(q)' => MembawaToken(q) /\ sesi'[q].t = sesi[q].t
                    /\ Menyimpan(q)' => Menyimpan(q) /\ sesi'[q] = sesi[q]
                    /\ sesi'[q].langkah = "lepas_keluar" => sesi'[q] = sesi[q]
  BY DEF Terbawa
<1>1. CASE q # p
  BY <1>1 DEF EfekLepas, EfekPeriksa, Pindah, MembawaToken, Menyimpan
<1>2. CASE q = p /\ sesi'[p] = TanpaSesi
  BY <1>2 DEF MembawaToken, Menyimpan, TanpaSesi
<1>3. CASE q = p /\ sesi'[p] # TanpaSesi
  BY <1>3 DEF EfekLepas, EfekPeriksa, Pindah, MembawaToken, Menyimpan
<1>4. QED BY <1>1, <1>2, <1>3

-----------------------------------------------------------------------------
\* The types.
LEMMA TipeTetap ==
  ASSUME TipeAkses, TokenSesi, [NextAkses]_varsAkses
  PROVE  TipeAkses'
<1> USE AsumsiAkses
<1>1. CASE UNCHANGED varsAkses
  BY <1>1 DEF varsAkses, TipeAkses, TokenSesi, Menyimpan, RekSesi, RekIndeks, Langkah, TanpaSesi,
         IndeksKosong, Abadi
<1>2. ASSUME NEW p \in Pemohon, SimpanToken(p) PROVE TipeAkses'
  <2>1. EfekSimpan(p)
    BY <1>2, SimpanHasil
  <2>2. /\ DOMAIN token = 1..Len(token) /\ Len(token) \in Nat
        /\ \A t \in DOMAIN token : /\ t \in Nat /\ t # 0 /\ token[t].u \in Akun
                                   /\ token[t].asal \in Nat /\ token[t].habis \in Nat
    BY TokenAda
  <2>3. QED BY <2>1, <2>2 DEF EfekSimpan, TipeAkses, TokenSesi, Menyimpan, RekSesi, RekIndeks,
                Langkah,
                     TanpaSesi, IndeksKosong, Abadi
<1>3. ASSUME NEW p \in Pemohon, IndeksToken(p) PROVE TipeAkses'
  BY ZenonT(30), <1>3 DEF IndeksToken, KeSesi, TipeAkses, TokenSesi, Menyimpan, RekSesi, RekIndeks, Langkah,
         TanpaSesi, IndeksKosong, Abadi
<1>4. ASSUME NEW p \in Pemohon, PanjangkanIndeks(p) PROVE TipeAkses'
  <2>1. sesi[p].u \in Akun /\ sesi[p].t \in DOMAIN token
    BY <1>4 DEF PanjangkanIndeks, TipeAkses, TokenSesi, Menyimpan
  <2>2. UmurBaru(sesi[p].u) \in Nat \cup {Abadi}
    BY <2>1 DEF UmurBaru, TipeAkses, RekIndeks
  <2>3. indeks' \in [Akun -> RekIndeks]
    BY <1>4, <2>1, <2>2 DEF PanjangkanIndeks, TipeAkses, RekIndeks
  <2>4. sesi' \in [Pemohon -> RekSesi] /\ \A q \in Pemohon : sesi'[q] = sesi[q] \/ sesi'[q] = TanpaSesi
    BY <1>4 DEF PanjangkanIndeks, Usai, TipeAkses, RekSesi, Langkah, TanpaSesi
  <2>5. QED BY <1>4, <2>1, <2>3, <2>4 DEF PanjangkanIndeks, TipeAkses, TanpaSesi
<1>5. ASSUME NEW p \in Pemohon, LepasIndeks(p) PROVE TipeAkses'
  <2>1. EfekLepas(p)
    BY <1>5, LepasHasil
  <2>2. sesi[p].u \in Akun
    BY <2>1 DEF EfekLepas, TipeAkses
  <2>3. \A q \in Pemohon : sesi'[q].langkah # "diam" => sesi'[q].u \in Akun
    BY <2>1, <2>2 DEF EfekLepas, Pindah, TipeAkses, TanpaSesi
  <2>4. QED BY <2>1, <2>3 DEF EfekLepas, Pindah, TipeAkses
<1>6. ASSUME NEW p \in Pemohon, PeriksaAkun(p) PROVE TipeAkses'
  <2>1. EfekPeriksa(p)
    BY <1>6, PeriksaHasil
  <2>2. sesi[p].u \in Akun
    BY <2>1 DEF EfekPeriksa, TipeAkses
  <2>3. \A q \in Pemohon : sesi'[q].langkah # "diam" => sesi'[q].u \in Akun
    BY <2>1, <2>2 DEF EfekPeriksa, Pindah, TipeAkses, TanpaSesi
  <2>4. QED BY <2>1, <2>3 DEF EfekPeriksa, Pindah, TipeAkses
<1>7. ASSUME NEW p \in Pemohon, DaftarToken(p) PROVE TipeAkses'
  BY ZenonT(30), <1>7 DEF DaftarToken, redis, TipeAkses, TokenSesi, Menyimpan, RekSesi, RekIndeks, Langkah,
         TanpaSesi, IndeksKosong, Abadi
<1>8. ASSUME NEW p \in Pemohon, CabutToken(p) PROVE TipeAkses'
  <2>1. PICK t \in sesi[p].daftar :
          hidup' = hidup \ {t} /\ sesi' = [sesi EXCEPT ![p].daftar = @ \ {t}]
    BY <1>8 DEF CabutToken
  <2>2. sesi' \in [Pemohon -> RekSesi] /\ \A q \in Pemohon : sesi'[q].langkah = sesi[q].langkah /\ sesi'[q].u = sesi[q].u
    BY <2>1 DEF TipeAkses, RekSesi
  <2>3. QED BY <1>8, <2>1, <2>2 DEF CabutToken, TipeAkses
<1>9. ASSUME NEW p \in Pemohon, CabutIndeks(p) PROVE TipeAkses'
  BY <1>9 DEF CabutIndeks, Usai, TipeAkses, TokenSesi, Menyimpan, RekSesi, RekIndeks, Langkah,
         TanpaSesi, IndeksKosong, Abadi
<1>10. ASSUME NEW p \in Pemohon, GagalSesi(p) PROVE TipeAkses'
  BY <1>10 DEF GagalSesi, Usai, redis, TipeAkses, TokenSesi, Menyimpan, RekSesi, RekIndeks, Langkah,
         TanpaSesi, IndeksKosong, Abadi
<1>11. ASSUME NEW p \in Pemohon, NEW u \in Akun, Login(p, u) PROVE TipeAkses'
  BY <1>11 DEF Login, Buka, redis, TipeAkses, TokenSesi, Menyimpan, RekSesi, RekIndeks, Langkah,
         TanpaSesi, IndeksKosong, Abadi
<1>12. ASSUME NEW p \in Pemohon, NEW u \in Akun, UbahAkun(p, u) PROVE TipeAkses'
  BY <1>12 DEF UbahAkun, Buka, redis, TipeAkses, TokenSesi, Menyimpan, RekSesi, RekIndeks, Langkah,
         TanpaSesi, IndeksKosong, Abadi
<1>13. ASSUME NEW p \in Pemohon, NEW t \in hidup, Refresh(p, t) PROVE TipeAkses'
  <2>1. t \in DOMAIN token /\ t \in Nat /\ token[t].u \in Akun
    BY TokenAda DEF TipeAkses
  <2>2. QED BY <1>13, <2>1 DEF Refresh, Consume, Buka, GetDel, TipeAkses, RekSesi, Langkah
<1>14. ASSUME NEW p \in Pemohon, NEW t \in hidup, Logout(p, t) PROVE TipeAkses'
  <2>1. t \in DOMAIN token /\ t \in Nat /\ token[t].u \in Akun
    BY TokenAda DEF TipeAkses
  <2>2. QED BY <1>14, <2>1 DEF Logout, Consume, Buka, GetDel, TipeAkses, RekSesi, Langkah
<1>15. ASSUME NEW u \in Akun, AktifkanAkun(u) PROVE TipeAkses'
  BY <1>15 DEF AktifkanAkun, redis, TipeAkses, TokenSesi, Menyimpan, RekSesi, RekIndeks, Langkah,
         TanpaSesi, IndeksKosong, Abadi
<1>16. CASE DetakMaju
  BY <1>16 DEF DetakMaju, Kedaluwarsa, TipeAkses, TokenSesi, Menyimpan, RekSesi, RekIndeks, Langkah,
         TanpaSesi, IndeksKosong, Abadi
<1>17. QED
  BY <1>1, <1>2, <1>3, <1>4, <1>5, <1>6, <1>7, <1>8, <1>9,
     <1>10, <1>11, <1>12, <1>13, <1>14, <1>15, <1>16 DEF NextAkses

\* What a request knows of its token stays true.
LEMMA TokenSesiTetap ==
  ASSUME IAkses, TipeAkses', [NextAkses]_varsAkses
  PROVE  TokenSesi'
<1> USE AsumsiAkses
<1>1. CASE UNCHANGED varsAkses
  BY <1>1 DEF varsAkses, IAkses, TipeAkses, RekSesi, TokenSesi, MembawaToken, Menyimpan, TanpaSesi
<1>2. ASSUME NEW p \in Pemohon, SimpanToken(p) PROVE TokenSesi'
  <2>0. TipeAkses
    BY DEF IAkses
  <2>1. EfekSimpan(p)
    BY <1>2, <2>0, SimpanHasil
  <2>2. /\ DOMAIN token = 1..Len(token) /\ Len(token) \in Nat
        /\ \A t \in DOMAIN token : /\ t \in Nat /\ t # 0 /\ token[t].u \in Akun
                                   /\ token[t].asal \in Nat /\ token[t].habis \in Nat
    BY <2>0, TokenAda
  <2> DEFINE t == Len(token) + 1
  <2>3. /\ t \notin DOMAIN token /\ DOMAIN token' = DOMAIN token \cup {t}
        /\ \A j \in DOMAIN token : token'[j] = token[j]
        /\ token'[t].u = sesi[p].u /\ token'[t].asal = sesi[p].t /\ t # 0
        /\ hidup' = hidup \cup {t} /\ UNCHANGED <<indeks, terkirim, terlewat>>
        /\ sesi[p].langkah = "simpan"
        /\ \A q \in Pemohon : q # p => sesi'[q] = sesi[q]
        /\ sesi'[p].langkah = "indeks" /\ sesi'[p].t = t /\ sesi'[p].u = sesi[p].u
    BY <2>1, <2>2 DEF EfekSimpan
  <2>4. /\ hidup \subseteq DOMAIN token /\ terkirim \subseteq DOMAIN token
        /\ terlewat \subseteq DOMAIN token
    BY <2>0 DEF TipeAkses
  <2> HIDE DEF t
  <2>5. ASSUME NEW q \in Pemohon, MembawaToken(q)' \/ sesi'[q].langkah = "lepas_keluar"
        PROVE  sesi'[q].t \in terkirim' \ hidup'
    <3>1. q # p
      BY <2>3, <2>5 DEF MembawaToken
    <3>2. sesi'[q] = sesi[q] /\ sesi[q].t \in terkirim \ hidup
      BY <2>3, <2>5, <3>1 DEF MembawaToken, IAkses, TokenSesi
    <3>3. QED BY <2>3, <2>4, <3>2
  <2>6. ASSUME NEW q \in Pemohon, Menyimpan(q)'
        PROVE  sesi'[q].t \in DOMAIN token' \ terkirim' /\ token'[sesi'[q].t].u = sesi'[q].u
    <3>1. CASE q = p
      BY <2>3, <2>4, <3>1
    <3>2. CASE q # p
      BY <2>3, <2>6, <3>2 DEF Menyimpan, IAkses, TokenSesi
    <3>3. QED BY <3>1, <3>2
  <2>7. ASSUME NEW q \in Pemohon, NEW r \in Pemohon, q # r, Menyimpan(q)', Menyimpan(r)'
        PROVE  sesi'[q].t # sesi'[r].t
    <3>1. \A s \in Pemohon : s # p /\ Menyimpan(s)' =>
             Menyimpan(s) /\ sesi'[s] = sesi[s] /\ sesi[s].t \in DOMAIN token
      BY <2>3 DEF Menyimpan, IAkses, TokenSesi
    <3>2. CASE q = p
      BY <2>3, <2>7, <3>1, <3>2
    <3>3. CASE r = p
      BY <2>3, <2>7, <3>1, <3>3
    <3>4. CASE q # p /\ r # p
      BY <2>7, <3>1, <3>4 DEF IAkses, TokenSesi
    <3>5. QED BY <3>2, <3>3, <3>4
  <2>8. QED BY <2>5, <2>6, <2>7 DEF TokenSesi, Menyimpan
<1>3. ASSUME NEW p \in Pemohon, IndeksToken(p) PROVE TokenSesi'
  BY <1>3 DEF IndeksToken, KeSesi, IAkses, TipeAkses, RekSesi, TokenSesi, MembawaToken, Menyimpan,
         TanpaSesi
<1>4. ASSUME NEW p \in Pemohon, PanjangkanIndeks(p) PROVE TokenSesi'
  BY <1>4 DEF PanjangkanIndeks, UmurBaru, Usai, IAkses, TipeAkses, RekSesi, TokenSesi, MembawaToken,
         Menyimpan, TanpaSesi
<1>5. ASSUME NEW p \in Pemohon, LepasIndeks(p) PROVE TokenSesi'
  <2>0. TipeAkses
    BY DEF IAkses
  <2>1. EfekLepas(p)
    BY <1>5, <2>0, LepasHasil
  <2>3. Terbawa
    BY <2>1, PindahMembawa
  <2>4. UNCHANGED <<token, hidup, terkirim>>
    BY <2>1 DEF EfekLepas
  <2>5. QED BY <2>3, <2>4 DEF Terbawa, IAkses, TokenSesi, MembawaToken, Menyimpan
<1>6. ASSUME NEW p \in Pemohon, PeriksaAkun(p) PROVE TokenSesi'
  <2>0. TipeAkses
    BY DEF IAkses
  <2>1. EfekPeriksa(p)
    BY <1>6, <2>0, PeriksaHasil
  <2>3. Terbawa
    BY <2>1, PindahMembawa
  <2>4. UNCHANGED <<token, hidup, terkirim>>
    BY <2>1 DEF EfekPeriksa
  <2>5. QED BY <2>3, <2>4 DEF Terbawa, IAkses, TokenSesi, MembawaToken, Menyimpan
<1>7. ASSUME NEW p \in Pemohon, DaftarToken(p) PROVE TokenSesi'
  BY <1>7 DEF DaftarToken, redis, IAkses, TipeAkses, RekSesi, TokenSesi, MembawaToken, Menyimpan,
         TanpaSesi
<1>8. ASSUME NEW p \in Pemohon, CabutToken(p) PROVE TokenSesi'
  BY <1>8 DEF CabutToken, IAkses, TipeAkses, RekSesi, TokenSesi, MembawaToken, Menyimpan, TanpaSesi
<1>9. ASSUME NEW p \in Pemohon, CabutIndeks(p) PROVE TokenSesi'
  BY <1>9 DEF CabutIndeks, Usai, IAkses, TipeAkses, RekSesi, TokenSesi, MembawaToken, Menyimpan,
         TanpaSesi
<1>10. ASSUME NEW p \in Pemohon, GagalSesi(p) PROVE TokenSesi'
  BY <1>10 DEF GagalSesi, Usai, redis, IAkses, TipeAkses, RekSesi, TokenSesi, MembawaToken,
      Menyimpan,
         TanpaSesi
<1>11. ASSUME NEW p \in Pemohon, NEW u \in Akun, Login(p, u) PROVE TokenSesi'
  BY <1>11 DEF Login, Buka, redis, IAkses, TipeAkses, RekSesi, TokenSesi, MembawaToken, Menyimpan,
         TanpaSesi
<1>12. ASSUME NEW p \in Pemohon, NEW u \in Akun, UbahAkun(p, u) PROVE TokenSesi'
  BY <1>12 DEF UbahAkun, Buka, redis, IAkses, TipeAkses, RekSesi, TokenSesi, MembawaToken,
      Menyimpan,
         TanpaSesi
<1>13. ASSUME NEW p \in Pemohon, NEW t \in hidup, Refresh(p, t) PROVE TokenSesi'
  BY <1>13 DEF Refresh, Consume, Buka, GetDel, IAkses, TipeAkses, RekSesi, TokenSesi, MembawaToken,
         Menyimpan, TanpaSesi
<1>14. ASSUME NEW p \in Pemohon, NEW t \in hidup, Logout(p, t) PROVE TokenSesi'
  BY <1>14 DEF Logout, Consume, Buka, GetDel, IAkses, TipeAkses, RekSesi, TokenSesi, MembawaToken,
         Menyimpan, TanpaSesi
<1>15. ASSUME NEW u \in Akun, AktifkanAkun(u) PROVE TokenSesi'
  BY <1>15 DEF AktifkanAkun, redis, IAkses, TipeAkses, RekSesi, TokenSesi, MembawaToken, Menyimpan,
         TanpaSesi
<1>16. CASE DetakMaju
  BY <1>16 DEF DetakMaju, Kedaluwarsa, IAkses, TipeAkses, RekSesi, TokenSesi, MembawaToken,
      Menyimpan,
         TanpaSesi
<1>17. QED
  BY <1>1, <1>2, <1>3, <1>4, <1>5, <1>6, <1>7, <1>8, <1>9,
     <1>10, <1>11, <1>12, <1>13, <1>14, <1>15, <1>16 DEF NextAkses

\* A token that is spent stays spent, and has one heir.
LEMMA PenerusTetap ==
  ASSUME IAkses, TipeAkses', [NextAkses]_varsAkses
  PROVE  SatuPenerus'
<1> USE AsumsiAkses
<1>1. CASE UNCHANGED varsAkses
  BY <1>1 DEF varsAkses, IAkses, TipeAkses, RekSesi, TokenSesi, SatuPenerus, MembawaToken, TanpaSesi
<1>2. ASSUME NEW p \in Pemohon, SimpanToken(p) PROVE SatuPenerus'
  <2>0. TipeAkses
    BY DEF IAkses
  <2>1. EfekSimpan(p)
    BY <1>2, <2>0, SimpanHasil
  <2>2. /\ DOMAIN token = 1..Len(token) /\ Len(token) \in Nat
        /\ \A t \in DOMAIN token : /\ t \in Nat /\ t # 0 /\ token[t].u \in Akun
                                   /\ token[t].asal \in Nat /\ token[t].habis \in Nat
    BY <2>0, TokenAda
  <2> DEFINE t == Len(token) + 1
  <2>3. /\ t \notin DOMAIN token /\ DOMAIN token' = DOMAIN token \cup {t}
        /\ \A j \in DOMAIN token : token'[j] = token[j]
        /\ token'[t].u = sesi[p].u /\ token'[t].asal = sesi[p].t /\ t # 0
        /\ hidup' = hidup \cup {t} /\ UNCHANGED <<indeks, terkirim, terlewat>>
        /\ sesi[p].langkah = "simpan"
        /\ \A q \in Pemohon : q # p => sesi'[q] = sesi[q]
        /\ sesi'[p].langkah = "indeks" /\ sesi'[p].t = t /\ sesi'[p].u = sesi[p].u
    BY <2>1, <2>2 DEF EfekSimpan
  <2>4. /\ hidup \subseteq DOMAIN token /\ terkirim \subseteq DOMAIN token
        /\ terlewat \subseteq DOMAIN token
    BY <2>0 DEF TipeAkses
  <2> HIDE DEF t
  <2>5. \A q \in Pemohon : MembawaToken(q)' =>
           q # p /\ MembawaToken(q) /\ sesi'[q].t = sesi[q].t
    BY <2>3 DEF MembawaToken
  <2>6. sesi[p].t # 0 => /\ MembawaToken(p) /\ sesi[p].t \in DOMAIN token \ hidup
                         /\ \A q \in Pemohon : MembawaToken(q) /\ q # p => sesi[q].t # sesi[p].t
                         /\ \A j \in DOMAIN token : token[j].asal # sesi[p].t
    BY <2>3, <2>4 DEF MembawaToken, IAkses, TokenSesi, SatuPenerus
  <2>7. \A q, r \in Pemohon : MembawaToken(q)' /\ MembawaToken(r)' /\ sesi'[q].t = sesi'[r].t => q = r
    BY <2>5 DEF IAkses, SatuPenerus
  <2>8. ASSUME NEW j \in DOMAIN token', token'[j].asal # 0
        PROVE  /\ token'[j].asal \in DOMAIN token' \ hidup'
               /\ \A q \in Pemohon : MembawaToken(q)' => sesi'[q].t # token'[j].asal
               /\ \A i \in DOMAIN token' : token'[i].asal = token'[j].asal => i = j
    <3>1. CASE j = t
      BY <2>3, <2>5, <2>6, <2>8, <3>1
    <3>2. CASE j # t
      <4>1. j \in DOMAIN token /\ token'[j] = token[j] /\ token[j].asal # 0
        BY <2>3, <2>8, <3>2
      <4>2. /\ token[j].asal \in DOMAIN token \ hidup
            /\ \A q \in Pemohon : MembawaToken(q) => sesi[q].t # token[j].asal
            /\ \A i \in DOMAIN token : token[i].asal = token[j].asal => i = j
        BY <4>1 DEF IAkses, SatuPenerus
      <4>3. token'[t].asal # token[j].asal
        BY <2>3, <2>6, <4>1
      <4>4. QED BY <2>3, <2>5, <4>1, <4>2, <4>3
    <3>3. QED BY <3>1, <3>2
  <2>9. QED BY <2>7, <2>8 DEF SatuPenerus
<1>3. ASSUME NEW p \in Pemohon, IndeksToken(p) PROVE SatuPenerus'
  BY <1>3 DEF IndeksToken, KeSesi, IAkses, TipeAkses, RekSesi, TokenSesi, SatuPenerus, MembawaToken,
         TanpaSesi
<1>4. ASSUME NEW p \in Pemohon, PanjangkanIndeks(p) PROVE SatuPenerus'
  BY <1>4 DEF PanjangkanIndeks, UmurBaru, Usai, IAkses, TipeAkses, RekSesi, TokenSesi, SatuPenerus,
         MembawaToken, TanpaSesi
<1>5. ASSUME NEW p \in Pemohon, LepasIndeks(p) PROVE SatuPenerus'
  <2>0. TipeAkses
    BY DEF IAkses
  <2>1. EfekLepas(p)
    BY <1>5, <2>0, LepasHasil
  <2>3. Terbawa
    BY <2>1, PindahMembawa
  <2>4. UNCHANGED <<token, hidup>>
    BY <2>1 DEF EfekLepas
  <2>5. QED BY <2>3, <2>4 DEF Terbawa, IAkses, SatuPenerus
<1>6. ASSUME NEW p \in Pemohon, PeriksaAkun(p) PROVE SatuPenerus'
  <2>0. TipeAkses
    BY DEF IAkses
  <2>1. EfekPeriksa(p)
    BY <1>6, <2>0, PeriksaHasil
  <2>3. Terbawa
    BY <2>1, PindahMembawa
  <2>4. UNCHANGED <<token, hidup>>
    BY <2>1 DEF EfekPeriksa
  <2>5. QED BY <2>3, <2>4 DEF Terbawa, IAkses, SatuPenerus
<1>7. ASSUME NEW p \in Pemohon, DaftarToken(p) PROVE SatuPenerus'
  BY <1>7 DEF DaftarToken, redis, IAkses, TipeAkses, RekSesi, TokenSesi, SatuPenerus, MembawaToken,
         TanpaSesi
<1>8. ASSUME NEW p \in Pemohon, CabutToken(p) PROVE SatuPenerus'
  BY <1>8 DEF CabutToken, IAkses, TipeAkses, RekSesi, TokenSesi, SatuPenerus, MembawaToken,
      TanpaSesi
<1>9. ASSUME NEW p \in Pemohon, CabutIndeks(p) PROVE SatuPenerus'
  BY <1>9 DEF CabutIndeks, Usai, IAkses, TipeAkses, RekSesi, TokenSesi, SatuPenerus, MembawaToken,
         TanpaSesi
<1>10. ASSUME NEW p \in Pemohon, GagalSesi(p) PROVE SatuPenerus'
  BY <1>10 DEF GagalSesi, Usai, redis, IAkses, TipeAkses, RekSesi, TokenSesi, SatuPenerus,
      MembawaToken,
         TanpaSesi
<1>11. ASSUME NEW p \in Pemohon, NEW u \in Akun, Login(p, u) PROVE SatuPenerus'
  BY <1>11 DEF Login, Buka, redis, IAkses, TipeAkses, RekSesi, TokenSesi, SatuPenerus, MembawaToken,
         TanpaSesi
<1>12. ASSUME NEW p \in Pemohon, NEW u \in Akun, UbahAkun(p, u) PROVE SatuPenerus'
  BY <1>12 DEF UbahAkun, Buka, redis, IAkses, TipeAkses, RekSesi, TokenSesi, SatuPenerus,
      MembawaToken,
         TanpaSesi
<1>13. ASSUME NEW p \in Pemohon, NEW t \in hidup, Refresh(p, t) PROVE SatuPenerus'
  BY <1>13 DEF Refresh, Consume, Buka, GetDel, IAkses, TipeAkses, RekSesi, TokenSesi, SatuPenerus,
         MembawaToken, TanpaSesi
<1>14. ASSUME NEW p \in Pemohon, NEW t \in hidup, Logout(p, t) PROVE SatuPenerus'
  BY <1>14 DEF Logout, Consume, Buka, GetDel, IAkses, TipeAkses, RekSesi, TokenSesi, SatuPenerus,
         MembawaToken, TanpaSesi
<1>15. ASSUME NEW u \in Akun, AktifkanAkun(u) PROVE SatuPenerus'
  BY <1>15 DEF AktifkanAkun, redis, IAkses, TipeAkses, RekSesi, TokenSesi, SatuPenerus,
      MembawaToken,
         TanpaSesi
<1>16. CASE DetakMaju
  BY <1>16 DEF DetakMaju, Kedaluwarsa, IAkses, TipeAkses, RekSesi, TokenSesi, SatuPenerus,
      MembawaToken,
         TanpaSesi
<1>17. QED
  BY <1>1, <1>2, <1>3, <1>4, <1>5, <1>6, <1>7, <1>8, <1>9,
     <1>10, <1>11, <1>12, <1>13, <1>14, <1>15, <1>16 DEF NextAkses

\* No life is longer than the one just given.
LEMMA UmurTetap ==
  ASSUME IAkses, TipeAkses', [NextAkses]_varsAkses
  PROVE  UmurTerbatas'
<1> USE AsumsiAkses
<1>1. CASE UNCHANGED varsAkses
  BY <1>1 DEF varsAkses, IAkses, TipeAkses, RekIndeks, UmurTerbatas, IndeksKosong, Abadi
<1>2. ASSUME NEW p \in Pemohon, SimpanToken(p) PROVE UmurTerbatas'
  <2>0. TipeAkses
    BY DEF IAkses
  <2>1. EfekSimpan(p)
    BY <1>2, <2>0, SimpanHasil
  <2>2. /\ DOMAIN token = 1..Len(token) /\ Len(token) \in Nat
        /\ \A t \in DOMAIN token : /\ t \in Nat /\ t # 0 /\ token[t].u \in Akun
                                   /\ token[t].asal \in Nat /\ token[t].habis \in Nat
    BY <2>0, TokenAda
  <2>3. QED BY <2>1, <2>2 DEF EfekSimpan, IAkses, TipeAkses, RekIndeks, UmurTerbatas,
                IndeksKosong, Abadi
<1>3. ASSUME NEW p \in Pemohon, IndeksToken(p) PROVE UmurTerbatas'
  BY <1>3 DEF IndeksToken, KeSesi, IAkses, TipeAkses, RekIndeks, UmurTerbatas, IndeksKosong, Abadi
<1>4. ASSUME NEW p \in Pemohon, PanjangkanIndeks(p) PROVE UmurTerbatas'
  BY <1>4 DEF PanjangkanIndeks, UmurBaru, Usai, IAkses, TipeAkses, RekIndeks, UmurTerbatas,
         IndeksKosong, Abadi
<1>5. ASSUME NEW p \in Pemohon, LepasIndeks(p) PROVE UmurTerbatas'
  <2>0. TipeAkses
    BY DEF IAkses
  <2>1. EfekLepas(p)
    BY <1>5, <2>0, LepasHasil
  <2>2. QED BY <2>1 DEF EfekLepas, Pindah, IAkses, TipeAkses, RekIndeks, UmurTerbatas, IndeksKosong,
                     Abadi
<1>6. ASSUME NEW p \in Pemohon, PeriksaAkun(p) PROVE UmurTerbatas'
  <2>0. TipeAkses
    BY DEF IAkses
  <2>1. EfekPeriksa(p)
    BY <1>6, <2>0, PeriksaHasil
  <2>2. QED BY <2>1 DEF EfekPeriksa, Pindah, IAkses, TipeAkses, RekIndeks, UmurTerbatas,
                     IndeksKosong, Abadi
<1>7. ASSUME NEW p \in Pemohon, DaftarToken(p) PROVE UmurTerbatas'
  BY <1>7 DEF DaftarToken, redis, IAkses, TipeAkses, RekIndeks, UmurTerbatas, IndeksKosong, Abadi
<1>8. ASSUME NEW p \in Pemohon, CabutToken(p) PROVE UmurTerbatas'
  BY <1>8 DEF CabutToken, IAkses, TipeAkses, RekIndeks, UmurTerbatas, IndeksKosong, Abadi
<1>9. ASSUME NEW p \in Pemohon, CabutIndeks(p) PROVE UmurTerbatas'
  BY <1>9 DEF CabutIndeks, Usai, IAkses, TipeAkses, RekIndeks, UmurTerbatas, IndeksKosong, Abadi
<1>10. ASSUME NEW p \in Pemohon, GagalSesi(p) PROVE UmurTerbatas'
  BY <1>10 DEF GagalSesi, Usai, redis, IAkses, TipeAkses, RekIndeks, UmurTerbatas, IndeksKosong,
      Abadi
<1>11. ASSUME NEW p \in Pemohon, NEW u \in Akun, Login(p, u) PROVE UmurTerbatas'
  BY <1>11 DEF Login, Buka, redis, IAkses, TipeAkses, RekIndeks, UmurTerbatas, IndeksKosong, Abadi
<1>12. ASSUME NEW p \in Pemohon, NEW u \in Akun, UbahAkun(p, u) PROVE UmurTerbatas'
  BY <1>12 DEF UbahAkun, Buka, redis, IAkses, TipeAkses, RekIndeks, UmurTerbatas, IndeksKosong,
      Abadi
<1>13. ASSUME NEW p \in Pemohon, NEW t \in hidup, Refresh(p, t) PROVE UmurTerbatas'
  BY <1>13 DEF Refresh, Consume, Buka, GetDel, IAkses, TipeAkses, RekIndeks, UmurTerbatas,
      IndeksKosong,
         Abadi
<1>14. ASSUME NEW p \in Pemohon, NEW t \in hidup, Logout(p, t) PROVE UmurTerbatas'
  BY <1>14 DEF Logout, Consume, Buka, GetDel, IAkses, TipeAkses, RekIndeks, UmurTerbatas,
      IndeksKosong,
         Abadi
<1>15. ASSUME NEW u \in Akun, AktifkanAkun(u) PROVE UmurTerbatas'
  BY <1>15 DEF AktifkanAkun, redis, IAkses, TipeAkses, RekIndeks, UmurTerbatas, IndeksKosong, Abadi
<1>16. CASE DetakMaju
  <2>1. detak \in Nat /\ detak' = detak + 1 /\ indeks \in [Akun -> RekIndeks]
    BY <1>16 DEF DetakMaju, IAkses, TipeAkses
  <2>2. \A t \in DOMAIN token : token[t].habis \in Nat /\ token[t].habis <= detak + Umur
    BY TokenAda DEF IAkses, UmurTerbatas
  <2>3. \A u \in Akun : indeks[u].habis \in Nat \cup {Abadi} /\ indeks[u].habis <= detak + Umur
    BY <2>1 DEF RekIndeks, IAkses, UmurTerbatas
  <2>4. \A u \in Akun : indeks'[u].habis = Abadi \/ indeks'[u].habis = indeks[u].habis
    BY <1>16 DEF DetakMaju, IndeksKosong
  <2>5. \A t \in DOMAIN token' : token'[t].habis <= detak' + Umur
    BY <1>16, <2>1, <2>2 DEF DetakMaju
  <2>6. \A u \in Akun : indeks'[u].habis <= detak' + Umur
    BY <2>1, <2>3, <2>4 DEF Abadi
  <2>7. QED BY <2>5, <2>6 DEF UmurTerbatas
<1>17. QED
  BY <1>1, <1>2, <1>3, <1>4, <1>5, <1>6, <1>7, <1>8, <1>9,
     <1>10, <1>11, <1>12, <1>13, <1>14, <1>15, <1>16 DEF NextAkses

\* The index loses no live token unseen.
LEMMA IndeksTetap ==
  ASSUME IAkses, TipeAkses', [NextAkses]_varsAkses
  PROVE  Terindeks'
<1> USE AsumsiAkses
<1>1. CASE UNCHANGED varsAkses
  BY <1>1 DEF varsAkses, IAkses, TipeAkses, RekSesi, RekIndeks, TokenSesi, MembawaToken, Menyimpan,
         UmurTerbatas, Terindeks, TanpaSesi, IndeksKosong, Abadi
<1>2. ASSUME NEW p \in Pemohon, SimpanToken(p) PROVE Terindeks'
  <2>0. TipeAkses
    BY DEF IAkses
  <2>1. EfekSimpan(p)
    BY <1>2, <2>0, SimpanHasil
  <2>2. /\ DOMAIN token = 1..Len(token) /\ Len(token) \in Nat
        /\ \A t \in DOMAIN token : /\ t \in Nat /\ t # 0 /\ token[t].u \in Akun
                                   /\ token[t].asal \in Nat /\ token[t].habis \in Nat
    BY <2>0, TokenAda
  <2> DEFINE t == Len(token) + 1
  <2>3. /\ t \notin DOMAIN token /\ DOMAIN token' = DOMAIN token \cup {t}
        /\ \A j \in DOMAIN token : token'[j] = token[j]
        /\ token'[t].u = sesi[p].u /\ token'[t].asal = sesi[p].t /\ t # 0
        /\ hidup' = hidup \cup {t} /\ UNCHANGED <<indeks, terkirim, terlewat>>
        /\ sesi[p].langkah = "simpan"
        /\ \A q \in Pemohon : q # p => sesi'[q] = sesi[q]
        /\ sesi'[p].langkah = "indeks" /\ sesi'[p].t = t /\ sesi'[p].u = sesi[p].u
    BY <2>1, <2>2 DEF EfekSimpan
  <2>4. /\ hidup \subseteq DOMAIN token /\ terkirim \subseteq DOMAIN token
        /\ terlewat \subseteq DOMAIN token
    BY <2>0 DEF TipeAkses
  <2> HIDE DEF t
  <2>5. \A j \in (hidup' \cap terkirim') \ terlewat' :
           j \in (hidup \cap terkirim) \ terlewat /\ token'[j] = token[j]
    BY <2>3, <2>4
  <2>6. \A q \in Pemohon : sesi'[q].langkah = "panjangkan" /\ sesi'[q].t \in hidup' \ terlewat' =>
           /\ q # p /\ sesi'[q] = sesi[q] /\ sesi[q].t \in hidup \ terlewat
    BY <2>3 DEF IAkses, TokenSesi, Menyimpan
  <2>7. QED BY <2>3, <2>5, <2>6 DEF IAkses, Terindeks
<1>3. ASSUME NEW p \in Pemohon, IndeksToken(p) PROVE Terindeks'
  BY <1>3 DEF IndeksToken, KeSesi, IAkses, TipeAkses, RekSesi, RekIndeks, TokenSesi, MembawaToken,
         Menyimpan, UmurTerbatas, Terindeks, TanpaSesi, IndeksKosong, Abadi
<1>4. ASSUME NEW p \in Pemohon, PanjangkanIndeks(p) PROVE Terindeks'
  BY <1>4 DEF PanjangkanIndeks, UmurBaru, Usai, IAkses, TipeAkses, RekSesi, RekIndeks, TokenSesi,
         MembawaToken, Menyimpan, UmurTerbatas, Terindeks, TanpaSesi, IndeksKosong, Abadi
<1>5. ASSUME NEW p \in Pemohon, LepasIndeks(p) PROVE Terindeks'
  <2>0. TipeAkses
    BY DEF IAkses
  <2>1. EfekLepas(p)
    BY <1>5, <2>0, LepasHasil
  <2>2. Terbawa
    BY <2>1, PindahMembawa
  <2>3. UNCHANGED <<token, hidup, terkirim, terlewat>>
    BY <2>1 DEF EfekLepas
  <2>4. sesi[p].t = 0 \/ sesi[p].t \in terkirim \ hidup
    BY <2>1 DEF EfekLepas, IAkses, TokenSesi, MembawaToken
  <2>5. \A u \in Akun : \A j \in indeks[u].isi : j # sesi[p].t =>
           j \in indeks'[u].isi /\ indeks'[u].habis = indeks[u].habis
    BY <2>1 DEF EfekLepas
  <2>6. ASSUME NEW j \in (hidup \cap terkirim) \ terlewat
        PROVE  /\ j \in indeks'[token[j].u].isi /\ indeks'[token[j].u].habis # Abadi
               /\ token[j].habis <= indeks'[token[j].u].habis
    <3>1. token[j].u \in Akun /\ j # 0
      BY <2>0, TokenAda DEF TipeAkses
    <3>2. j # sesi[p].t
      BY <2>4, <3>1
    <3>3. /\ j \in indeks[token[j].u].isi /\ indeks[token[j].u].habis # Abadi
          /\ token[j].habis <= indeks[token[j].u].habis
      BY DEF IAkses, Terindeks
    <3>4. QED BY <2>5, <3>1, <3>2, <3>3
  <2>7. ASSUME NEW q \in Pemohon, sesi'[q].langkah = "panjangkan", sesi'[q].t \in hidup \ terlewat
        PROVE  sesi'[q].t \in indeks'[sesi'[q].u].isi
    <3>1. sesi'[q] = sesi[q]
      BY <2>2, <2>7 DEF Terbawa, Menyimpan
    <3>2. sesi[q].u \in Akun /\ sesi[q].t \in DOMAIN token /\ sesi[q].t # sesi[p].t
      BY <2>0, <2>4, <2>7, <3>1, TokenAda DEF TipeAkses, IAkses, TokenSesi, Menyimpan
    <3>3. QED BY <2>5, <2>7, <3>1, <3>2 DEF IAkses, Terindeks
  <2>8. QED BY <2>3, <2>6, <2>7 DEF Terindeks
<1>6. ASSUME NEW p \in Pemohon, PeriksaAkun(p) PROVE Terindeks'
  <2>0. TipeAkses
    BY DEF IAkses
  <2>1. EfekPeriksa(p)
    BY <1>6, <2>0, PeriksaHasil
  <2>2. QED BY SMTT(20), <2>1 DEF EfekPeriksa, Pindah, IAkses, TipeAkses, RekSesi, RekIndeks, TokenSesi,
                     MembawaToken, Menyimpan, UmurTerbatas, Terindeks, TanpaSesi, IndeksKosong,
                     Abadi
<1>7. ASSUME NEW p \in Pemohon, DaftarToken(p) PROVE Terindeks'
  BY <1>7 DEF DaftarToken, redis, IAkses, TipeAkses, RekSesi, RekIndeks, TokenSesi, MembawaToken,
         Menyimpan, UmurTerbatas, Terindeks, TanpaSesi, IndeksKosong, Abadi
<1>8. ASSUME NEW p \in Pemohon, CabutToken(p) PROVE Terindeks'
  BY <1>8 DEF CabutToken, IAkses, TipeAkses, RekSesi, RekIndeks, TokenSesi, MembawaToken, Menyimpan,
         UmurTerbatas, Terindeks, TanpaSesi, IndeksKosong, Abadi
<1>9. ASSUME NEW p \in Pemohon, CabutIndeks(p) PROVE Terindeks'
  BY <1>9 DEF CabutIndeks, Usai, IAkses, TipeAkses, RekSesi, RekIndeks, TokenSesi, MembawaToken,
         Menyimpan, UmurTerbatas, Terindeks, TanpaSesi, IndeksKosong, Abadi
<1>10. ASSUME NEW p \in Pemohon, GagalSesi(p) PROVE Terindeks'
  BY <1>10 DEF GagalSesi, Usai, redis, IAkses, TipeAkses, RekSesi, RekIndeks, TokenSesi,
      MembawaToken,
         Menyimpan, UmurTerbatas, Terindeks, TanpaSesi, IndeksKosong, Abadi
<1>11. ASSUME NEW p \in Pemohon, NEW u \in Akun, Login(p, u) PROVE Terindeks'
  BY <1>11 DEF Login, Buka, redis, IAkses, TipeAkses, RekSesi, RekIndeks, TokenSesi, MembawaToken,
         Menyimpan, UmurTerbatas, Terindeks, TanpaSesi, IndeksKosong, Abadi
<1>12. ASSUME NEW p \in Pemohon, NEW u \in Akun, UbahAkun(p, u) PROVE Terindeks'
  BY <1>12 DEF UbahAkun, Buka, redis, IAkses, TipeAkses, RekSesi, RekIndeks, TokenSesi,
      MembawaToken,
         Menyimpan, UmurTerbatas, Terindeks, TanpaSesi, IndeksKosong, Abadi
<1>13. ASSUME NEW p \in Pemohon, NEW t \in hidup, Refresh(p, t) PROVE Terindeks'
  BY <1>13 DEF Refresh, Consume, Buka, GetDel, IAkses, TipeAkses, RekSesi, RekIndeks, TokenSesi,
         MembawaToken, Menyimpan, UmurTerbatas, Terindeks, TanpaSesi, IndeksKosong, Abadi
<1>14. ASSUME NEW p \in Pemohon, NEW t \in hidup, Logout(p, t) PROVE Terindeks'
  BY <1>14 DEF Logout, Consume, Buka, GetDel, IAkses, TipeAkses, RekSesi, RekIndeks, TokenSesi,
         MembawaToken, Menyimpan, UmurTerbatas, Terindeks, TanpaSesi, IndeksKosong, Abadi
<1>15. ASSUME NEW u \in Akun, AktifkanAkun(u) PROVE Terindeks'
  BY <1>15 DEF AktifkanAkun, redis, IAkses, TipeAkses, RekSesi, RekIndeks, TokenSesi, MembawaToken,
         Menyimpan, UmurTerbatas, Terindeks, TanpaSesi, IndeksKosong, Abadi
<1>16. CASE DetakMaju
  <2>1. detak \in Nat /\ detak' = detak + 1 /\ indeks \in [Akun -> RekIndeks]
    BY <1>16 DEF DetakMaju, IAkses, TipeAkses
  <2>2. UNCHANGED <<token, sesi, terkirim>>
    BY <1>16 DEF DetakMaju
  <2>3. ASSUME NEW t \in (hidup' \cap terkirim) \ terlewat'
        PROVE  /\ t \in indeks'[token[t].u].isi /\ indeks'[token[t].u].habis # Abadi
               /\ token[t].habis <= indeks'[token[t].u].habis
    <3> DEFINE u == token[t].u
    <3>1. t \in (hidup \cap terkirim) \ terlewat /\ ~(token[t].habis # Abadi /\ token[t].habis <= detak')
      BY <1>16, <2>3 DEF DetakMaju, Kedaluwarsa
    <3>2. u \in Akun /\ token[t].habis \in Nat
      BY <3>1, TokenAda DEF IAkses, TipeAkses
    <3>3. t \in indeks[u].isi /\ indeks[u].habis # Abadi /\ token[t].habis <= indeks[u].habis
      BY <3>1 DEF IAkses, Terindeks
    <3>4. indeks[u].habis \in Nat
      BY <2>1, <3>2, <3>3 DEF RekIndeks
    <3>5. ~(indeks[u].habis <= detak')
      BY <2>1, <3>1, <3>2, <3>3, <3>4 DEF Abadi
    <3>6. indeks'[u] = indeks[u]
      BY <1>16, <3>2, <3>5 DEF DetakMaju, Kedaluwarsa
    <3>7. QED BY <3>3, <3>6
  <2>4. ASSUME NEW q \in Pemohon, sesi[q].langkah = "panjangkan", sesi[q].t \in hidup' \ terlewat'
        PROVE  sesi[q].t \in indeks'[sesi[q].u].isi
    <3>1. sesi[q].t \in hidup \ terlewat
      BY <1>16, <2>4 DEF DetakMaju
    <3>2. sesi[q].u \in Akun /\ sesi[q].t \in indeks[sesi[q].u].isi
      BY <2>4, <3>1 DEF IAkses, TipeAkses, Terindeks
    <3>3. ~(indeks[sesi[q].u].habis # Abadi /\ indeks[sesi[q].u].habis <= detak')
      BY <1>16, <2>4 DEF DetakMaju, Kedaluwarsa
    <3>4. indeks'[sesi[q].u] = indeks[sesi[q].u]
      BY <1>16, <3>2, <3>3 DEF DetakMaju, Kedaluwarsa
    <3>5. QED BY <3>2, <3>4
  <2>5. QED BY <2>2, <2>3, <2>4 DEF Terindeks
<1>17. QED
  BY <1>1, <1>2, <1>3, <1>4, <1>5, <1>6, <1>7, <1>8, <1>9,
     <1>10, <1>11, <1>12, <1>13, <1>14, <1>15, <1>16 DEF NextAkses

-----------------------------------------------------------------------------
LEMMA AwalAkses ==
  ASSUME InitAkses
  PROVE  IAkses
<1> USE AsumsiAkses DEF InitAkses
<1>1. token \in Seq(RekToken) /\ Len(token) = 0 /\ DOMAIN token = {}
  OBVIOUS
<1>2. indeks \in [Akun -> RekIndeks] /\ sesi \in [Pemohon -> RekSesi]
  BY DEF RekIndeks, RekSesi, IndeksKosong, Abadi, TanpaSesi, Langkah
<1>3. TipeAkses
  BY <1>1, <1>2 DEF TipeAkses, TanpaSesi
<1>4. TokenSesi
  BY DEF TokenSesi, MembawaToken, Menyimpan, TanpaSesi
<1>5. SatuPenerus
  BY <1>1 DEF SatuPenerus, MembawaToken, TanpaSesi
<1>6. UmurTerbatas
  BY <1>1 DEF UmurTerbatas, IndeksKosong, Abadi
<1>7. Terindeks
  BY DEF Terindeks, TanpaSesi
<1>8. QED BY <1>3, <1>4, <1>5, <1>6, <1>7 DEF IAkses

\* The inductive invariant, of every reachable state.
LEMMA IAksesInduktif == SpecAkses => []IAkses
<1>1. InitAkses => IAkses
  BY AwalAkses
<1>2. IAkses /\ [NextAkses]_varsAkses => IAkses'
  <2> SUFFICES ASSUME IAkses, [NextAkses]_varsAkses
               PROVE  IAkses'
    OBVIOUS
  <2>1. TipeAkses'
    BY TipeTetap DEF IAkses
  <2>2. TokenSesi' /\ SatuPenerus' /\ UmurTerbatas' /\ Terindeks'
    BY <2>1, TokenSesiTetap, PenerusTetap, UmurTetap, IndeksTetap
  <2>3. QED BY <2>1, <2>2 DEF IAkses
<1>3. QED BY <1>1, <1>2, PTL DEF SpecAkses

\* A refresh token is spent at most once: GETDEL gives it to one request, and
\* from then on that request, or the one token it became, is its only heir.
LEMMA TokenSekaliPakai == SpecAkses => []SekaliPakai
<1>1. IAkses => SekaliPakai
  <2> SUFFICES ASSUME IAkses, NEW t \in DOMAIN token, NEW x \in Penerus(t)
               PROVE  t \notin hidup /\ Cardinality(Penerus(t)) = 1
    BY DEF SekaliPakai
  <2>1. t # 0
    BY TokenAda DEF IAkses
  <2> DEFINE Anak   == {j \in DOMAIN token : token[j].asal = t}
             Bawa   == {p \in Pemohon : MembawaToken(p) /\ sesi[p].t = t}
  <2>3. Penerus(t) = Anak \cup Bawa
    BY <2>1 DEF Penerus, MembawaToken
  <2>4. (Anak = {} \/ Bawa = {}) /\ (\A i, j \in Anak : i = j) /\ \A p, q \in Bawa : p = q
    BY <2>1 DEF IAkses, SatuPenerus
  <2>5. Penerus(t) = {x}
    BY <2>3, <2>4
  <2>6. Cardinality(Penerus(t)) = 1
    BY <2>5, FS_Singleton
  <2>7. t \notin hidup
    BY <2>1, <2>3 DEF IAkses, SatuPenerus, TokenSesi
  <2>8. QED BY <2>6, <2>7
<1>2. QED BY <1>1, IAksesInduktif, PTL

\* RevokeAllForUser deletes what the index names, and the index names every
\* live token a client holds, but for those lost while their own Store ran.
LEMMA IndeksSelaluCakup == SpecAkses => []IndeksCakup
<1>1. IAkses => IndeksCakup
  BY DEF IAkses, Terindeks, IndeksCakup
<1>2. QED BY <1>1, IAksesInduktif, PTL

\* Logging out everywhere can be trusted: no token has two heirs, and the index
\* that RevokeAllForUser reads knows them all (refresh_token_repository.go).
THEOREM AksesSelaluTerjaga == SpecAkses => []AksesTerjaga
<1>1. QED BY TokenSekaliPakai, IndeksSelaluCakup, PTL DEF AksesTerjaga

\* An index names tokens only.
IndeksBertoken == \A u \in Akun : indeks[u].isi \subseteq DOMAIN token

LEMMA IndeksBertokenTetap ==
  ASSUME IAkses, IndeksBertoken, [NextAkses]_varsAkses
  PROVE  IndeksBertoken'
<1>1. TipeAkses /\ TipeAkses'
  BY TipeTetap DEF IAkses
<1>2. DOMAIN token \subseteq DOMAIN token'
  <2>1. ASSUME NEW p \in Pemohon, SimpanToken(p) PROVE DOMAIN token \subseteq DOMAIN token'
    BY <1>1, <2>1 DEF SimpanToken, TipeAkses
  <2>2. CASE token' = token
    BY <2>2
  <2>3. QED
    BY <2>1, <2>2 DEF NextAkses, varsAkses, redis, IndeksToken, PanjangkanIndeks, LepasIndeks,
       PeriksaAkun, DaftarToken, CabutToken, CabutIndeks, GagalSesi, Login, UbahAkun, Refresh,
       Logout, Consume, AktifkanAkun, DetakMaju
<1>3. ASSUME \A u \in Akun : indeks'[u].isi \subseteq indeks[u].isi PROVE IndeksBertoken'
  BY <1>2, <1>3 DEF IndeksBertoken
<1>4. ASSUME NEW p \in Pemohon, IndeksToken(p) PROVE IndeksBertoken'
  <2>1. sesi[p].t \in DOMAIN token
    BY <1>4 DEF IndeksToken, IAkses, TokenSesi, Menyimpan
  <2>2. QED BY <1>1, <1>2, <1>4, <2>1 DEF IndeksToken, IndeksBertoken, TipeAkses, RekIndeks
<1>5. ASSUME NEW p \in Pemohon, PanjangkanIndeks(p) PROVE IndeksBertoken'
  BY <1>1, <1>3, <1>5 DEF PanjangkanIndeks, TipeAkses, RekIndeks
<1>6. ASSUME NEW p \in Pemohon, LepasIndeks(p) PROVE IndeksBertoken'
  BY <1>1, <1>3, <1>6 DEF LepasIndeks, Tanpa, IndeksKosong, TipeAkses, RekIndeks
<1>7. ASSUME NEW p \in Pemohon, CabutIndeks(p) PROVE IndeksBertoken'
  BY <1>1, <1>3, <1>7 DEF CabutIndeks, IndeksKosong, TipeAkses, RekIndeks
<1>8. CASE DetakMaju
  BY <1>3, <1>8 DEF DetakMaju, IndeksKosong
<1>9. CASE indeks' = indeks
  BY <1>3, <1>9
<1>10. QED
  BY <1>4, <1>5, <1>6, <1>7, <1>8, <1>9
    DEF NextAkses, varsAkses, redis, SimpanToken, PeriksaAkun, DaftarToken, CabutToken, GagalSesi,
        Login, UbahAkun, Refresh, Logout, Consume, AktifkanAkun

\* The types.
LEMMA TipeAksesSelalu == SpecAkses => []TypeOKAkses
<1>1. InitAkses => akun \in [Akun -> BOOLEAN]
  BY DEF InitAkses
<1>2. akun \in [Akun -> BOOLEAN] /\ [NextAkses]_varsAkses => (akun \in [Akun -> BOOLEAN])'
  <2>1. ASSUME akun \in [Akun -> BOOLEAN], NEW u \in Akun, NEW p, UbahAkun(p, u) \/ AktifkanAkun(u)
        PROVE  akun' \in [Akun -> BOOLEAN]
    BY <2>1 DEF UbahAkun, AktifkanAkun
  <2>2. QED
    BY <2>1 DEF NextAkses, varsAkses, SimpanToken, IndeksToken, PanjangkanIndeks, LepasIndeks,
           PeriksaAkun, DaftarToken, CabutToken, CabutIndeks, GagalSesi, Login, Refresh, Logout,
           Consume, DetakMaju
<1>3. InitAkses => IndeksBertoken
  BY DEF InitAkses, IndeksKosong, IndeksBertoken
<1>4. IAkses /\ IndeksBertoken /\ [NextAkses]_varsAkses => IndeksBertoken'
  BY IndeksBertokenTetap
<1>5. IAkses /\ IndeksBertoken /\ akun \in [Akun -> BOOLEAN] => TypeOKAkses
  BY DEF IAkses, TipeAkses, RekIndeks, Abadi, IndeksBertoken, TypeOKAkses
<1>6. QED BY <1>1, <1>2, <1>3, <1>4, <1>5, IAksesInduktif, PTL DEF SpecAkses
=============================================================================
