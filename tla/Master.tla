------------------------------- MODULE Master -------------------------------
(***************************************************************************)
(* Master rows and accounts: every kind is created and patched by a        *)
(* transaction of three steps, the checks (plain reads), the write, which  *)
(* takes the row and its unique keys, and the commit; an account's grants  *)
(* are replaced between the last two.                                      *)
(***************************************************************************)
EXTENDS Integers, Sequences, FiniteSets

CONSTANTS Peminta,     \* requests running at once
          Teks,        \* texts of a column
          Lower,       \* [Teks -> Teks], what lower() makes of a text
          IndukAwal,   \* [Jenis -> rows that exist], see BarisMaster
          HakAwal,     \* [grant -> id], the grants that exist
          PilihanHak,  \* sets of <<role, unit>> a request may ask for
          MaksMinta    \* bound: requests begun

Jenis == {"satuan", "ekspedisi", "role", "supplier", "pelanggan", "unit_kerja", "ruang", "users"}
KolomKosong == "NULL"
Ya == "aktif"
Tidak == "pensiun"
SemuaUnit == 0         \* a grant whose id_unit_kerja is NULL

KolomUnik(j) ==
  CASE j \in {"satuan", "ekspedisi", "role"} -> {"nama"}
    [] j = "users" -> {"username", "email"}
    [] OTHER -> {"kode"}

\* lower(a) = lower(b), never true of a NULL.
Sama(a, b) == a # KolomKosong /\ b # KolomKosong /\ Lower[a] = Lower[b]

\* A row: is_aktif is NOT NULL, every other column text or NULL.
BarisIsi(r) ==
  /\ "aktif" \in DOMAIN r /\ r.aktif \in {Ya, Tidak}
  /\ \A k \in DOMAIN r \ {"aktif"} : r[k] \in Teks \cup {KolomKosong}

ASSUME AsumsiMaster ==
  /\ KolomKosong \notin Teks
  /\ IndukAwal \in [Jenis -> Seq(UNION {{IndukAwal[j][i] : i \in DOMAIN IndukAwal[j]} : j \in Jenis})]
  /\ HakAwal = [k \in DOMAIN HakAwal |-> HakAwal[k]]
  /\ \A j \in Jenis : \A a, b \in DOMAIN IndukAwal[j] :
       a # b => \A k \in KolomUnik(j) : ~Sama(IndukAwal[j][a][k], IndukAwal[j][b][k])
  /\ \A j \in Jenis : \A i \in DOMAIN IndukAwal[j] : BarisIsi(IndukAwal[j][i])
  /\ IsFiniteSet(DOMAIN HakAwal)
  /\ \A k \in DOMAIN HakAwal : /\ k.u \in DOMAIN IndukAwal["users"]
                               /\ HakAwal[k] \in 1..Cardinality(DOMAIN HakAwal)
  /\ MaksMinta \in Nat /\ \A H \in PilihanHak : IsFiniteSet(H)

VARIABLES induk,     \* [Jenis -> committed rows, by id]
          hak,       \* user_role: [[u, role, unit] -> id]
          nomorHak,  \* identities of user_role drawn
          terpakai,  \* rooms that hold goods or are under an open count
          minta,     \* [Peminta -> its request]
          dimulai,   \* requests begun
          diminta    \* history: what the committed requests asked of each row,
                     \* and of each account's grants

varsMaster == <<induk, hak, nomorHak, terpakai, minta, dimulai, diminta>>

TanpaMinta ==
  [langkah |-> "diam", j |-> "satuan", id |-> 0, patch |-> <<>>, ganti |-> FALSE,
   mau |-> {}, baris |-> <<>>, hapus |-> {}, sisip |-> <<>>]

InitMaster ==
  /\ induk = IndukAwal /\ hak = HakAwal /\ nomorHak = Cardinality(DOMAIN HakAwal)
  /\ terpakai = {}
  /\ minta = [s \in Peminta |-> TanpaMinta] /\ dimulai = 0
  /\ diminta = [induk |-> IndukAwal, hak |-> HakAwal]

(***************************************************************************)
(* Pieces of the statements.                                               *)
(***************************************************************************)
Terpakai(j, k, p, kecuali) ==
  k \in DOMAIN p /\ \E i \in DOMAIN induk[j] : i # kecuali /\ Sama(induk[j][i][k], p[k])

\* COALESCE leaves the column when the body does not name it; CASE WHEN Set
\* also stores a NULL.
Coalesce(r, p, K) == [k \in DOMAIN r |-> IF k \in K \cap DOMAIN p /\ p[k] # KolomKosong THEN p[k] ELSE r[k]]
Ganti(r, p, K)    == [k \in DOMAIN r |-> IF k \in K \cap DOMAIN p THEN p[k] ELSE r[k]]

\* Patches of one column: a NOT NULL column is never cleared, no body is empty.
Patch(wajib, boleh) ==
  (UNION {[{k} -> Teks] : k \in wajib}) \cup (UNION {[{k} -> Teks \cup {KolomKosong}] : k \in boleh})
    \cup [{"aktif"} -> {Ya, Tidak}]

MulaiMinta(s, j, i, p) ==
  /\ minta[s] = TanpaMinta /\ dimulai < MaksMinta /\ dimulai' = dimulai + 1
  /\ minta' = [minta EXCEPT ![s] =
                 [TanpaMinta EXCEPT !.langkah = "tulis", !.j = j, !.id = i, !.patch = p]]
  /\ UNCHANGED <<induk, hak, nomorHak, terpakai, diminta>>

(***************************************************************************)
(* The kinds.                                                              *)
(***************************************************************************)
SatuanTerpakai(p, i) == Terpakai("satuan", "nama", p, i)
BuatSatuan(s) == \E p \in [{"nama"} -> Teks] : ~SatuanTerpakai(p, 0) /\ MulaiMinta(s, "satuan", 0, p)
UbahSatuan(s, i) == \E p \in Patch({"nama"}, {}) : ~SatuanTerpakai(p, i) /\ MulaiMinta(s, "satuan", i, p)
SisipSatuan(p) == [nama |-> p.nama, aktif |-> Ya]
SetSatuan(r, p) == Coalesce(r, p, {"nama", "aktif"})

EkspedisiTerpakai(p, i) == Terpakai("ekspedisi", "nama", p, i)
BuatEkspedisi(s) ==
  \E p \in [{"nama"} -> Teks] : ~EkspedisiTerpakai(p, 0) /\ MulaiMinta(s, "ekspedisi", 0, p)
UbahEkspedisi(s, i) ==
  \E p \in Patch({"nama"}, {"telepon"}) : ~EkspedisiTerpakai(p, i) /\ MulaiMinta(s, "ekspedisi", i, p)
SisipEkspedisi(p) == [nama |-> p.nama, telepon |-> KolomKosong, aktif |-> Ya]
SetEkspedisi(r, p) == Ganti(Coalesce(r, p, {"nama", "aktif"}), p, {"telepon"})

RoleTerpakai(p, i) == Terpakai("role", "nama", p, i)
BuatRole(s) == \E p \in [{"nama"} -> Teks] : ~RoleTerpakai(p, 0) /\ MulaiMinta(s, "role", 0, p)
UbahRole(s, i) == \E p \in Patch({"nama"}, {}) : ~RoleTerpakai(p, i) /\ MulaiMinta(s, "role", i, p)
SisipRole(p) == [nama |-> p.nama, aktif |-> Ya]
SetRole(r, p) == Coalesce(r, p, {"nama", "aktif"})

\* kode is nullable: a NULL collides with nothing.
IsianKode == [{"kode", "nama"} -> Teks] \cup [{"nama"} -> Teks]
Kode(p) == IF "kode" \in DOMAIN p THEN p.kode ELSE KolomKosong

SupplierTerpakai(p, i) == Terpakai("supplier", "kode", p, i)
BuatSupplier(s) == \E p \in IsianKode : ~SupplierTerpakai(p, 0) /\ MulaiMinta(s, "supplier", 0, p)
UbahSupplier(s, i) ==
  \E p \in Patch({"nama"}, {"kode", "npwp"}) : ~SupplierTerpakai(p, i) /\ MulaiMinta(s, "supplier", i, p)
SisipSupplier(p) == [kode |-> Kode(p), nama |-> p.nama, npwp |-> KolomKosong, aktif |-> Ya]
SetSupplier(r, p) == Ganti(Coalesce(r, p, {"nama", "aktif"}), p, {"kode", "npwp"})

PelangganTerpakai(p, i) == Terpakai("pelanggan", "kode", p, i)
BuatPelanggan(s) == \E p \in IsianKode : ~PelangganTerpakai(p, 0) /\ MulaiMinta(s, "pelanggan", 0, p)
UbahPelanggan(s, i) ==
  \E p \in Patch({"nama"}, {"kode", "plafon_kredit"}) :
    ~PelangganTerpakai(p, i) /\ MulaiMinta(s, "pelanggan", i, p)
SisipPelanggan(p) == [kode |-> Kode(p), nama |-> p.nama, plafon_kredit |-> KolomKosong, aktif |-> Ya]
SetPelanggan(r, p) == Ganti(Coalesce(r, p, {"nama", "aktif"}), p, {"kode", "plafon_kredit"})

UnitKerjaTerpakai(p, i) == Terpakai("unit_kerja", "kode", p, i)
BuatUnitKerja(s) == \E p \in IsianKode : ~UnitKerjaTerpakai(p, 0) /\ MulaiMinta(s, "unit_kerja", 0, p)
UbahUnitKerja(s, i) ==
  \E p \in Patch({"nama"}, {"kode"}) : ~UnitKerjaTerpakai(p, i) /\ MulaiMinta(s, "unit_kerja", i, p)
SisipUnitKerja(p) == [kode |-> Kode(p), nama |-> p.nama, aktif |-> Ya]
SetUnitKerja(r, p) == Ganti(Coalesce(r, p, {"nama", "aktif"}), p, {"kode"})

\* ExistsByKode of a room excepts no row, so its own kode counts as taken.
RuangTerpakai(p) == Terpakai("ruang", "kode", p, 0)
BuatRuang(s) ==
  /\ \E u \in DOMAIN induk["unit_kerja"] : induk["unit_kerja"][u].aktif = Ya
  /\ \E p \in IsianKode : ~RuangTerpakai(p) /\ MulaiMinta(s, "ruang", 0, p)
\* A room retires empty and not under count, as far as these reads can tell.
BolehPensiun(i) == i \notin terpakai
UbahRuang(s, i) ==
  \E p \in Patch({"nama"}, {"kode"}) :
    /\ ~RuangTerpakai(p) /\ (p = [aktif |-> Tidak] => BolehPensiun(i))
    /\ MulaiMinta(s, "ruang", i, p)
SisipRuang(p) == [kode |-> Kode(p), nama |-> p.nama, aktif |-> Ya]
SetRuang(r, p) == Ganti(Coalesce(r, p, {"nama", "aktif"}), p, {"kode"})

(***************************************************************************)
(* Accounts.                                                               *)
(***************************************************************************)
UsernameTerpakai(p, i) == Terpakai("users", "username", p, i)
EmailTerpakai(p, i) == Terpakai("users", "email", p, i)

\* CountActiveByIDs of the roles, then of the units.
RoleAktif(H) == \A h \in H : h[1] \in DOMAIN induk["role"] /\ induk["role"][h[1]].aktif = Ya
UnitKerjaAktif(H) ==
  \A h \in H : h[2] = SemuaUnit \/ (h[2] \in DOMAIN induk["unit_kerja"] /\ induk["unit_kerja"][h[2]].aktif = Ya)

requireActiveGrants(H) == RoleAktif(H) /\ UnitKerjaAktif(H)

MulaiAkun(s, i, p, ganti, H) ==
  /\ minta[s] = TanpaMinta /\ dimulai < MaksMinta /\ dimulai' = dimulai + 1
  /\ ~UsernameTerpakai(p, i) /\ ~EmailTerpakai(p, i) /\ requireActiveGrants(H)
  /\ minta' = [minta EXCEPT ![s] =
                 [TanpaMinta EXCEPT !.langkah = "tulis", !.j = "users", !.id = i, !.patch = p,
                                    !.ganti = ganti, !.mau = H]]
  /\ UNCHANGED <<induk, hak, nomorHak, terpakai, diminta>>

BuatUser(s) ==
  \E p \in [{"username", "email"} -> Teks] \cup [{"username"} -> Teks], H \in PilihanHak :
    MulaiAkun(s, 0, p, TRUE, H)

UbahUser(s, i) ==
  \/ \E p \in Patch({"username", "password"}, {"email"}) : MulaiAkun(s, i, p, FALSE, {})
  \/ \E p \in {<<>>, [aktif |-> Ya]}, H \in PilihanHak : MulaiAkun(s, i, p, TRUE, H)

SisipUser(p) ==
  [username |-> p.username, email |-> IF "email" \in DOMAIN p THEN p.email ELSE KolomKosong,
   password |-> CHOOSE x \in Teks : TRUE, aktif |-> Ya]
SetUser(r, p) == Ganti(Coalesce(r, p, {"username", "password", "aktif"}), p, {"email"})

(***************************************************************************)
(* The write: INSERT or UPDATE, which sees the last committed row, takes   *)
(* it and waits for whoever holds it or one of its new keys.  A request    *)
(* that only replaces grants touches the row all the same.                 *)
(***************************************************************************)
BarisMaster(j, p) ==
  CASE j = "satuan"     -> SisipSatuan(p)     [] j = "ekspedisi"  -> SisipEkspedisi(p)
    [] j = "role"       -> SisipRole(p)       [] j = "supplier"   -> SisipSupplier(p)
    [] j = "pelanggan"  -> SisipPelanggan(p)  [] j = "unit_kerja" -> SisipUnitKerja(p)
    [] j = "ruang"      -> SisipRuang(p)      [] j = "users"      -> SisipUser(p)

BarisPatch(j, r, p) ==
  CASE j = "satuan"     -> SetSatuan(r, p)     [] j = "ekspedisi"  -> SetEkspedisi(r, p)
    [] j = "role"       -> SetRole(r, p)       [] j = "supplier"   -> SetSupplier(r, p)
    [] j = "pelanggan"  -> SetPelanggan(r, p)  [] j = "unit_kerja" -> SetUnitKerja(r, p)
    [] j = "ruang"      -> SetRuang(r, p)      [] j = "users"      -> SetUser(r, p)

Menulis(t) == minta[t].langkah \in {"hapus", "sisip", "commit"}

\* Fault: a request that only replaces grants touches no row.
PegangTanpaTouch(s) ==
  {t \in Peminta \ {s} : /\ Menulis(t) /\ minta[t].j = minta[s].j /\ minta[t].id = minta[s].id
                         /\ minta[s].id # 0 /\ minta[s].patch # <<>> /\ minta[t].patch # <<>>}

\* Transactions that hold the row s writes.
Pemegang(s) ==
  {t \in Peminta \ {s} : /\ Menulis(t) /\ minta[t].j = minta[s].j /\ minta[t].id = minta[s].id
                         /\ minta[s].id # 0}

Tulis(s) ==
  LET m == minta[s]
      r == IF m.id = 0 THEN BarisMaster(m.j, m.patch) ELSE BarisPatch(m.j, induk[m.j][m.id], m.patch)
      bentrok == \E k \in KolomUnik(m.j), i \in DOMAIN induk[m.j] :
                   i # m.id /\ Sama(induk[m.j][i][k], r[k]) IN
  /\ m.langkah = "tulis" /\ Pemegang(s) = {}
  /\ \A t \in Peminta \ {s}, k \in KolomUnik(m.j) :
       Menulis(t) /\ minta[t].j = m.j /\ (m.id = 0 \/ minta[t].id # m.id) =>
         ~Sama(minta[t].baris[k], r[k])
  /\ minta' = [minta EXCEPT ![s] =
                 IF bentrok THEN TanpaMinta
                 ELSE [m EXCEPT !.baris = r, !.langkah = IF m.ganti THEN "hapus" ELSE "commit"]]
  /\ UNCHANGED <<induk, hak, nomorHak, terpakai, dimulai, diminta>>

(***************************************************************************)
(* ReplaceRoles: delete what is not wanted, insert what is missing; each   *)
(* statement waits for the rows and keys another transaction has touched.  *)
(***************************************************************************)
KunciHak(u, h) == [u |-> u, role |-> h[1], unit |-> h[2]]
HakMilik(u) == {k \in DOMAIN hak : k.u = u}
TersentuhLain(s, K) == \E t \in Peminta \ {s} : K \cap (minta[t].hapus \cup DOMAIN minta[t].sisip) # {}

HapusHak(s) ==
  LET m == minta[s]
      K == HakMilik(m.id) \ {KunciHak(m.id, h) : h \in m.mau} IN
  /\ m.langkah = "hapus" /\ ~TersentuhLain(s, K)
  /\ minta' = [minta EXCEPT ![s].hapus = K, ![s].langkah = "sisip"]
  /\ UNCHANGED <<induk, hak, nomorHak, terpakai, dimulai, diminta>>

\* Identities are drawn in some order of the missing grants.
SisipHak(s) ==
  LET m == minta[s]
      K == {KunciHak(m.id, h) : h \in m.mau} \ DOMAIN hak IN
  /\ m.langkah = "sisip" /\ ~TersentuhLain(s, {KunciHak(m.id, h) : h \in m.mau})
  /\ \E f \in [K -> (nomorHak + 1)..(nomorHak + Cardinality(K))] :
       /\ \A a, b \in K : f[a] = f[b] => a = b
       /\ minta' = [minta EXCEPT ![s].sisip = f, ![s].langkah = "commit"]
  /\ nomorHak' = nomorHak + Cardinality(K)
  /\ UNCHANGED <<induk, hak, terpakai, dimulai, diminta>>

\* A new account's id is drawn by its INSERT; nobody sees it before this.
Milik(f, u) == [k \in {[x EXCEPT !.u = u] : x \in DOMAIN f} |-> f[CHOOSE x \in DOMAIN f : [x EXCEPT !.u = u] = k]]

\* The row r with the columns the request names.
Tertimpa(r, p) == [k \in DOMAIN r |-> IF k \in DOMAIN p THEN p[k] ELSE r[k]]

Commit(s) ==
  LET m  == minta[s]
      i  == IF m.id = 0 THEN Len(induk[m.j]) + 1 ELSE m.id
      f  == Milik(m.sisip, i)
      simpan(rows, r) == IF m.id = 0 THEN Append(rows, r) ELSE [rows EXCEPT ![i] = r]
      mau  == {KunciHak(i, h) : h \in m.mau}
      tetap == {k \in DOMAIN diminta.hak : k.u # i \/ k \in mau} IN
  /\ m.langkah = "commit"
  /\ induk' = [induk EXCEPT ![m.j] = simpan(@, m.baris)]
  /\ hak' = [k \in DOMAIN f \cup (DOMAIN hak \ m.hapus) |-> IF k \in DOMAIN f THEN f[k] ELSE hak[k]]
  /\ diminta' =
       [induk |-> [diminta.induk EXCEPT ![m.j] =
                     simpan(@, IF m.id = 0 THEN m.baris ELSE Tertimpa(@[i], m.patch))],
        hak |-> IF m.ganti
                THEN [k \in mau \cup tetap |-> IF k \in tetap THEN diminta.hak[k]
                                            ELSE IF k \in DOMAIN f THEN f[k] ELSE 0]
                ELSE diminta.hak]
  /\ minta' = [minta EXCEPT ![s] = TanpaMinta]
  /\ UNCHANGED <<nomorHak, terpakai, dimulai>>

\* The deferred Rollback of a request that fails or dies.
GagalMinta(s) ==
  /\ minta[s] # TanpaMinta /\ minta' = [minta EXCEPT ![s] = TanpaMinta]
  /\ UNCHANGED <<induk, hak, nomorHak, terpakai, dimulai, diminta>>

\* Stock documents and counts come and go; they do not read is_aktif.
Bergerak(i) ==
  /\ terpakai' = IF i \in terpakai THEN terpakai \ {i} ELSE terpakai \cup {i}
  /\ UNCHANGED <<induk, hak, nomorHak, minta, dimulai, diminta>>

NextMaster ==
  \/ \E s \in Peminta :
       \/ BuatSatuan(s) \/ BuatEkspedisi(s) \/ BuatRole(s) \/ BuatSupplier(s) \/ BuatPelanggan(s)
       \/ BuatUnitKerja(s) \/ BuatRuang(s) \/ BuatUser(s)
       \/ \E i \in DOMAIN induk["satuan"] : UbahSatuan(s, i)
       \/ \E i \in DOMAIN induk["ekspedisi"] : UbahEkspedisi(s, i)
       \/ \E i \in DOMAIN induk["role"] : UbahRole(s, i)
       \/ \E i \in DOMAIN induk["supplier"] : UbahSupplier(s, i)
       \/ \E i \in DOMAIN induk["pelanggan"] : UbahPelanggan(s, i)
       \/ \E i \in DOMAIN induk["unit_kerja"] : UbahUnitKerja(s, i)
       \/ \E i \in DOMAIN induk["ruang"] : UbahRuang(s, i)
       \/ \E i \in DOMAIN induk["users"] : UbahUser(s, i)
       \/ Tulis(s) \/ HapusHak(s) \/ SisipHak(s) \/ Commit(s) \/ GagalMinta(s)
  \/ \E i \in DOMAIN induk["ruang"] : Bergerak(i)

SpecMaster == InitMaster /\ [][NextMaster]_varsMaster

(***************************************************************************)
(* Properties.                                                             *)
(***************************************************************************)
\* The unique indexes over lower(kode), lower(nama), lower(email): two requests
\* that both found the text free do not both store it.
KunciUnik ==
  \A j \in Jenis : \A a, b \in DOMAIN induk[j] :
    a # b => \A k \in KolomUnik(j) : ~Sama(induk[j][a][k], induk[j][b][k])

TypeOKMaster ==
  /\ \A j \in Jenis : \A i \in DOMAIN induk[j] : BarisIsi(induk[j][i])
  /\ KunciUnik
  /\ \A k \in DOMAIN hak : k.u \in DOMAIN induk["users"] /\ hak[k] \in 1..nomorHak
  /\ dimulai \in 0..MaksMinta

\* Every column holds what the last committed request that named it said, a
\* NULL included, and an account's grants are exactly those the last request
\* that replaced them asked for, the ones it kept under the id they had:
\* requests that overlap lose none of each other's columns and do not mix
\* two sets of grants.
PermintaanTerakhir == induk = diminta.induk /\ hak = diminta.hak
=============================================================================
