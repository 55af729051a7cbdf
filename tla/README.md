# Verification of the W3bstream IoT SDK

This directory holds the TLA+ modules, the TLC configurations and the TLAPS
proofs that are kept beside the SDK in `src/`. Paths below are relative to
`src/`.

## 1. Inventory: the system and its parts

The SDK gives an ESP32 (or ESP8266) device a persistent elliptic-curve key (the
code asks for `PSA_ECC_FAMILY_SECP_K1`, the documents speak of secp256r1) and
lets it report signed data to W3bstream over MQTT or HTTP. From the flash up:

| part | code | state it keeps | operations |
|---|---|---|---|
| NVS driver | `hal/nvs/` | the NVS partition, reached through the handle table `its_nvs` | init, open, close, get/set blob, commit, erase |
| internal trusted storage (ITS) | `psa_layer/psa_its_nvs.c` (ESP32), `psa_its_flash.c` (ESP8266), `psa_its_file.c` (hosts) | per uid a header blob and a data blob | `psa_its_set/get/get_info/remove` |
| key files | `psa_layer/psa_crypto_storage.c` | none of its own; one ITS file per persistent key | store, load, destroy a key file |
| key slots | `psa_layer/psa_crypto_slot_management.c`, key life cycle in `psa_layer/psa_crypto.c` | `global_data.key_slots[4]`: id, persistence, lock count, material | find and lock, unlock, allocate, evict, open, close, purge, generate, import, copy, destroy, free |
| PSA core | `psa_layer/psa_crypto.c` | `global_data` (initialised, RNG seeded), caller-owned operation structures | init/free, key policies, sign/verify, hash, MAC, cipher, AEAD, key derivation, key agreement, random |
| hash, cipher, key derivation | `psa_layer/psa_crypto.c`, `psa_crypto_hash.c`, `psa_crypto_cipher.c`, `psa_crypto_porting.c` | caller-owned operation objects; one AES key schedule for the whole program; SHA-256 states on the heap | set up, feed, read, finish, clone, abort |
| driver wrappers and accelerators | `psa_layer/psa_crypto_driver_wrappers.c`, `psa_layer/acc/`, `psa_crypto_hash/cipher/ecp/rsa.c` | context of the algorithm | dispatch to the algorithm by key type |
| SDK entry | `wsiotsdk.c` | `g_signkey`, the exported public key | `iotex_wsiotsdk_init`: boot, adopt or create the device key |
| device access | `application/devnet/iotex_dev_access.c` | `dev_ctx`: topic, token, callbacks, wallet address, binding status, MQTT status | set_*, send data, upload, query, confirm, MQTT input |
| number conversion | `application/devnet/LowerS/` | scratch big numbers | `LowsCalc`: s, and n - s if smaller |
| protobuf, cJSON, base64, keccak256 | `application/devnet/*` | none | encoding |
| TinyCrypt, mbed TLS | `crypto/` | contexts | algorithms |
| example station | `examples/esp32s3/web3_devnet/main/` | event-group bits, retry counter, MQTT status | Wi-Fi and MQTT event handlers, SNTP wait, `app_main` |

**How they interact.** All calls are direct C calls in one address space. `wsiotsdk.c`
calls the PSA core to export, generate and export again the key with id 1; the
core allocates a slot, and for a persistent key reads or writes the key file,
which is one ITS file, which is two NVS blobs with a commit after each. `iotex_dev_access`
calls back into the application (publish, sign, time) through the function
pointers of `dev_ctx`; the application's MQTT client task feeds
`iotex_mqtt_event_input` back. There is no lock anywhere in the SDK.

**What is hard.**

* *Power failure between two flash operations.* A key file is two blobs with
  separate commits; a key is announced as saved only after both.
* *Partial failure.* Storing, the size check, the cleanup, the boot sequence
  that ignores statuses.
* *A cache in front of storage.* Persistent keys live in slots, are evicted when
  the table is full and come back from storage; destroying must reach both.
* *Lock counts.* Every operation that uses a key locks its slot and must unlock
  it on every path; a leaked count pins the slot for ever, a missing one lets
  another operation reuse the slot.
* *Tasks.* FreeRTOS tasks (MQTT client, application) share the slot table and
  `dev_ctx` with no mutual exclusion.
* *Order of calls.* Multi-part operations, the binding query before uploads, set-up
  before use.
* *Connection events.* Wi-Fi retries, MQTT reconnection, subscription status.

* *Data cut into pieces.* Ciphers buffer up to a block between two calls, hashes
  may be cloned half way, key derivation hands out its stream in pieces that do
  not end where its blocks end.
* *Memory that runs out.* `malloc` fails, and not every caller looks.

**What makes each part correct.**

* Storage: what was reported saved loads again as it was, whatever failed since
  and wherever the power went; what was reported destroyed stays away; an entry
  is whole, absent, or detectably torn.
* Storage without NVS: over files, a call that is cut short has happened or has not;
  on raw flash, where places overlap and every write rewrites the sector, what the
  driver can reach of a file stays until a call lands there, and none appears that
  nobody wrote.
* Slots: lock counts equal the operations in progress; an idle library has no
  locked slot; a cached persistent key is the stored one; a slot in use is never
  given to somebody else; volatile keys are never evicted.
* Boot: the identity a device shows never changes, and is shown only when it is
  saved; a start ends.
* Device access: nothing is sent before the device is bound and MQTT is ready;
  a signature that is sent is that of the public key beside it.
* `LowsCalc`: the result is the smaller of s and n - s.
* Ciphers: however a message is cut, what comes out is the message under the
  operation's own key, with nothing lost, repeated or moved.
* Policies: through any chain of copies a key permits nothing that a key it
  descends from does not.
* MAC and AEAD: a tag has a length that its key's policies permit, and the driver
  sees nonce, lengths, additional data and message in order and as declared.
* Hashes: the digest is that of the operation's own input, clones included; no
  state is shared or used after it was freed.
* Key derivation: the bytes given out are the stream that the RFCs define for the
  inputs, in order and without gaps, never more than the capacity allows, and only
  after every mandatory input; abort frees what the inputs took.

## 2. Plan

The order is that of what a device would lose: its key first, then the keys in
use, then what is computed with them.

| module | models | built from |
|---|---|---|
| `KeyStore` | abstract: a write-once store whose writes may be cut short | |
| `ItsNvs` | ITS over NVS, blob by blob and commit by commit | |
| `KeyFileResults` | the results a call on a key file may have | extended by `KeyFiles` and `KeySlots` |
| `KeyFiles` | abstract: key files as the key slots see them, call by call | |
| `KeyStorage` | key files; implements `KeyStore` and `KeyFiles` | extends `ItsNvs` |
| `KeyTable` | abstract: a table from ids to keys | |
| `KeySlots` | the slot table and the life cycle of keys; implements `KeyTable` | storage is a map with whole, torn and absent files, whose calls have the results of `KeyFileResults` |
| `AtomicStore` | abstract: a store whose writes happen at once or not at all | |
| `ItsFile` | ITS over files, library call by library call; implements `AtomicStore` | |
| `ItsFlash` | ITS over the raw flash of the ESP8266 | |
| `StorageBuilds` | the three builds of storage, one of which is compiled in | extends `KeyStorage`, `ItsFile`, `ItsFlash` |
| `LowS` | signature normalisation | |
| `DeviceIdentity` | abstract: one identity for life, announced and signed with | |
| `WsIotSdk` | start-up, identity, reports with normalised signatures; implements `DeviceIdentity` | extends `KeyStorage`, `LowS` |
| `Heap`, `CipherOps`, `HashOps`, `Operations` | multi-part ciphers and hashes on one heap | `Operations` composes the other three |
| `KeyDerivation` | one key derivation operation | |
| `KeyPolicy` | what a key may be used for, and copies of keys | |
| `MacAead` | MAC and AEAD operations over keys with policies | extends `KeyPolicy` |
| `PsaCore` | an application of the PSA core, which derives or authenticates | extends `MacAead`, `KeyDerivation` |
| `*Proofs` | the theorems | each extends the module it is about |
| `RecursionProofs` | induction over naturals and recursive functions, for the proofs | extended by `WsIotSdkProofs`, `MacAeadProofs` |
| `MC*` | instances for TLC | each extends the module it instantiates |

What could be added: the single-part asymmetric calls and `psa_generate_random` as
operations of their own. They keep no state between calls.

## 3. Modules and code

Every action stands for one internal call of the code with all that it changes,
and ends where another party may come in: a flash operation, a call that may
fail, or the return to the application. Variables have the names of the code's
where it has them. `PROJECT.json` maps each definition to its lines.

### Storage: `ItsNvs`, `KeyStorage`

| variable | code |
|---|---|
| `nvs`, `durable` | what a read of the NVS partition sees, and what it would see after a power failure; a uid's `header` is the size in its header blob (0: none), `data` its data blob |
| `its_pc`, `its_call`, `its_ret` | where `psa_its_set` or `psa_its_remove` is, its arguments, its result |
| `ks_pc`, `ks_call`, `ks_ret` | the same of `psa_crypto_storage_store` and `psa_destroy_persistent_key` |
| `promised` | history: what the last call reported of each key |

`psa_its_set` is `SetOpen` (with the reads that refuse an existing file),
`SetHeader`, `CommitHeader`, `SetData`, `CommitData`; `psa_its_remove` is
`RemoveOpen`, `EraseAll`. `psa_its_get_info` and `psa_its_get` change nothing and
are operators (`GetInfo`, `ItsGet`) that return the set of their possible results.
`StoreVerify` is the size check after the write, with the early return that skips
the cleanup; `StoreCleanup` the removal. `Faults` selects what may fail:
opening, writing, committing, erasing, reading, a driver that buffers until the
commit, an erase that a power failure stops half way. `Crash` comes between any two
steps. The attributes and bytes of a key file are one value of a known size, since
formatting and parsing are inverse of each other on a whole file.

Two abstract specifications say what this storage promises. `KeyStore` looks at the
flash: a file is claimed, filled and released, and a power failure only cuts a write
short. `KeyFiles` looks at the calls, as the layer above does: a save shows when it
returns, with a result in `SaveResults`; a file that is being destroyed may go at any
moment of the call. `KeySlots` uses the same results in its `Finish` and `Erase`, so what
it assumes of storage is what `ImplementsKeyFiles` checks. What it assumes of a
load, the whole file or a failure, is `LoadsAreTrue`.

### The builds of storage: `ItsFile`, `ItsFlash`, `StorageBuilds`

| variable | code |
|---|---|
| `files`, `temp` | the files of the uids and the one temporary file, as programs see them: nothing usable, a header, or header and data |
| `ondisk` | the files that a power failure leaves |
| `file_pc`, `file_call`, `file_ret` | where `psa_its_set` or `psa_its_remove` is, its arguments, its status |
| `flash` | the cells of the block, words of 4 bytes: zero, lost in an erase, a part of the magic string, a size, or a piece of a file |
| `flash_pc`, `flash_call` | the same for the flash build |
| `kept` | history: the file that a returned call said a uid has, or that an erase took its effect |
| `build` | which of the three is compiled in |

Over files, `psa_its_set` is `OpenTemp`, `WriteHeader`, `WriteData`, `CloseTemp`,
`RenameTemp` and, always, `RemoveTemp`; `psa_its_remove` is `RemoveLooks` and
`Unlink`. Any of the library calls in `FileFaults` may fail. `FileCrash` is the death
of the process, `Writeback` the operating system that brings files to the disk
in its own time, `PowerFailure` what is left when it did not: the code never
calls `fsync`. `ImplementsAtomicStore` maps a file to what a client finds that asks
for its size and then for its data: a value, nothing, or an error.

On flash, a uid's place is an offset in the block, and only an access past the end of
the block is refused. `FlashSetBegin`, `FlashSetHeader`, `FlashSetData` are `psa_its_set`;
`FlashRemove` and `FlashErase` are `psa_its_remove`, whose erase takes the whole block.
The driver opens the EEPROM library for the length of the buffer it is given
(`flash.cpp:35`, :60) and then accesses it at the address of the place. The library holds
that many cells from the start of the sector, drops a write beyond them and reads zeros
there (`Dirty`, `FlashRead`). A commit does nothing when no cell changed; otherwise it erases
the sector and programs the cells held (`Programmed`), so that all others are lost. So a header is
written and read at the first place only, and of the data behind it as many cells as the
header has are missing at the end. `Lands` says which calls write anything.
A commit that fails, or that is cut off (`FlashPowerFailure`), leaves cells not yet erased or
not yet programmed (`Interrupted`). The status of `EEPROM.end()` in the erase is not looked
at: `FlashErase` may fail and report success.

`FlashKeepsFiles` is what `psa_its_get` promises, and false already without
failures (`storage_flash_whole`). `FlashKeepsBeginnings` is what is left of it: size and
beginning of a file at the first place. `NoFlashFileAppears` starts from an erase that took
its effect, because a caller of `psa_its_remove` learns nothing of one that did not.

In the NVS build `StorageBuilds` is `KeyStorage`.

### Key slots: `KeySlots`

| variable | code |
|---|---|
| `slots[i]` | `global_data.key_slots[i]`: `id`, `persistent`, `lock` (`lock_count`), `data` (the material), `occupied` (`attr.type` is set) |
| `initialized` | `key_slots_initialized` |
| `stored` | the key files |
| `pc[t]`, `call[t]` | where the call of task t is, and its arguments |
| `src[t]`, `dst[t]` | the slot pointers the call holds |
| `made`, `read` | history: the volatile keys made and not yet gone; the last use of a key |

A use of a key is `Lookup` (the search in memory), `FindSlot` (an empty slot, by
eviction if need be), `Load` or `LoadFails`, then `Use` or `Refuse` (the policy),
then `UnlockSource`, or `UnlockDangling` where the code unlocks the pointer of a
failed lookup. Destroying is `DestroyCheck`, `Erase`, `DestroyWipe`; making a key
`MakeBegin`, `Fill`, `Finish`, `Release` or `Fail`; a copy a lookup and a
making one after the other. Tasks interleave between any two actions; the search
of the table is one action, so the data race inside it is left out. `TurnsSpec` is the same
in a program whose tasks take turns: a call begins only when no other is under way, which is
what the code is written for. `Init` is any start of the program: storage holds
whatever earlier runs left there, torn files included.

### Start and reports: `WsIotSdk`

`boot` is where the main task is in `iotex_wsiotsdk_init`; `PowerOn`, `ExportKey`,
`GenerateKey`/`GenerateFails`, `GenerateDone`, `ExportAgain` are its calls, none of
which looks at the status of the one before. Saving the key is the storage of
`KeyStorage`, step by step. A report is `ReportBegin` (the one look at the MQTT
status), `ReportSign` (whose status is ignored), `ReportSend`; `SetMqttStatus`
is the MQTT client's task, at any moment. `sign_buf` is the signature that a
report carries: for a confirmation `ReportSign` draws the s of the signature and
hands it to `LowsCalc`. It does the same with the buffer of a signature call that failed,
which `psa_sign_internal` has filled with `!` (`psa_crypto.c:2590`); the constant `Marks` is
that number. The slot table is reduced to the slot of
the device key, which `Evict` may take away between two calls. In `DeviceIdentity` the
identity is the whole file of the device key; saving it is adopting an identity, showing
a key announcing it, and the key that signed a report and the key beside the
signature are signer and claim. `StepsLeft` counts the calls a start has still to make.

### Normalisation: `LowS`

`Comp`, `Sub`, `InitBinary` and `printBuf` work digit by digit in base `Base` as the
code does in base 16; `Borrows` is the `c.num[i + 1]--` of `Sub`, `Weight` what a digit
counts at its position, and `N` stands for the order of the group. `WsIotSdk` calls
`LowsCalc` where `iotex_dev_access.c` does.

### Ciphers and hashes: `Heap`, `CipherOps`, `HashOps`, `Operations`

`cipher[o]` and `hash[o]` are the operation objects, with the fields the code looks at
(`id`, `iv_set`, `unprocessed`, `ptr`, ...) and, as history, what the application has
passed. `s` is the AES key schedule of `psa_crypto_porting.c`, one for the program.
`heap` holds the blocks that `malloc` gave out: SHA-256 states, and the AES contexts
that are never freed. A byte of a message is its position; a byte of output records the
input byte, the key, the block it is chained to and the offset, so that it can be
compared with the right one. `CipherUpdate` is `psa_cipher_update` with the buffering of
`iotex_cipher_update`; a call that fails does what `psa_cipher_abort` does, and is
`CipherAbort`. `HashClone` has the allocation and the copy of `iotex_sha256_clone`; a
copy to or from `NULL` is `Panic`, after which the board starts anew. Object memory that
was never set up holds anything: `hash` starts in `FreshObjects`. `computed` records
whether the last one-shot hash gave a digest; no property is about it.
`HeldSpec` is `Spec` in which the application sets up no other key while an operation is
active (`ScheduleHeld`), so that the schedule is that of every active operation.

### Key derivation: `KeyDerivation`

`op` is the operation object, `call` the output call under way, `held` the number
of blocks that its inputs allocated. `Setup`, `InputBytes`, `InputKey`,
`KeyAgreement`, `SetCapacity`, `OutputBytes`, `OutputKey` and `Abort` are the calls
of the application. An output goes on with `CopyBytes` and `NextBlock` or
`BlockFails`, once per turn of the loop, and ends in `OutputDone`, `KeyDone` or
`Redraw` (a private key that is not in range is drawn again). Inputs are named by
step and length, since nothing depends on their bytes; a block is named by
the key, the text and the chain of block numbers that its HMAC was computed over.

An input to an operation that was not set up is refused without an abort, and by then a key
passed as the secret has set `can_output_key`; `Setup` clears the context and leaves
that flag. `made` is the history of the secrets that keys were made of: a key, bytes, or bytes
after a key was offered in this way (`offered`).

### Policies, MAC and AEAD: `KeyPolicy`, `MacAead`

An algorithm is a record of what its bits say: the kind, the algorithm without hash and
length, the hash or the derivation, the length of a tag and whether that is a least
length. `Intersection`, `AlgorithmPermits` and `PolicyPermits` are
`psa_key_policy_algorithm_intersection`, `psa_key_algorithm_permits` and
`psa_key_policy_permits`; lengths have six bits as in the code, so that 64 is written 0.

| variable | code |
|---|---|
| `keys[k]` | a key's type and policy, with (history) the policies of the keys it descends from and those asked for on the way |
| `mac` | `psa_mac_operation_t`: active, direction, `mac_size`, with the key and the algorithm of its setup |
| `aead` | `psa_aead_operation_t`: its flags, what is left of the declared lengths and, as history, the calls its driver was given |
| `tag` | history: what the last call gave out or accepted as a tag |

Each call is one action, with the abort that ends a failed one: `MacSetup` to
`MacOneShot`, `AeadSetup` to `AeadOneShot`. The drivers that compute tags are declared
and not in the repository, so they are whether a call succeeds; the calls are
checked against what `psa_crypto_aead.h` promises to a driver.

`PsaCore` puts this beside `KeyDerivation` for one run. The operation objects of the two
share no state, so a behaviour is of one kind and leaves the other's objects idle;
`MacAeadProofs` and `KeyDerivationProofs` are about each of them alone.

## 4. Runs

A run that passes is complete: TLC visits every state of the instance.

| run | instance | what it shows |
|---|---|---|
| `storage_wholefile` | 2 keys, 3 files of 2 sizes over NVS, failing opens, reads, writes and erases, a driver that buffers, erases cut half way | the flash holds a saved key whole and committed even when a read of it fails |
| `slots_turns` | two tasks taking turns, 2 slots, 3 persistent ids and 2 volatile ones, 2 key materials | locks balance on every path, free slots are zero, the cache agrees with storage, volatile keys stay, callers see a `KeyTable` |
| `storage_builds` | NVS: the same keys and files, failing writes, commits and erases, a driver that writes through; files: 2 uids, 2 values, all five library calls failing; flash: 5 places of 2 cells, 3 uids, files of 3 and 5 cells, failing commits and erases | over NVS saved keys load as saved, destroyed ones stay away, two blobs with separate commits implement `KeyStore`, and every call ends as `KeyFiles` says; files written aside and renamed implement `AtomicStore`; on flash a file at the first place keeps its size and beginning, and none appears after an erase that took effect |
| `sdk_identity` | one device key of 2 possible values, every failure, power failures anywhere; a group of order 61 | the device with its storage implements `DeviceIdentity`; a shown key can sign; signatures are low; a start moves on and ends |
| `operations` | one cipher in 4 modes, blocks of 3 bytes, messages to 6; two keys under `HeldSpec`; two hashes; a heap of 3 blocks | CBC loses and moves nothing, finishes whole messages; CTR is exact on whole blocks; hash states are owned, digests right or missing |
| `psa_core` | HMAC, AES and signature keys with up to two copies, real tag lengths (32, 64, 16 bytes), an AEAD operation of 4 calls; or one derivation: 5 algorithms, hashes of 2 bytes, 3 blocks, inputs of 0, 2 and 3 bytes, reads of 0 to 7 | no copy permits more than its ancestors, tags have permitted lengths, AEAD drivers see a well-formed message; derived output is the stream, within the allowance, after the inputs, keys are made with keys, and memory is accounted for |

Runs that end in a violation, each a disagreement of the code with a sentence of
its own documents (see `findings`):

| run | what it shows |
|---|---|
| `storage_failed_store` | a store whose second write fails leaves a header behind, and the id is taken for ever |
| `slots_tasks` | with two tasks a key is wiped between the lookup and the use of another task |
| `sdk_unsigned` | a power failure in the first start leaves a torn key; from then on every report goes out unsigned, with success |
| `operations_schedule` | a second cipher setup changes the key of the first operation |
| `storage_flash_whole` | a file reported stored on raw flash is read back with its end missing, or not found |
| `derivation_offered` | a key offered before the setup, and refused, lets a key be made of secret bytes |

### Bounds

* *Storage.* Calls of storage do not overlap, so two keys show every effect one
  operation can have on another file, and three files of two sizes every outcome of
  the check, which looks at the size only.
* *Slots.* Two slots and three persistent ids make keys compete for slots, and let a
  copy, the one call that holds two slots, use up the table. Two materials are enough
  to tell a right key from a wrong one. Materials are interchangeable and so are
  tasks; these are the symmetries used. A third task could only do what the second does
  once the first is idle.
* *Files.* Two uids share the temporary file, which is all that one file can do to
  another, and two values tell an old file from a new one.
* *Flash.* A header takes two cells, a place too. Uid 11 has the first place again, as uid
  2^25 + 1 in the code, 2 has the one behind it, and 6 the first that is past the block. The
  file of 3 cells has its end cut at the first place; the one of 5 lands even when it
  is written at the second.
* *`LowS`.* 61 = 4^3 - 3 is odd and uses the full width as the order of the group
  does, and every s is tried, with all patterns of leading zeros and borrows.
* *Ciphers.* Blocks of 3 and messages to 6 bytes have fragments that are less than,
  equal to and more than what fills the cached block, and messages of no, of one, of
  two blocks and between. Two keys, which are interchangeable, tell the schedule of an
  operation from another's. Three blocks of heap are a source, a leaked block and a
  clone: the most that one step of two hash operations can involve.
* *Key derivation.* Reads of 1, 2, 3 and 5 bytes end inside blocks of 2 and at their
  ends, and 7 is more than the 6 that three blocks hold; the last block, 255 in the
  code, is reached. `PskMaxSize` 2 separates accepted secrets from refused ones.
  `OutputIsTheStream` removes these bounds. `derivation_offered` needs one block of one
  byte.
* *Policies and tags.* Requests and policies have lengths below, at and above the full one
  and the code 0, with and without wildcard, for each kind of algorithm. Three keys
  are a chain of two copies (AES, which has the most policies, two keys). Buffers of 8,
  16 and 64 bytes are too small, fitting and large. `MacAeadProofs` removes these bounds.
* *AEAD.* Four calls reach a complete message: nonce, lengths, additional data and
  body; the finish is not counted. A call out of order, repeated or too long takes the
  place of one of them. `MaxLength` 1 tells a complete part from an incomplete one.

### Fairness

Only `FairSdkSpec` states any: `WF(Boot)`, the main task is scheduled while the
power is on. FreeRTOS runs a ready task, and nothing in the start waits for another
task. `StartCompletes` needs no fairness of the application, of reports or of the
MQTT task. Elsewhere the application may stop calling at any time, so all other
properties are safety, and nothing is assumed.

## 5. Proofs

TLC checked every invariant below, its strengthening included, before it was proved.

**`KeyStorageProofs`.** `TypeInv` is `KsTypeOK` with `CallMatchesPc`, which says that
the call under way has the arguments its program point uses; without it the reads of
`its_call.value` have no type. `SavedKeysStaySaved` is `SavedOnFlash` for any
keys, files and faults, except that a commit does not fail on a driver that buffers
(`CommitsCount`): the code ignores the status of the commit, and with those two faults
together the statement is false. On a driver that writes through, a failing commit has
nothing left to do (`WritesAreSeen`, `CommitSettles`). The rest of the
strengthening follows the file through `psa_its_set`: what each program point
implies of the two blobs and of their committed copies. `SavedKeysLoad` adds that the
file then also loads; it excludes failing opens and reads as well
(`ReadsAndCommitsWork`), which a load reports as an absent key.

`DestroyedKeysStayAway` and `StorageIsWriteOnce` are for a driver that writes through
(`WritesThrough`: no failing opens and reads, nothing buffered or torn by the driver),
which is what ESP-IDF's NVS does. Writes, commits and erases may still fail and the power
may still go between any two of them. `WriteOnceInv` says that then the flash is what the
driver shows, and that a header is only ever written where there is none and is followed
by its own data; from it every action maps to a step of `KeyStore` or to a stutter.

`StorageServesKeyFiles` is the second refinement, call by call. `FilesInv` adds to
`WriteOnceInv` how far the storage call under a save or a destruction has come and what
the last one returned: `SaveProgress`, by which a save that fails has written nothing or
the header, and `RemovalProgress`, by which a removal reports success exactly when no
header is left. With it the cleanup of a failed size check is never reached
(`SavedIsThere`), and every step at the edge of a call is one of six cases
(`StepCases`). `SuccessfulLoadsAreTrue` needs no more than the type invariant and
excludes no fault.

**`WsIotSdkProofs`.** The theorems about identity rest on one invariant, `SdkInv`:
whatever key the device has adopted, as the key it showed, the key in the slot or the
key that is about to be reported saved, is in the file of the device key, whole and
committed; and a start that is still storing has adopted nothing. All adopted keys are
then one key, which gives `ShownKeysAreSaved` and `IdentityIsStable`; the key that signs
and the key beside the signature are both that file, which gives `SignaturesFitKeys`.
`SavedInv` of `KeyStorageProofs` supplies the storage half. Failing opens and reads are
excluded, and commits that fail on a driver that buffers; each exclusion is needed: TLC
finds a device that changes its key with any one of them.

`DeviceHasOneIdentity` is the refinement of `DeviceIdentity`, which contains all three
and is what the run checks in their place. `SdkInv` knows a key only once it is whole.
`IdentityInv` adds how the file comes to be: `FileGrows` says that flash and committed
copy are nothing, a header or the whole file, in this order at each point of the one
store, so that adopting an identity is one step and no other step changes it; and that
what a report carries was signed by the file's key and shown before.

`ShownKeysCanSign` rests on `CanSignInv`: a start that shows a key still has the id in
`g_signkey`, and had it when the slot was filled. `ShownReportsAreSigned` adds that the
signature is then made, if no load and no call fails. `StartsMoveOn` is the safety half
of `StartCompletes`: each call of a start lowers `StepsLeft`, of which there are at most
twelve, and only a power failure raises it. `StartInv` says that storage is used by a
start that stores its key and by nothing else. It excludes no fault.

`SdkTypesHold` and `SignaturesAreLow` assume nothing of what fails. `SdkTypeInv` is the
type invariant in which the buffer of a signature is a number below the order and what
`LowsCalc` makes of it; that this is what the property asks is arithmetic on arrays of
digits, for any `Base`, `Width` and odd `N` that fits. The functions over positions are
defined recursively; the lemmas of `RecursionProofs` give them their equations and carry
each fact from one position to the next. `NumOfIsItsNumber`: the parts of the digits of a number
below a position are the remainder by its weight. `TopDigitDecides` and
`CompCompares`: where the digits above agree, the first that differ order the numbers.
`SubSubtracts`: at each position what was subtracted so far and what is borrowed account
for the difference, and at the top nothing is borrowed, as the second number is not the larger.
`LowsCalcIsLower` combines them; that `N` is odd is what makes the comparison with half of it
exact.

**`KeySlotsProofs`.** `TypeCorrect` holds for any number of tasks: it needs
`PointersMatchPc`, which program points hold which slot pointers, and with it shows that
no count is decremented at zero. `LocksAreBalanced`, `FreeSlotsStayZero` and all that
follows are for any number of tasks that take turns (`TurnsSpec`), which is what the
code is written for; `slots_tasks` shows what happens otherwise. `TurnsInv` says that
some task t is the one whose call is under way, all others being idle (`Alone(t)`), and
that the invariant holds with t as that task. A step of t keeps it (`OneMoves`); when
all are idle, any other task may take over, as nothing in it then depends on who was
last (`LockPasses`, `CachePasses`). `LockInv` strengthens the two properties by what a
slot pointer points at on each path.

In the same setting `CacheInv` adds to `LockInv` what the slots hold: each bears a
persistent id or the id tied to the slot, a whole one holds the stored key or the key
made, a volatile key is in its own slot, only a key that is being made may share its
id with another slot, and each program point knows this much of its key. It gives
`CacheStaysCoherent` and `VolatileKeysStayPut`, and it is what the refinement
`SlotsImplementTable` needs: a use of a slot reads the table, the erasing of a file and the
wiping of a slot remove from it, the end of a creation adds to it, and every other
action leaves it alone.

**`OperationsProofs`.** `HashInv` joins `OwnState` with the part of the heap's type it
needs. Cipher operations enter only as something that takes blocks from the
heap and returns none, so these theorems hold whatever ciphers do.

The cipher theorems are for any block size, any messages and any cut of them. Their
invariants come in two halves. `CipherInv` is about lengths: of every active operation,
the bytes kept are the run of the message that follows what came out, fewer than a block of
them (for a padded decryption at most one, and not none), and in the block modes what came
out is whole blocks, in CBC as many as were chained. It holds with any keys, and gives
`TypesHold`, `FragmentsFit` and `WholeMessagesFinish`. `RightInv` adds the contents, for any
keys under `HeldSpec`: when the keys of two active operations alternate the schedule is
another's and the statements are false (`operations_schedule`). In it every
active operation finds its own key in the schedule. Each byte of output is
then made from its own byte of the message, under the key, in its block; in CTR
the counter is the number of blocks so far. One call of `psa_cipher_update` is the
lemma `UpdateEffect`: in every mode it appends the bytes made from the next run of the
message; `RightGoesOn` says that the right output goes on with just these. In
`psa_cipher_finish` the padding is the run after the bytes kept (`PaddingFollows`), and
the block that a padded decryption kept is the last of the padded message
(`LastBlockIsLast`), so `get_pkcs_padding` sees the padding that was written.

**`KeyDerivationProofs`.** `KdfInv` is the type invariant with five facts, none of which
is inductive alone: an unused operation is blank but for `can_output_key`;
`InputsAreOwned`, without which `held - Freed(op)` may leave the naturals; `Accounts`,
in which capacity, the bytes the call still wants and the bytes given add up to what was
allowed, and the bytes given are the position in the stream that `block_number` and
`left` say; which inputs each state implies; and which calls a state allows.
`StaysWithinAllowance` and `LastBlockIsEnough` are the arithmetic of `Accounts`. All of
it rests on `KdfAssumption` alone: hashes and last blocks are not zero, lengths are
naturals. `KeysAreMadeWithKeys` rests on a sixth (`KeysAllowed`): where `can_output_key`
is set, the secret is a key, or a key was offered before the setup.

On top of `KdfInv`, `StreamInv` says that the fields of the
operation are the inputs given, that the current block is the block of the stream
with that number, and that all bytes so far are the stream's. A byte copied lands
where the position says, by the lemma `DivisionIsUnique`. The result,
`OutputIsTheStream`, is for any lengths of hashes, inputs and reads.

**`StorageBuildsProofs`.** `FileStoreIsAtomic` is the refinement. `FileInv` says what
each program point implies of the arguments, the status so far and the temporary file,
above all that only a temporary file with header and data is ever renamed; with it every
action maps to a step of `AtomicStore` or to a stutter, one lemma per action. It assumes
nothing of `FileFaults`. `BeginningsStay` and `NoFileAppears` rest on `FlashInv`: every
promise of `kept` holds in the cells, and a call under way that lands finds nothing promised
that it could reach. `PlaceIsFirstOrBehind` is the arithmetic: a place is the first or begins
behind the header of the first, so only the first is ever a header (`DirtyHeaderLands`), and
what other calls write lies behind it. `HeaderCommitted` and `DataCommitted` are what a
commit makes of the first place, `CallKeepsPromises` that a commit that fails or is cut off breaks
no promise. No fault is excluded.

**`MacAeadProofs`.** `IInv` joins the types of the keys with `KeysConform`, which is
`CopiesPermitNothingNew` for every algorithm and not only the requested ones, and what
setup checked and the operation objects and the tag then carry. The step of a copy rests
on lemmas about the algebra, one per kind of algorithm: what an intersection permits,
both sides permit. They hold for algorithms that are `Real`: a MAC with a tag
longer than the whole can satisfy a least length, and is refused by
`psa_mac_finalize_alg_and_key_validation`, not by the policy.

`CallsComeInOrder` rests on `CallsInv`, which says what the fields of an AEAD operation tell of
the calls its driver was given: which kinds there were, and that what is left of
the declared lengths is what was declared less what was given. The checks of the core
(`Permits`) then are all that the promised order asks of one more call (`Continues`), and a
call that is added changes nothing of the sums before it (`GivenOneMore`).

**`RecursionProofs`.** `RangeInduction` follows from the order of the naturals being well-founded,
which the library proves without an operator parameter; `RecursionExists` says that a function
defined by recursion over a range of naturals exists, and so has its defining equation.

**Only model-checked.** `StartCompletes`, a liveness property, which the prover does not
reach; `StartsMoveOn` is the part of it that is safety. Nor does it reach `ENABLED`, or
modules with `RECURSIVE` operators, of which the project has none. Every other property
of the passing runs is stated by a theorem.

## 6. What else the models say of the code

Seen while translating, and part of the models, without a run of their own:

* The status of `nvs_commit` is ignored (`psa_its_nvs.c:217`), so on a driver
  that buffers a key reported saved may be gone after a power failure.
* `psa_its_nvs.c:82` takes a failed read for an absent key, so a store may
  overwrite one.
* The padding of a message of whole blocks is not removed by a padded decryption
  (`psa_crypto_porting.c:118`); `CbcFinishedIsMessage` states the exception.
* CTR ignores the offset in a block: after a fragment that ends inside one the rest
  of the message is wrong (`psa_crypto_porting.c:1582`); `CtrExactOnWholeBlocks`
  states what is right.
* ECB encryption reads the output buffer in place of the input
  (`psa_crypto_porting.c:1479`), which is right only in place.
* An update of no bytes fails in CBC and CTR mode and aborts the operation.
* `psa_key_derivation_key_agreement` (`psa_crypto.c:5639`) returns an error without
  aborting, where `psa/crypto.h` says of an operation in error that it must be
  aborted; other failed inputs blank the operation, so that a setup succeeds
  without an abort. A failed `psa_key_derivation_output_bytes` overwrites the
  output with `!`.
* Nothing in the SDK sets the binding status that uploads wait for: the
  application must, through `iotex_dev_access_set_mqtt_status`.
* On the ESP8266, `psa_its_remove` of one file erases the block with all files, and
  reports success when the erase fails (`flash.cpp:20`). The ESP32 flash driver is empty
  functions that report success.
* The file build never asks for its data to be on the disk before it renames
  (`psa_its_file.c:231`), so a power failure may leave an older file or a torn one;
  the one fixed name of the temporary file supposes that calls do not overlap.
* Only the confirmation of a binding normalises its signature; the uploads
  send what the signature call gave.
* `psa_copy_key` makes a copy with no usable algorithm when one side has no second
  algorithm (`psa_crypto.c:1874`), where `psa/crypto.h:423` says that it fails.
* A MAC setup that fails late leaves `mac_size` and the direction behind; harmless, since
  the object stays inactive. CCM may be finished without declared lengths
  if it has no data.
* Hashing on an exhausted heap succeeds with a digest of `!` (`psa_crypto_porting.c:418`,
  :795); `DigestIsRightOrMissing` says "or is missing" for it.
* `psa_its_get` and `psa_its_remove` leave the NVS handle open on early returns
  (`psa_its_nvs.c:134`, :240); the models have no limit on handles.
* With more than one task, two calls may be given the same free slot
  (`psa_crypto_slot_management.c:180`), and `dev_ctx` is read and written with no lock
  (`iotex_dev_access.c:526`). `slots_tasks` shows the shortest accident of this kind.
* When `dev_ctx` cannot be allocated (`iotex_dev_access.c:72`) NVS is never set up, and
  `iotex_wsiotsdk_init` goes on; a partition without free pages or of a newer version
  is erased at start (`nvs_esp32.c:79`), keys included.
* The User Manual documents `iotex_import_key`, which the code does not have.

## 7. Not modelled

* Random numbers and the single-part asymmetric calls: no state of their own; a use of
  a key is the action `Use` of `KeySlots`.
* The drivers behind MAC and AEAD calls: declared in the repository and not part of it;
  the models let any call to them fail. The file system and the EEPROM library of the
  ESP8266 core: external. Of the library the model has what the driver meets: the size given to
  `begin`, accesses beyond it, the dirty flag, and the erase of the sector in a commit.
* Driver wrappers, accelerators, the client shim: stateless dispatch or accessors;
  what they set is part of the operation objects.
* TinyCrypt, mbed TLS, protobuf, cJSON, base64, keccak256: vendored or generated. An
  encryption, a digest or an HMAC is an injective function of its inputs in the
  models. They are by far the larger part of the lines in the tree: mbed TLS alone,
  which the default configuration does not call, is several times the size of the SDK.
  The counter of CTR mode does not wrap in the models.
* The contents of topics and messages, the token, the wallet address: data that no
  step decides on.
* The example station: it does not build against this SDK (it uses
  `IOTEX_MQTT_SUB_COMPLATED`); its calls are those of `WsIotSdk`.
* Secure elements and built-in keys: compiled out.
