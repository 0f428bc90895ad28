# TLA+ models of katcp_devel's type registry and JTAG driver

This directory holds TLA+ models of the code under `src/`. TLC checks them. `PROJECT.json` lists:

- the components;
- the runs, and the property each run checks;
- the mutants that show each property can fail;
- the source lines each definition translates;
- the findings;
- the hazards the properties are aimed at.

## 1. Inventory

### Components

| Component | Source | State | Operations |
|---|---|---|---|
| Type registry | `src/katcp/ktype.c` 9-233, 320-336, 459-495 | `s->s_type`, an array of `struct katcp_type *` sorted by name (strcmp), and `s->s_type_count`. Each descriptor holds `t_name`, `t_tree` and five callbacks (print, free, copy, compare, parse). | `binary_search_type_list_katcp`, `register_at_id_type_katcp`, `register_name_type_katcp`, `deregister_type_katcp`, `find_name_id_type_katcp`, `destroy_type_list_katcp` |
| Store / lookup dispatch | `ktype.c` 235-317, 338-412 | Each type's avltree, mapping a key to the caller's opaque value. | `store_data_type_katcp` (auto-registers an unknown type, checks the callbacks, inserts), `find_name_type_katcp`, `get_id_type_katcp`, `get_tree_type_katcp`, `get_key_data_type_katcp` |
| Print dispatch | `ktype.c` 414-457 | none | `print_type_katcp`, `print_types_katcp` |
| Unit test | `ktype.c` 497-535 | none | a fixed call sequence |
| Ordered map (avltree) | external, not in `src/` | key to value | create, add (refuses duplicates), find, destroy with a free callback |
| Dispatch context | external, not in `src/` | owns `d_shared` | startup, logging, inform output |
| JTAG over lgpio | `src/tcpborphserver3/rpjtag_io.c` | The gpiochip handle and four line handles, plus the cached `tdi_state`. | `setup_io`, `close_io`, `tick_clk`, `send_cmd`, `send_cmd_no_tms`, `send_cmdWord_msb_first`/`_last`, `send_byte`, `send_byte_no_tms`, `read_jtag_tdo`, `jtag_read_data`, `reset_clk` |

### How the parts interact

A caller reaches the registry through the dispatch's shared state.

- `store_data_type_katcp` calls the binary search. On a miss it calls `register_at_id_type_katcp` with the decoded insertion point. It then re-reads `s->s_type`, because the registration reallocs the array.
- Values pass to the avltree. The type's free callback releases them when the type is deregistered or the whole list is torn down.

The JTAG driver has no connection to the registry. It is a separate layer over the lgpio library.

### What is hard here

The code is single-threaded, so the difficulty is in sequences of calls and in failure paths:

- **Memory returned by `realloc`.** The array grows and shrinks on every registration and deregistration. Failure paths return before the new pointer is stored. `realloc(p, 0)` behaves differently on different C libraries. Growing may move the block.
- **The sign-encoded insertion point**, `-(low+1)`. Two callers decode it separately.
- **Value ownership.** Whether a `-1` from store means the value was freed depends on which failure path returned it.
- **Teardown order.** All trees are destroyed first and then all descriptors, so `t_tree` must be reset in between.
- **JTAG.** `setup_io` claims five lgpio resources one after another and has a single failure path for all of them. Handles may remain from an earlier session. The cached TDI level lets `send_cmd_no_tms` skip writes. The shift loops each decide bit order and where TMS goes high in their own way.

### What makes each component correct

- **Registry:**
  - the array is strictly sorted, and names are unique;
  - `s->s_type` is NULL or points to a live block;
  - the array holds exactly the live descriptors, each once;
  - a failed call changes nothing (spec §7);
  - the search returns the found index or the insertion point.
- **Store:**
  - callbacks are frozen by the first writer;
  - every inserted value is freed exactly once, and only after its type is gone;
  - a value that is refused stays with its caller;
  - a store that fails leaves the registry as it was (spec §7), including a type it auto-registered;
  - lookups find what was stored.
- **JTAG:**
  - handles are released exactly once, and none leak;
  - `tdi_state`, when it is 0 or 1, equals the TDI line;
  - the shift routines put the bits on TDI in the documented order, with TMS raised only on the last bit;
  - `jtag_read_data` assembles the TDO bits at the right positions.

## 2. Modules

| Module | Models | Notes |
|---|---|---|
| `KTypeSearch` | `binary_search_type_list_katcp`, and the `-(pos+1)` decoding | A RECURSIVE operator over a sequence of name ranks. |
| `MCKTypeSearch` | check of the search | Every strictly sorted list over 5 names is an initial state. The result is compared with `ReferenceSearch`. |
| `KType` | the registry and the store | One action per public function that changes state. |
| `KTypeAbstract` | the registry as the spec promises it | A map from names to a callback set and a key/value store, with no array, search or memory. |
| `JtagDevice` | the device on the wires (environment, not code) | An IEEE 1149.1 TAP controller and a shift register of `RegLen` bits. On each rising TCK edge it captures or shifts, then follows TMS. |
| `JtagIO` | `rpjtag_io.c` | One action per public function that changes state. The loops are RECURSIVE operators. |
| `JtagShift` | what the driver promises at the wires | Each call is the sequence of (TDI, TMS) clocks its arguments prescribe. A read returns the TDO bits in a fixed order. There are no handles, cache or loops. |
| `MCJtagIO` | instantiation for TLC | 6 handles, a 3-bit device register (20 bits for the comment run), and input sets per cfg. |
| `KTypeUnitTest` | the unit test `main` (`UNIT_TEST_KTYPE`) | Its ten calls in order on an instance of `KType`, with `rtn` and the records `print_types_katcp` emits. |
| `MCKType` | instantiation for TLC | 3 names (rank 0 is `""`), 2 keys, 2 callback sets (one with a free callback), 3 descriptor addresses, 3 values. Symmetry over keys and descriptor addresses. |

### How `KType` corresponds to the code

**Shared state:**

- `arr` is `s->s_type[0..s_type_count-1]`, as the program reads it.
- `ptr` says whether `s->s_type` is NULL, a live block, or a block that realloc already freed (`"dangling"`).

**Descriptors:**

- Descriptors are addresses in `DescIds`, and `desc[d]` holds their fields.
- A fresh address is taken for every allocation. Reuse is left out, so `DescIds` also bounds the number of registrations.
- `dfrees[d]` counts the calls to `free` on a descriptor.

**Values:**

- Each `store_data_type_katcp` call hands over a fresh value `nextVal`.
- `given[v]` is the callback set it was handed over with.
- `inserted` holds the values that reached a tree.
- `freed[v]` counts how often a free callback ran on the value.
- `last` is the name of the last call and its return value.

**Actions and their helper operators:**

- **`RegisterAtId(tid, n, cb)`** is the set of outcomes of `register_at_id_type_katcp`:
  - a failed realloc;
  - a failed `create_type_katcp`, `strdup` or `create_avltree`, after which the partly built descriptor is destroyed and `s->s_type` is not updated;
  - success, in which the shift loop (`Slot`) inserts the descriptor.
- **`RegisterNameType(n, cb)`** models `register_name_type_katcp`: search, refuse if found, decode, register.
- **`StoreDataType(n, k, cb)`** models `store_data_type_katcp`. It is composed from the registry state after the optional auto-registration (the `RegisterAtId` record) and `StoreInto`, which models:
  - the callback comparison;
  - lazy tree creation;
  - node allocation;
  - a duplicate key, where `free_node_avltree` runs `fn_free` on the value;
  - the insert.
- **`DeregisterType(n)`** models `deregister_type_katcp`: `destroy_type_katcp`, then compaction (`Compacted`, which keeps the stale last slot), then the shrinking realloc with its outcomes.
- **`DestroyTypeList`** models `destroy_type_list_katcp`.
- **Read-only functions.** `FindNameType` and `KeyData` model `find_name_type_katcp` and `get_key_data_type_katcp`. They are used by the refinement mapping. No property uses `GetIdType(id)`, because no caller in `src/` passes an id outside `0..count-1`. `GetIdType(id)` is the set of pointers `get_id_type_katcp` can return: NULL for `id >= s_type_count`, the entry for a valid index, and `"undefined"` for a negative id, whose read of `s->s_type[id]` is outside the array.
- **Print functions.** `PrintType(t)` and `PrintTypes` give the records `print_type_katcp` and `print_types_katcp` emit: `<<"type", name>>`, then `<<"key", k>>` for each entry in key order. The in-order walk of the avltree is `Ascending`, modelled from the spec. The wording of the informs is left out.
- **The unit test.** `KTypeUnitTest` runs `main`'s statements from `pc`: `Register` and `Store` add the return value to `rtn`, `PrintAll` records `PrintTypes` in `out`, and `Teardown` is `DestroyTypeList`. Type names and keys are ranks in strcmp order. The allocator may fail as in `kt_alloc_failures`.

**Allocator behaviour** is a set of constants, chosen per run. The build's C library decides these:

- `ReallocMayFail`
- `ReallocMayMove`
- `ShrinkMayFail`
- `ReallocZeroFrees`, which is TRUE on glibc and FALSE where `realloc(p, 0)` returns a fresh minimal block
- `MallocMayFail`

**Refinement.** `Abs == INSTANCE KTypeAbstract WITH types <- AbsTypes, ...` maps each name to what `find_name_type_katcp` and the tree lookup return. It maps `last.rc` to ok/error. `AbstractSpec == Abs!Spec` is checked as a PROPERTY.

### How `JtagIO` corresponds to the code

**Driver state.** The file-scope statics of `rpjtag_io.c`:

- `chip` and `h[1..4]` are `chip`, `h_tck`, `h_tms`, `h_tdi` and `h_tdo`. Each holds `-1`, an lgpio handle, or `ClaimError`, the negative code a failed open or claim returned. `Valid` is the code's `>= 0` test.
- `tdi_state` is the cached TDI level.

**World state:**

- `res[x]` says what lgpio handle `x` holds. lgpio hands out the lowest vacant handle (`FreeList`). A claim fails when its line is still held (`Busy`).
- `misfreed` records a free or close of a handle that is not held.
- `tdi` and `tms` are the line levels. TCK is low between calls.
- `dev` is the device, `data` is the caller's read buffer, and `call` is the last call with its arguments.

**Actions:**

- **`SetupIo`** takes outcome `j`: `j` open/claim steps succeed and step `j+1` fails (`SetupOutcomes`).
  - `j = 0` is the early return after `lgGpiochipOpen` fails.
  - `0 < j < 5` is the `fail:` path. It frees every handle variable `>= 0` (`FailPathFrees`), including ones this call did not set, then resets all five to `-1`.
  - `j = 5` claims the output lines low and resets `tdi_state` (`SetupSuccessHw`).
- **`CloseIo`** frees each valid handle.
- **Shift routines.** Each is one action on an open session, or on any session when `CallerIgnoresSetupError` holds (a caller that shifts whatever `setup_io` returned). It is built from `TickClkHw`, `SendCmdHw` (writes TDI and TMS, then clocks) and `SendCmdNoTmsHw` (writes TDI only when the cache differs). The loops (`MsbFirstLoop`, `MsbLastLoop`, `SendByteLoop`, `ReadLoop`) follow the C loops index by index. The bit test `(x >> k) & 1` is `BitAt`, the same value computed arithmetically for the non-negative words, which keeps TLC's evaluation shallow.
- **`JtagReadData`** clears `(iSize+7)/8` bytes, then ORs `temp << (i & 7)` into `data[i/8]`.

**Failed sessions.** `Hw` carries `live`, which is `Open`. When it is FALSE every handle is `-1` or a negative code. `lgGpioWrite` then fails and changes no line, and `tick_clk` clocks nothing. `send_cmd` and `send_cmd_no_tms` still update `tdi_state`. `lgGpioRead` returns `BadHandle` (`LgRead`), and `read_jtag_tdo`'s `(val) ? 1 : 0` turns that into 1.

**Refinement.** `Abs == INSTANCE JtagShift WITH open <- Open, bits <- AbsBits` reads the buffer bit by bit. `AbstractSpec == Abs!Spec` is checked as a PROPERTY. Because `call` is part of both specifications, each call must produce the clocks of its own arguments, not those of some other call.

**lgpio.** The model takes the lgpio API as the code uses it: line handles from `lgGpioClaimOutput`/`lgGpioClaimInput`, and `lgGpioWrite(handle, level)`. The library is not in the repository.

## 3. Runs

| Run | Cfg | Expect | What it shows |
|---|---|---|---|
| `kt_search` | `MCKTypeSearch.cfg` | pass | The search equals the reference on all 160 inputs. |
| `kt_registry` | `MCKType.cfg` | pass | Allocator: the growing realloc may fail or move, and `realloc(p, 0)` returns a block. Under it, `RegistrySorted`, `RegistryOwnsDescriptors`, `ValueLifecycle`, `StoreRespectsContract` and `AbstractSpec` all hold (39,639 states). |
| `kt_alloc_failures` | `MCKTypeAllocFail.cfg` | pass | malloc, strdup and create_avltree may fail, but the array grows in place. The failure paths keep `TypeOK` and `RegistryOwnsDescriptors`. |
| `kt_moved_array` | `MCKTypeMovedArray.cfg` | violation | Register A, then register B. Realloc moves the array and then one of the later allocations fails (in TLC's trace, `create_type_katcp`), so `s->s_type` is left dangling. |
| `kt_realloc_zero` | `MCKTypeZeroRealloc.cfg` | violation | With glibc, register A and then deregister A. The call returns -1 with count 1 and a freed array. |
| `kt_dup_key_free` | `MCKTypeDupKey.cfg` | violation | A second store under an existing key returns -1 after freeing the caller's value. |
| `kt_store_leftover_type` | `MCKTypeStoreFail.cfg` | violation | A store of a missing type registers it (line 264), then `create_node_avltree` fails and the call returns -1 at 303 with the new type still registered. Spec §7 requires the prior state (`FailedStoreKeepsRegistry`). `KTypeAbstract.Store` lets a failed store keep the created type, so `AbstractSpec` in `kt_registry` does not catch this; this run is where it is checked. |
| `kt_unit_test` | `MCKTypeUnitTest.cfg` | pass | Realloc may fail (in place otherwise), and malloc, strdup and create_avltree may fail. Across the failures of `main`'s calls (three descriptor addresses, never reused, also bound how many of them can fail), `print_types_katcp` lists exactly the registered types in name order and walks every entry of the array. Both sides order keys with `Ascending`, so the keys part checks which keys are printed, not their order (`PrintListsRegistry`, 5,598 states). |
| `jtag_wires` | `MCJtagIO.cfg` | pass | Claims succeed. Every call sequence on an open session implements `JtagShift` (`AbstractSpec`, 48,231 states, about 65-100 s). |
| `jtag_handles` | `MCJtagIOHandles.cfg` | pass | Every open and claim may fail. `HandlesOwned` (each held handle is referenced by its variable, and nothing is freed twice) and `CacheMatchesLine` hold across failed sessions and close/reopen. The caller also shifts after a failed `setup_io`. Those calls update `tdi_state` while no write reaches TDI, and the cache must still agree with the line after the next successful `setup_io` (191,947 states, about 2 min). |
| `jtag_reopen_leak` | `MCJtagIOReopen.cfg` | violation | `setup_io` twice: TCK is busy, the failure path frees the first session's TMS, TDI and TDO, and the first chip and TCK stay held with nothing referencing them. Every later `setup_io` fails. |
| `jtag_comment_example` | `MCJtagIOComment.cfg` | violation | The comment says `0xFFFF,0,20` sends 20 ones. From Shift-DR, msb_first shifts in `0000` then sixteen ones, and msb_last sixteen ones then `0000`. |

**Bounds.** Three names are enough to insert before, between and after existing entries, and rank 0 is the empty string. Three descriptor addresses allow deregistering a name and registering it again. Two keys make a duplicate key possible. Two callback sets make a callback mismatch possible, and the two sets differ in whether they free values. Three values allow two stores into one type plus one more. Every violation above appears within 4 steps. The passing runs reach depth 10 and fire every action.

**JTAG bounds:**

- Six handles cover a session's five plus the chip of a second `setup_io`.
- `cmd = 6` (binary 110) tells the two bit orders apart.
- `bitoffset` takes 0 (no clock), 3, and 9 (past a byte).
- The bytes are 1 and 6. The 3-bit device keeps only the last 3 bits a call shifts, so the set bits of a byte must be in its low 3 bits to be seen. With 6, `send_byte_no_tms` passes the masks 4 and 2, which a `send_cmd_no_tms` testing `iTDI == 1` (as `send_cmd` does) would send as 0. A byte such as 128 shifts its set bit through the register and out, and `AbstractSpec` would not see that bit.
- Reads of 1 bit (the last-bit path alone) and 9 bits (two bytes of the buffer).
- A 3-bit register with a capture value of `101` makes TDO depend on both what was captured and what was shifted in.
- The TAP graph is complete, so `send_cmd` reaches every TAP state.

**Unit test bounds.** The names, keys and calls are exactly those of `main`, and three descriptor addresses are enough for its three types. `CHECK_DEADLOCK FALSE` is set because `main` returns after the teardown.

**Fairness.** None is assumed, and no liveness property is stated. Every function is synchronous and bounded. Nothing waits, so there is no progress property beyond termination of each call, and each action is one call.

**Mutants** (`PROJECT.json`). Each one breaks its property:

- the insertion point decoded without `+1`;
- deregistration without `destroy_type_katcp`;
- teardown without `t_tree = NULL`;
- store without the callback check;
- a refused re-registration that reports success;
- the `strdup` check dropped;
- the `setup_io` failure path without `lgGpioFreeLine(h_tdi)`;
- `setup_io` without `tdi_state = -1`;
- `send_cmdWord_msb_last` raising TMS when `bitoffset == i`;
- the failure path that leaks the descriptor;
- a `low < high` search loop;
- `print_types_katcp` starting its loop at `i = 1`;

## 4. Not modelled, and why

- **`get_tree_type_katcp`.** It is a NULL-checked read of `t_tree`, and no code in `src/` calls it.
- **`startup_katcp` failing and `shutdown_katcp`** in the unit test. Both are in the dispatch layer, outside `src/`.
- **The avltree.** It is external and is abstracted as a function from keys to values.
- **Leaked array blocks.** A moved array that was never published is leaked. The leak itself is not counted, but the dangling pointer it leaves is.
- **Address reuse after free.**
- **NULL arguments** (`tname == NULL`, `d == NULL`). These are caller contract violations.
- **`reset_clk` and `nop_sleep`.** `reset_clk` writes TCK low, which every routine already leaves low. `nop_sleep` only delays. `read_jtag_tdo` is modelled as `ReadTdo`, inside `JtagReadData`.
- **JTAG inputs outside the C contract.** A `bitoffset` above 32 is undefined behaviour. A negative `bitoffset` or `iSize` is not modelled. `cmd` stays below 2^31, because TLC integers are 32-bit signed. Driver calls on a closed session are modelled only in `jtag_handles` (`CallerIgnoresSetupError`). `jtag_wires` keeps the caller of the driver contract, which shifts only on an open session.
- **Line levels while released, and spurious edges on claim and release.**
- **Questions the model can ask that no run asks.** The project keeps 12 runs.
  - `ShrinkMayFail`: a failing non-zero shrink in `deregister_type_katcp` returns -1 after destroying the descriptor and compacting, with the count unchanged, so the last pointer appears twice (`RegistryOwnsDescriptors` fails). No run enables it, because glibc never fails a shrinking realloc. `kt_realloc_zero` covers the same early return.
  - An empty name: `register_name_type_katcp` accepts `""` (rank 0), where spec section 4.1 asks for NameError. A plain unit test reaches this, so no run is spent on it.
  - The unit test's final registry: `main` registers `"test"` before its stores, so it prints three types, where spec section 8 counts two. This can be read directly from lines 511-512.

## 5. Plan

1. Done: `KTypeSearch`, `KType`, `KTypeAbstract`, and the `kt_*` runs.
2. Done: `JtagDevice`, `JtagIO`, `JtagShift`, and the `jtag_*` runs.
3. Done: the print functions; the unit test as `KTypeUnitTest`.
4. Done: driver calls after a failed `setup_io`, inside `jtag_handles`. They return ones on reads, because `(val) ? 1 : 0` maps lgpio's error to 1. That the error occurs is lgpio's behaviour, so no property of this code states it; it is listed as a hazard. A failed auto-registering store (`kt_store_leftover_type`).
5. Left open: the `bitoffset` edge at 32, and a negative `iSize`. No caller in `src/` passes them, and neither the code nor the spec states what they should do, so no property of the code is left to check.
