-------------------------------- MODULE Bl1Fwu --------------------------------
(***************************************************************************)
(* The firmware update state machine of BL1 (bl1/bl1_fwu.c): the SMCs that *)
(* copy, authenticate, execute, resume and reset images, called by the     *)
(* world that currently executes.  Calls that BL1 refuses without changing *)
(* anything are not steps.  The build has assertions enabled: one that     *)
(* fails stops BL1, and halt remembers where.                              *)
(***************************************************************************)
EXTENDS Integers, FiniteSetsExt, Functions

CONSTANTS
  Image,                        \* image ids with a descriptor
  SecureImage,                  \* the secure ones
  ExecutableImage,              \* the executable ones
  FirstImage,                   \* the image BL1 starts the update with (NS_BL1U)
  image_max_size,               \* image_info.image_max_size of the descriptors
  Layout,                       \* where platforms may place the images
  FWU_MAX_SIMULTANEOUS_IMAGES,
  INVALID_IMAGE_ID,
  MaxAddr                       \* the memory that images are copied to

Slot == 0..(FWU_MAX_SIMULTANEOUS_IMAGES - 1)
Addr == 0..MaxAddr

ASSUME ImageAssumption ==
  /\ SecureImage \subseteq Image /\ ExecutableImage \subseteq Image
  /\ FirstImage \in Image \ SecureImage
  /\ INVALID_IMAGE_ID \notin Image
  /\ image_max_size \in [Image -> Nat] /\ Layout \subseteq [Image -> Nat]
  /\ FWU_MAX_SIMULTANEOUS_IMAGES \in Nat \ {0}
  /\ MaxAddr \in Nat

VARIABLES
  image_base,          \* desc->image_info.image_base, fixed by the platform
  state,               \* desc->state
  image_size,          \* desc->image_info.image_size
  copied_size,         \* desc->copied_size
  bl1_fwu_loaded_ids,  \* array of the images loaded or being loaded
  sec_exec_image_id,   \* last executed secure image
  auth_img_flags,      \* images the authentication module has verified
  mem,                 \* whose bytes each address of the secure RAM holds
  in_place,            \* images authenticated where the caller put them
  world,               \* the world that executes
  halt                 \* where BL1 stopped, "no" while it runs

vars == <<image_base, state, image_size, copied_size, bl1_fwu_loaded_ids,
          sec_exec_image_id, auth_img_flags, mem, in_place, world, halt>>

\* BL1 starts the first image itself (bl1_prepare_next_image).
Init ==
  /\ image_base \in Layout
  /\ state = [i \in Image |-> IF i = FirstImage THEN "EXECUTED" ELSE "RESET"]
  /\ image_size = [i \in Image |-> 0]
  /\ copied_size = [i \in Image |-> 0]
  /\ bl1_fwu_loaded_ids = [s \in Slot |-> INVALID_IMAGE_ID]
  /\ sec_exec_image_id = INVALID_IMAGE_ID
  /\ auth_img_flags = {}
  /\ mem = [a \in Addr |-> INVALID_IMAGE_ID]
  /\ in_place = {}
  /\ world = "NON_SECURE"
  /\ halt = "no"

Calls(w) == world = w /\ halt = "no"

-----------------------------------------------------------------------------
(* The array of loaded images.                                             *)

Slots(ids, i) == {s \in Slot : ids[s] = i}

CanAdd(ids, i) == Slots(ids, i) # {} \/ Slots(ids, INVALID_IMAGE_ID) # {}

bl1_fwu_add_loaded_id(ids, i) ==
  IF Slots(ids, i) # {} THEN ids
  ELSE [ids EXCEPT ![Min(Slots(ids, INVALID_IMAGE_ID))] = i]

bl1_fwu_remove_loaded_id(ids, i) ==
  IF Slots(ids, i) = {} THEN ids
  ELSE [ids EXCEPT ![Min(Slots(ids, i))] = INVALID_IMAGE_ID]

Loaded == Range(bl1_fwu_loaded_ids) \ {INVALID_IMAGE_ID}

-----------------------------------------------------------------------------
(* FWU_SMC_IMAGE_COPY.                                                     *)

\* Mutant: only an image that starts inside the other one overlaps it.
Overlaps_StartOnly(i, size, j) ==
  image_base[j] \in image_base[i]..(image_base[i] + size - 1)

\* Image i with the given size shares an address with the loaded image j.
Overlaps(i, size, j) ==
  /\ image_base[j] + image_size[j] - 1 >= image_base[i]
  /\ image_base[i] + size - 1 >= image_base[j]

\* The first slot that decides ends the loop: by a failed assertion when its
\* image ends where it starts, or as an overlap.
bl1_fwu_image_check_overlaps(i, size) ==
  LET checked == {s \in Slot : LET j == bl1_fwu_loaded_ids[s] IN
                                 j \notin {INVALID_IMAGE_ID, i} /\ image_size[j] # 0}
      fails(s) == ~ (image_base[bl1_fwu_loaded_ids[s]] + image_size[bl1_fwu_loaded_ids[s]] - 1
                       > image_base[bl1_fwu_loaded_ids[s]])
      deciding == {s \in checked : fails(s) \/ Overlaps(i, size, bl1_fwu_loaded_ids[s])}
  IN  IF deciding = {} THEN "none"
      ELSE IF fails(Min(deciding)) THEN "assert" ELSE "overlap"

\* Mutant: a block that is too big is not clipped.
Clip_None(block_size, remaining) == block_size

Clip(block_size, remaining) == IF block_size > remaining THEN remaining ELSE block_size

\* Copy a block after the first done bytes of an image of total bytes.
CopyBlock(i, block_size, total, done) ==
  LET remaining == total - done
      n == Clip(block_size, remaining)
      dest == image_base[i] + done
      added == bl1_fwu_add_loaded_id(bl1_fwu_loaded_ids, i)
  IN
  \/ \* the source is not mapped, or too many images are loaded
     /\ copied_size' = [copied_size EXCEPT ![i] = done]
     /\ UNCHANGED <<state, bl1_fwu_loaded_ids, mem>>
  \/ \* bl1_plat_handle_pre_image_load fails
     /\ state[i] = "RESET"
     /\ CanAdd(bl1_fwu_loaded_ids, i)
     /\ bl1_fwu_loaded_ids' = bl1_fwu_remove_loaded_id(added, i)
     /\ copied_size' = [copied_size EXCEPT ![i] = done]
     /\ UNCHANGED <<state, mem>>
  \/ /\ CanAdd(bl1_fwu_loaded_ids, i)
     /\ bl1_fwu_loaded_ids' = added
     /\ mem' = [a \in Addr |-> IF a \in dest..(dest + n - 1) THEN i ELSE mem[a]]
     /\ copied_size' = [copied_size EXCEPT ![i] = done + n]
     /\ state' = [state EXCEPT ![i] = IF n = remaining THEN "COPIED" ELSE "COPYING"]

SizeFits(i, size) == size # 0 /\ size <= image_max_size[i]

\* The first copy fixes the size of the image.
CopyFirst(i, block_size, size) ==
  /\ state[i] = "RESET"
  /\ SizeFits(i, size)
  /\ LET overlaps == bl1_fwu_image_check_overlaps(i, size) IN
     \/ /\ overlaps = "assert"
        /\ image_size' = [image_size EXCEPT ![i] = size]
        /\ halt' = "overlap"
        /\ UNCHANGED <<state, copied_size, bl1_fwu_loaded_ids, mem>>
     \/ /\ overlaps = "overlap"
        /\ image_size' = [image_size EXCEPT ![i] = 0]
        /\ UNCHANGED <<state, copied_size, bl1_fwu_loaded_ids, mem, halt>>
     \/ /\ overlaps = "none"
        /\ image_size' = [image_size EXCEPT ![i] = size]
        /\ CopyBlock(i, block_size, size, 0)
        /\ UNCHANGED halt

CopyNext(i, block_size) ==
  /\ state[i] = "COPYING"
  /\ CopyBlock(i, block_size, image_size[i], copied_size[i])
  /\ UNCHANGED <<image_size, halt>>

bl1_fwu_image_copy(i, block_size, size) ==
  /\ Calls("NON_SECURE")
  /\ i \in SecureImage
  /\ block_size # 0
  /\ CopyFirst(i, block_size, size) \/ CopyNext(i, block_size)
  /\ UNCHANGED <<sec_exec_image_id, auth_img_flags, in_place, world>>

-----------------------------------------------------------------------------
(* FWU_SMC_IMAGE_AUTH.                                                     *)

\* The addresses of the first n bytes of image i are cleared.
Cleared(i, n) ==
  [a \in Addr |-> IF a \in image_base[i]..(image_base[i] + n - 1)
                  THEN INVALID_IMAGE_ID ELSE mem[a]]

\* auth_mod_verify_img succeeds; then the platform's post-load hook may fail.
Authenticated(i) ==
  /\ state' = [state EXCEPT ![i] = "AUTHENTICATED"]
  /\ auth_img_flags' = auth_img_flags \cup {i}
  /\ halt' \in {"no", "post_load"}

\* The copied image is authenticated, or its memory is cleared.
AuthCopied(i) ==
  /\ Calls("NON_SECURE")
  /\ i \in SecureImage
  /\ state[i] = "COPIED"
  /\ \/ /\ Authenticated(i)
        /\ UNCHANGED <<bl1_fwu_loaded_ids, mem>>
     \/ /\ mem' = Cleared(i, image_size[i])
        /\ state' = [state EXCEPT ![i] = "RESET"]
        /\ bl1_fwu_loaded_ids' = bl1_fwu_remove_loaded_id(bl1_fwu_loaded_ids, i)
        /\ UNCHANGED <<auth_img_flags, halt>>
  /\ UNCHANGED <<image_size, copied_size, sec_exec_image_id, in_place, world>>

\* The image is authenticated where the caller says: any image when the caller
\* is secure, a non-secure one otherwise.
AuthInPlace(i, size) ==
  /\ Calls("SECURE") \/ (Calls("NON_SECURE") /\ i \notin SecureImage)
  /\ state[i] = "RESET"
  /\ size # 0
  /\ CanAdd(bl1_fwu_loaded_ids, i)
  /\ image_size' = [image_size EXCEPT ![i] = size]
  /\ LET added == bl1_fwu_add_loaded_id(bl1_fwu_loaded_ids, i) IN
     \/ /\ Authenticated(i)
        /\ bl1_fwu_loaded_ids' = added
        /\ in_place' = in_place \cup {i}
     \/ /\ bl1_fwu_loaded_ids' = bl1_fwu_remove_loaded_id(added, i)
        /\ UNCHANGED <<state, auth_img_flags, in_place, halt>>
  /\ UNCHANGED <<copied_size, sec_exec_image_id, mem, world>>

-----------------------------------------------------------------------------
(* Execution of secure images, and the end of the update.                  *)

\* Mutant: the id of the executed image is not recorded.
bl1_fwu_image_execute_NoId(i) ==
  /\ Calls("NON_SECURE")
  /\ i \in SecureImage \cap ExecutableImage
  /\ state[i] = "AUTHENTICATED"
  /\ state' = [state EXCEPT ![i] = "EXECUTED"]
  /\ world' = "SECURE"
  /\ UNCHANGED <<image_size, copied_size, bl1_fwu_loaded_ids, sec_exec_image_id,
                 auth_img_flags, mem, in_place, halt>>

\* Mutant: a copied image may be executed.
bl1_fwu_image_execute_Copied(i) ==
  /\ Calls("NON_SECURE")
  /\ i \in SecureImage \cap ExecutableImage
  /\ state[i] \in {"AUTHENTICATED", "COPIED"}
  /\ state' = [state EXCEPT ![i] = "EXECUTED"]
  /\ sec_exec_image_id' = i
  /\ world' = "SECURE"
  /\ UNCHANGED <<image_size, copied_size, bl1_fwu_loaded_ids, auth_img_flags, mem,
                 in_place, halt>>

bl1_fwu_image_execute(i) ==
  /\ Calls("NON_SECURE")
  /\ i \in SecureImage \cap ExecutableImage
  /\ state[i] = "AUTHENTICATED"
  /\ state' = [state EXCEPT ![i] = "EXECUTED"]
  /\ sec_exec_image_id' = i
  /\ world' = "SECURE"
  /\ UNCHANGED <<image_size, copied_size, bl1_fwu_loaded_ids, auth_img_flags, mem,
                 in_place, halt>>

\* Switch worlds: the image that executed last must be in state from.
SwitchWorld(from, to, nextWorld) ==
  LET i == sec_exec_image_id IN
  /\ \/ /\ state[i] = from
        /\ state' = [state EXCEPT ![i] = to]
        /\ world' = nextWorld
        /\ UNCHANGED halt
     \/ /\ state[i] # from
        /\ halt' = "resume"
        /\ UNCHANGED <<state, world>>
  /\ UNCHANGED <<image_size, copied_size, bl1_fwu_loaded_ids, sec_exec_image_id,
                 auth_img_flags, mem, in_place>>

bl1_fwu_image_resume ==
  /\ sec_exec_image_id # INVALID_IMAGE_ID
  /\ \/ Calls("SECURE") /\ SwitchWorld("EXECUTED", "INTERRUPTED", "NON_SECURE")
     \/ Calls("NON_SECURE") /\ SwitchWorld("INTERRUPTED", "EXECUTED", "SECURE")

\* Mutant: the image stays among the loaded ones.
bl1_fwu_sec_image_done_StaysLoaded ==
  LET i == sec_exec_image_id IN
  /\ Calls("SECURE")
  /\ state' = [state EXCEPT ![i] = "RESET"]
  /\ sec_exec_image_id' = INVALID_IMAGE_ID
  /\ world' = "NON_SECURE"
  /\ UNCHANGED <<image_size, copied_size, bl1_fwu_loaded_ids, auth_img_flags, mem,
                 in_place, halt>>

\* Its assertions are invariant SecureWorldRunsLastExecuted and LoadedAreActive.
bl1_fwu_sec_image_done ==
  LET i == sec_exec_image_id IN
  /\ Calls("SECURE")
  /\ bl1_fwu_loaded_ids' = bl1_fwu_remove_loaded_id(bl1_fwu_loaded_ids, i)
  /\ state' = [state EXCEPT ![i] = "RESET"]
  /\ sec_exec_image_id' = INVALID_IMAGE_ID
  /\ world' = "NON_SECURE"
  /\ in_place' = in_place \ {i}
  /\ UNCHANGED <<image_size, copied_size, auth_img_flags, mem, halt>>

\* The platform takes over and does not return.
bl1_fwu_done ==
  /\ halt = "no"
  /\ halt' = "done"
  /\ UNCHANGED <<state, image_size, copied_size, bl1_fwu_loaded_ids, sec_exec_image_id,
                 auth_img_flags, mem, in_place, world>>

bl1_fwu_image_reset(i) ==
  /\ Calls("NON_SECURE")
  /\ \/ /\ state[i] \in {"INTERRUPTED", "AUTHENTICATED", "COPIED", "COPYING"}
        /\ i \in Loaded
        /\ bl1_fwu_loaded_ids' = bl1_fwu_remove_loaded_id(bl1_fwu_loaded_ids, i)
        /\ mem' = Cleared(i, copied_size[i])
        /\ copied_size' = [copied_size EXCEPT ![i] = 0]
        /\ image_size' = [image_size EXCEPT ![i] = 0]
        /\ state' = [state EXCEPT ![i] = "RESET"]
        /\ auth_img_flags' = auth_img_flags \ {i}
        /\ in_place' = in_place \ {i}
        /\ UNCHANGED halt
     \/ /\ state[i] = "EXECUTED"
        /\ halt' = "reset"
        /\ UNCHANGED <<state, image_size, copied_size, bl1_fwu_loaded_ids, auth_img_flags,
                       mem, in_place>>
  /\ UNCHANGED <<sec_exec_image_id, world>>

-----------------------------------------------------------------------------
MaxSize == Max(Range(image_max_size))

Call ==
  \/ \E i \in Image :
       \/ \E size \in 0..(MaxSize + 1), block_size \in 1..MaxSize :
            bl1_fwu_image_copy(i, block_size, size)
       \/ AuthCopied(i)
       \/ \E size \in 1..MaxSize : AuthInPlace(i, size)
       \/ bl1_fwu_image_execute(i)
       \/ bl1_fwu_image_reset(i)
  \/ bl1_fwu_image_resume \/ bl1_fwu_sec_image_done \/ bl1_fwu_done

Next == Call /\ UNCHANGED image_base

Spec == Init /\ [][Next]_vars

-----------------------------------------------------------------------------
(* Properties.                                                             *)

\* The array of loaded ids and the states of the descriptors agree after every
\* call, whatever step of it failed: an id is in the array, once, exactly while
\* its image is not RESET (the image BL1 started itself is never in it).
LoadedAreActive ==
  /\ Loaded = {i \in Image : state[i] # "RESET"} \ {FirstImage}
  /\ \A i \in Image : Cardinality(Slots(bl1_fwu_loaded_ids, i)) <= 1

\* While the secure world executes, it executes the image that sec_exec_image_id
\* names; no other secure image is EXECUTED, and none is while the normal world
\* executes.  The assertions that bl1_fwu_image_resume and bl1_fwu_sec_image_done make
\* for a secure caller rest on it; the one for a normal world caller does not hold.
SecureWorldRunsLastExecuted ==
  \A i \in SecureImage :
    state[i] = "EXECUTED" <=> world = "SECURE" /\ i = sec_exec_image_id

\* An image that is to be executed, executes or is interrupted has been verified
\* since its last reset, whatever copies, resets and failed calls came between.
ExecutedWereVerified ==
  \A i \in Image \ {FirstImage} :
    state[i] \in {"AUTHENTICATED", "EXECUTED", "INTERRUPTED"} => i \in auth_img_flags

\* The images copied to secure memory and not reset since.
CopiedImages == {i \in SecureImage : state[i] # "RESET" /\ i \notin in_place}

\* The regions of two images in secure memory are disjoint, whatever order their
\* copies, authentications and resets come in (bl1_fwu_image_check_overlaps).
LoadedRegionsDisjoint ==
  \A i, j \in CopiedImages : i # j =>
    image_base[i]..(image_base[i] + image_size[i] - 1) \cap
      image_base[j]..(image_base[j] + image_size[j] - 1) = {}

\* The bytes copied of image i are in its memory.
BytesIntact(i) ==
  /\ state[i] # "COPYING" => copied_size[i] = image_size[i]
  /\ copied_size[i] <= image_size[i]
  /\ \A a \in image_base[i]..(image_base[i] + copied_size[i] - 1) : mem[a] = i

\* No other secure image may be placed in the memory of image i.
Alone(i) ==
  \A j \in SecureImage \ {i} :
    image_base[i]..(image_base[i] + image_max_size[i] - 1) \cap
      image_base[j]..(image_base[j] + image_max_size[j] - 1) = {}

\* The bytes of a copied image that shares its memory with no other stay there
\* until it is reset: no block copied or cleared for another image reaches them.
CopiedBytesIntact == \A i \in CopiedImages : Alone(i) => BytesIntact(i)

\* bl1_fwu.c:722 "Clear the memory if the image is copied": clearing memory for one
\* image leaves the bytes of the other images, shared memory or not.
OnlyCopiedIsCleared == \A i \in CopiedImages : BytesIntact(i)
=============================================================================
