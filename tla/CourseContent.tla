--------------------------- MODULE CourseContent ---------------------------
(***************************************************************************)
(* The lessons of website/src/data/phase0.ts to phase6.ts, in both         *)
(* languages, reduced to what the lesson page tells apart: the kinds of    *)
(* the blocks of every section, and for every exercise its id, how many    *)
(* hints it has, whether it has pseudocode and which file it is about.     *)
(* The prose itself is left out.                                           *)
(***************************************************************************)
EXTENDS Integers, Sequences

\* The block types of types.ts that the lessons use.
Pa == "paragraph"
Co == "code"
Di == "diagram"
Ta == "table"
Ca == "callout"
Li == "list"

\* The optional labFile of an exercise that has none.
NoFile == ""

Ex(id, hints, pseudocode, labFile) ==
  [id |-> id, hints |-> hints, pseudocode |-> pseudocode, labFile |-> labFile]

\* The lists of objectives, acceptance criteria and references are their lengths.
Lesson(phaseId, lessonId, objectives, criteria, references, sections, exercises) ==
  [phaseId |-> phaseId, lessonId |-> lessonId, objectives |-> objectives,
   acceptanceCriteria |-> criteria, references |-> references,
   sections |-> sections, exercises |-> exercises]

phase0ZhCN_1 ==
  Lesson(0, 1, 4, 4, 4, <<<<Pa, Di>>, <<Pa, Co, Li>>, <<Ta, Ca>>>>,
    <<Ex("lab1", 3, TRUE, "labs/phase_0_boot/src/entry.asm"),
      Ex("lab2", 3, FALSE, "labs/phase_0_boot/src/sbi.rs"),
      Ex("lab3", 2, FALSE, "labs/phase_0_boot/src/lang_items.rs")>>)

phase0ZhCN == [phaseId |-> 0, color |-> "#E8453C", accent |-> "#FF6B5E",
  lessons |-> <<phase0ZhCN_1>>]

phase0En_1 ==
  Lesson(0, 1, 4, 4, 4, <<<<Pa, Di>>, <<Pa, Co, Li>>, <<Ta, Ca>>>>,
    <<Ex("lab1", 3, TRUE, "labs/phase_0_boot/src/entry.asm"),
      Ex("lab2", 3, FALSE, "labs/phase_0_boot/src/sbi.rs"),
      Ex("lab3", 2, FALSE, "labs/phase_0_boot/src/lang_items.rs")>>)

phase0En == [phaseId |-> 0, color |-> "#E8453C", accent |-> "#FF6B5E",
  lessons |-> <<phase0En_1>>]

phase1ZhCN_1 ==
  Lesson(1, 1, 4, 3, 3, <<<<Pa, Di, Ca>>, <<Ta, Pa>>, <<Li, Ca>>>>,
    <<Ex("lab0-read", 3, FALSE, NoFile)>>)

phase1ZhCN_2 ==
  Lesson(1, 2, 4, 3, 3, <<<<Ta>>, <<Di, Pa, Co>>, <<Ca, Co, Pa>>, <<Di, Ca>>, <<Co, Pa>>>>,
    <<Ex("lab1-trap-init", 3, TRUE, "labs/phase_1_trap/src/trap/mod.rs")>>)

phase1ZhCN_3 ==
  Lesson(1, 3, 4, 3, 2, <<<<Co, Pa>>, <<Ca>>, <<Di, Pa>>, <<Pa, Co, Ca>>>>,
    <<Ex("lab1-context", 4, TRUE, "labs/phase_1_trap/src/trap/context.rs")>>)

phase1ZhCN_4 ==
  Lesson(1, 4, 4, 3, 3, <<<<Li>>, <<Pa, Co, Pa>>, <<Co>>, <<Ca>>, <<Li>>>>,
    <<Ex("lab2", 4, TRUE, "labs/phase_1_trap/src/trap/trap.S")>>)

phase1ZhCN_5 ==
  Lesson(1, 5, 4, 4, 4, <<<<Ta, Pa, Ta>>, <<Co, Ca>>, <<Co, Ca>>, <<Pa, Co>>>>,
    <<Ex("lab3", 4, TRUE, "labs/phase_1_trap/src/syscall/mod.rs"),
      Ex("integration", 3, FALSE, NoFile)>>)

phase1ZhCN == [phaseId |-> 1, color |-> "#D97706", accent |-> "#F59E0B",
  lessons |-> <<phase1ZhCN_1, phase1ZhCN_2, phase1ZhCN_3, phase1ZhCN_4, phase1ZhCN_5>>]

phase1En_1 ==
  Lesson(1, 1, 4, 3, 3, <<<<Pa, Di, Ca>>, <<Ta, Pa>>, <<Li, Ca>>>>,
    <<Ex("lab0-read", 3, FALSE, NoFile)>>)

phase1En_2 ==
  Lesson(1, 2, 4, 3, 3, <<<<Ta>>, <<Di, Pa, Co>>, <<Ca, Co, Pa>>, <<Di, Ca>>, <<Co, Pa>>>>,
    <<Ex("lab1-trap-init", 3, TRUE, "labs/phase_1_trap/src/trap/mod.rs")>>)

phase1En_3 ==
  Lesson(1, 3, 4, 3, 2, <<<<Co, Pa>>, <<Ca>>, <<Di, Pa>>, <<Pa, Co, Ca>>>>,
    <<Ex("lab1-context", 4, TRUE, "labs/phase_1_trap/src/trap/context.rs")>>)

phase1En_4 ==
  Lesson(1, 4, 4, 3, 3, <<<<Li>>, <<Pa, Co, Pa>>, <<Co>>, <<Ca>>, <<Li>>>>,
    <<Ex("lab2", 4, TRUE, "labs/phase_1_trap/src/trap/trap.S")>>)

phase1En_5 ==
  Lesson(1, 5, 4, 4, 4, <<<<Ta, Pa, Ta>>, <<Co, Ca>>, <<Co, Ca>>, <<Pa, Co>>>>,
    <<Ex("lab3", 4, TRUE, "labs/phase_1_trap/src/syscall/mod.rs"),
      Ex("integration", 3, FALSE, NoFile)>>)

phase1En == [phaseId |-> 1, color |-> "#D97706", accent |-> "#F59E0B",
  lessons |-> <<phase1En_1, phase1En_2, phase1En_3, phase1En_4, phase1En_5>>]

phase2ZhCN_1 ==
  Lesson(2, 1, 4, 3, 3, <<<<Pa, Ca>>, <<Co, Pa, Ca>>, <<Di, Pa>>, <<Di, Ta, Ca>>>>,
    <<Ex("lab1-tcb", 3, TRUE, "labs/phase_2_proc/src/task/task.rs")>>)

phase2ZhCN_2 ==
  Lesson(2, 2, 4, 3, 3, <<<<Pa, Di>>, <<Co, Pa, Ca>>, <<Ta>>, <<Pa, Co, Ca>>>>,
    <<Ex("lab1-context", 4, TRUE, "labs/phase_2_proc/src/task/context.rs")>>)

phase2ZhCN_3 ==
  Lesson(2, 3, 4, 3, 3, <<<<Co, Pa>>, <<Di>>, <<Co, Ca>>, <<Pa, Ca>>, <<Li>>>>,
    <<Ex("lab1-switch", 4, TRUE, "labs/phase_2_proc/src/task/switch.S")>>)

phase2ZhCN_4 ==
  Lesson(2, 4, 4, 3, 3, <<<<Co, Pa>>, <<Co>>, <<Di, Pa>>, <<Ca, Co>>, <<Li>>>>,
    <<Ex("lab2-manager", 4, TRUE, "labs/phase_2_proc/src/task/mod.rs")>>)

phase2ZhCN_5 ==
  Lesson(2, 5, 4, 3, 4, <<<<Di, Pa>>, <<Ta, Co, Ca>>, <<Co, Pa>>, <<Co, Ca>>, <<Ta>>, <<Li>>>>,
    <<Ex("lab3-timer", 3, TRUE, "labs/phase_2_proc/src/timer.rs"),
      Ex("lab3-trap", 3, TRUE, "labs/phase_2_proc/src/trap/mod.rs")>>)

phase2ZhCN == [phaseId |-> 2, color |-> "#059669", accent |-> "#34D399",
  lessons |-> <<phase2ZhCN_1, phase2ZhCN_2, phase2ZhCN_3, phase2ZhCN_4, phase2ZhCN_5>>]

phase2En_1 ==
  Lesson(2, 1, 4, 3, 3, <<<<Pa, Ca>>, <<Co, Pa, Ca>>, <<Di, Pa>>, <<Di, Ta, Ca>>>>,
    <<Ex("lab1-tcb", 3, TRUE, "labs/phase_2_proc/src/task/task.rs")>>)

phase2En_2 ==
  Lesson(2, 2, 4, 3, 3, <<<<Pa, Di>>, <<Co, Pa, Ca>>, <<Ta>>, <<Pa, Co, Ca>>>>,
    <<Ex("lab1-context", 4, TRUE, "labs/phase_2_proc/src/task/context.rs")>>)

phase2En_3 ==
  Lesson(2, 3, 4, 3, 3, <<<<Co, Pa>>, <<Di>>, <<Co, Ca>>, <<Pa, Ca>>, <<Li>>>>,
    <<Ex("lab1-switch", 4, TRUE, "labs/phase_2_proc/src/task/switch.S")>>)

phase2En_4 ==
  Lesson(2, 4, 4, 3, 3, <<<<Co, Pa>>, <<Co>>, <<Di, Pa>>, <<Ca, Co>>, <<Li>>>>,
    <<Ex("lab2-manager", 4, TRUE, "labs/phase_2_proc/src/task/mod.rs")>>)

phase2En_5 ==
  Lesson(2, 5, 4, 3, 4, <<<<Di, Pa>>, <<Ta, Co, Ca>>, <<Co, Pa>>, <<Co, Ca>>, <<Ta>>, <<Li>>>>,
    <<Ex("lab3-timer", 3, TRUE, "labs/phase_2_proc/src/timer.rs"),
      Ex("lab3-trap", 3, TRUE, "labs/phase_2_proc/src/trap/mod.rs")>>)

phase2En == [phaseId |-> 2, color |-> "#059669", accent |-> "#34D399",
  lessons |-> <<phase2En_1, phase2En_2, phase2En_3, phase2En_4, phase2En_5>>]

phase3ZhCN_1 ==
  Lesson(3, 1, 4, 3, 3, <<<<Pa, Co, Di, Ca>>, <<Ta, Ca>>, <<Pa, Ta, Co, Ca>>, <<Pa, Ta, Ca>>>>,
    <<Ex("lab-race-demo", 3, TRUE, "labs/phase_3_sync/src/sync/spin.rs")>>)

phase3ZhCN_2 ==
  Lesson(3, 2, 4, 3, 3, <<<<Pa, Di, Co>>, <<Pa, Di, Ca, Co>>, <<Ta, Ca>>, <<Co, Pa>>>>,
    <<Ex("lab-spinlock", 4, TRUE, "labs/phase_3_sync/src/sync/spin.rs")>>)

phase3ZhCN_3 ==
  Lesson(3, 3, 4, 3, 3, <<<<Ta, Ca>>, <<Co, Ca>>, <<Di, Ca>>, <<Co, Pa>>, <<Pa, Ca>>>>,
    <<Ex("lab-sleeplock", 4, TRUE, "labs/phase_3_sync/src/sync/sleep.rs")>>)

phase3ZhCN_4 ==
  Lesson(3, 4, 4, 4, 3, <<<<Pa, Ta, Co, Ca>>, <<Pa, Co, Ca>>, <<Di, Co>>, <<Pa, Ta, Ca>>, <<Di, Pa, Co>>>>,
    <<Ex("lab-sem-cv", 4, TRUE, "labs/phase_3_sync/src/sync/semaphore.rs"),
      Ex("lab-philosopher", 3, FALSE, "labs/phase_3_sync/src/sync/mutex.rs")>>)

phase3ZhCN == [phaseId |-> 3, color |-> "#7C3AED", accent |-> "#A78BFA",
  lessons |-> <<phase3ZhCN_1, phase3ZhCN_2, phase3ZhCN_3, phase3ZhCN_4>>]

phase3En_1 ==
  Lesson(3, 1, 4, 3, 3, <<<<Pa, Co, Di, Ca>>, <<Ta, Ca>>, <<Pa, Ta, Co, Ca>>, <<Pa, Ta, Ca>>>>,
    <<Ex("lab-race-demo", 3, TRUE, "labs/phase_3_sync/src/sync/spin.rs")>>)

phase3En_2 ==
  Lesson(3, 2, 4, 3, 3, <<<<Pa, Di, Co>>, <<Pa, Di, Ca, Co>>, <<Ta, Ca>>, <<Co, Pa>>>>,
    <<Ex("lab-spinlock", 4, TRUE, "labs/phase_3_sync/src/sync/spin.rs")>>)

phase3En_3 ==
  Lesson(3, 3, 4, 3, 3, <<<<Ta, Ca>>, <<Co, Ca>>, <<Di, Ca>>, <<Co, Pa>>, <<Pa, Ca>>>>,
    <<Ex("lab-sleeplock", 4, TRUE, "labs/phase_3_sync/src/sync/sleep.rs")>>)

phase3En_4 ==
  Lesson(3, 4, 4, 4, 3, <<<<Pa, Ta, Co, Ca>>, <<Pa, Co, Ca>>, <<Di, Co>>, <<Pa, Ta, Ca>>, <<Di, Pa, Co>>>>,
    <<Ex("lab-sem-cv", 4, TRUE, "labs/phase_3_sync/src/sync/semaphore.rs"),
      Ex("lab-philosopher", 3, FALSE, "labs/phase_3_sync/src/sync/mutex.rs")>>)

\* A plausible bug: the English translation of the last lesson on locks was
\* never added.
Phase3EnShort == [phaseId |-> 3, color |-> "#7C3AED", accent |-> "#A78BFA",
  lessons |-> <<phase3En_1, phase3En_2, phase3En_3>>]

phase3En == [phaseId |-> 3, color |-> "#7C3AED", accent |-> "#A78BFA",
  lessons |-> <<phase3En_1, phase3En_2, phase3En_3, phase3En_4>>]

phase4ZhCN_1 ==
  Lesson(4, 1, 4, 4, 3, <<<<Pa, Pa, Ca>>, <<Di, Pa>>, <<Di, Pa, Co>>, <<Di, Ta, Co, Ca>>, <<Ta, Pa>>>>,
    <<Ex("hand-walk", 3, TRUE, "labs/phase_4_vm/src/mm/address.rs"),
      Ex("indexes", 2, TRUE, "labs/phase_4_vm/src/mm/address.rs")>>)

phase4ZhCN_2 ==
  Lesson(4, 2, 4, 4, 3, <<<<Di, Pa>>, <<Ta>>, <<Pa, Ta, Ca>>, <<Ta, Co>>, <<Pa, Co>>>>,
    <<Ex("flags-encode", 2, TRUE, "labs/phase_4_vm/src/mm/page_table.rs"),
      Ex("is-leaf", 2, FALSE, "labs/phase_4_vm/src/mm/page_table.rs")>>)

phase4ZhCN_3 ==
  Lesson(4, 3, 4, 4, 3, <<<<Pa, Di>>, <<Co, Ca>>, <<Ta, Pa>>, <<Co, Ca>>, <<Pa>>>>,
    <<Ex("stack-alloc", 2, TRUE, "labs/phase_4_vm/src/mm/frame_allocator.rs"),
      Ex("frame-tracker", 3, FALSE, "labs/phase_4_vm/src/mm/frame_allocator.rs")>>)

phase4ZhCN_4 ==
  Lesson(4, 4, 4, 4, 3, <<<<Di, Pa>>, <<Ta, Co>>, <<Di, Pa>>, <<Pa, Di, Ca, Co>>, <<Pa, Li>>>>,
    <<Ex("map-one", 2, TRUE, "labs/phase_4_vm/src/mm/memory_set.rs"),
      Ex("from-elf", 3, TRUE, "labs/phase_4_vm/src/mm/memory_set.rs")>>)

phase4ZhCN_5 ==
  Lesson(4, 5, 4, 4, 3, <<<<Pa, Li, Ca>>, <<Di, Co, Pa>>, <<Pa, Co, Ta, Ca>>, <<Ta>>>>,
    <<Ex("translate-buffer", 2, TRUE, "labs/phase_4_vm/src/mm/page_table.rs"),
      Ex("copy-to-user", 2, TRUE, "labs/phase_4_vm/src/mm/page_table.rs")>>)

phase4ZhCN == [phaseId |-> 4, color |-> "#2563EB", accent |-> "#60A5FA",
  lessons |-> <<phase4ZhCN_1, phase4ZhCN_2, phase4ZhCN_3, phase4ZhCN_4, phase4ZhCN_5>>]

phase4En_1 ==
  Lesson(4, 1, 4, 4, 3, <<<<Pa, Pa, Ca>>, <<Di, Pa>>, <<Di, Pa, Co>>, <<Di, Ta, Co, Ca>>, <<Ta, Pa>>>>,
    <<Ex("hand-walk", 3, TRUE, "labs/phase_4_vm/src/mm/address.rs"),
      Ex("indexes", 2, TRUE, "labs/phase_4_vm/src/mm/address.rs")>>)

phase4En_2 ==
  Lesson(4, 2, 4, 4, 3, <<<<Di, Pa>>, <<Ta>>, <<Pa, Ta, Ca>>, <<Ta, Co>>, <<Pa, Co>>>>,
    <<Ex("flags-encode", 2, TRUE, "labs/phase_4_vm/src/mm/page_table.rs"),
      Ex("is-leaf", 2, FALSE, "labs/phase_4_vm/src/mm/page_table.rs")>>)

phase4En_3 ==
  Lesson(4, 3, 4, 4, 3, <<<<Pa, Di>>, <<Co, Ca>>, <<Ta, Pa>>, <<Co, Ca>>, <<Pa>>>>,
    <<Ex("stack-alloc", 2, TRUE, "labs/phase_4_vm/src/mm/frame_allocator.rs"),
      Ex("frame-tracker", 3, FALSE, "labs/phase_4_vm/src/mm/frame_allocator.rs")>>)

phase4En_4 ==
  Lesson(4, 4, 4, 4, 3, <<<<Di, Pa>>, <<Ta, Co>>, <<Di, Pa>>, <<Pa, Di, Ca, Co>>, <<Pa, Li>>>>,
    <<Ex("map-one", 2, TRUE, "labs/phase_4_vm/src/mm/memory_set.rs"),
      Ex("from-elf", 3, TRUE, "labs/phase_4_vm/src/mm/memory_set.rs")>>)

phase4En_5 ==
  Lesson(4, 5, 4, 4, 3, <<<<Pa, Li, Ca>>, <<Di, Co, Pa>>, <<Pa, Co, Ta, Ca>>, <<Ta>>>>,
    <<Ex("translate-buffer", 2, TRUE, "labs/phase_4_vm/src/mm/page_table.rs"),
      Ex("copy-to-user", 2, TRUE, "labs/phase_4_vm/src/mm/page_table.rs")>>)

phase4En == [phaseId |-> 4, color |-> "#2563EB", accent |-> "#60A5FA",
  lessons |-> <<phase4En_1, phase4En_2, phase4En_3, phase4En_4, phase4En_5>>]

phase5ZhCN_1 ==
  Lesson(5, 1, 4, 3, 4, <<<<Pa, Di, Ca>>, <<Pa, Ta, Ca>>, <<Di, Pa, Ta>>, <<Di, Ca>>,
    <<Pa, Li, Co, Ca>>, <<Li>>>>,
    <<Ex("lab1-virtio-block", 4, TRUE, "labs/phase_5_fs/src/drivers/virtio_blk.rs"),
      Ex("lab1-hal", 3, FALSE, "labs/phase_5_fs/src/drivers/virtio_blk.rs")>>)

phase5ZhCN_2 ==
  Lesson(5, 2, 4, 3, 3, <<<<Di, Ca>>, <<Co, Pa>>, <<Ta, Pa, Ca>>, <<Pa, Co, Ca>>>>,
    <<Ex("lab2-bitmap", 3, TRUE, "labs/phase_5_fs/easy-fs/src/bitmap.rs"),
      Ex("lab2-layout", 3, FALSE, NoFile)>>)

phase5ZhCN_3 ==
  Lesson(5, 3, 4, 3, 3, <<<<Pa, Di>>, <<Ta, Pa>>, <<Co, Di, Ca>>, <<Ta, Pa, Co>>, <<Co, Ca>>>>,
    <<Ex("lab3-cache", 4, TRUE, "labs/phase_5_fs/easy-fs/src/block_cache.rs")>>)

phase5ZhCN_4 ==
  Lesson(5, 4, 4, 3, 4, <<<<Co, Ca>>, <<Di, Ta, Co, Ca>>, <<Co, Pa>>, <<Di, Co, Ca>>, <<Li, Pa>>>>,
    <<Ex("lab4-getblock", 3, FALSE, "labs/phase_5_fs/easy-fs/src/layout.rs"),
      Ex("lab4-readat", 3, FALSE, "labs/phase_5_fs/easy-fs/src/layout.rs"),
      Ex("lab4-vfs", 3, FALSE, "labs/phase_5_fs/easy-fs/src/vfs.rs")>>)

phase5ZhCN_5 ==
  Lesson(5, 5, 4, 4, 5, <<<<Co, Di, Ca>>, <<Co, Pa>>, <<Co, Ca>>, <<Co>>, <<Co, Ca>>, <<Di>>>>,
    <<Ex("lab5-osinode", 3, FALSE, "labs/phase_5_fs/src/fs/inode.rs"),
      Ex("lab5-stdio", 2, FALSE, "labs/phase_5_fs/src/fs/stdio.rs"),
      Ex("lab5-syscall", 3, TRUE, "labs/phase_5_fs/src/syscall/fs.rs"),
      Ex("lab5-integration", 3, FALSE, "labs/phase_5_fs/user/src/bin/test_fs.rs")>>)

phase5ZhCN == [phaseId |-> 5, color |-> "#0891B2", accent |-> "#06B6D4",
  lessons |-> <<phase5ZhCN_1, phase5ZhCN_2, phase5ZhCN_3, phase5ZhCN_4, phase5ZhCN_5>>]

phase5En_1 ==
  Lesson(5, 1, 4, 3, 4, <<<<Pa, Di, Ca>>, <<Pa, Ta, Ca>>, <<Di, Pa, Ta>>, <<Di, Ca>>,
    <<Pa, Li, Co, Ca>>, <<Li>>>>,
    <<Ex("lab1-virtio-block", 4, TRUE, "labs/phase_5_fs/src/drivers/virtio_blk.rs"),
      Ex("lab1-hal", 3, FALSE, "labs/phase_5_fs/src/drivers/virtio_blk.rs")>>)

phase5En_2 ==
  Lesson(5, 2, 4, 3, 3, <<<<Di, Ca>>, <<Co, Pa>>, <<Ta, Pa, Ca>>, <<Pa, Co, Ca>>>>,
    <<Ex("lab2-bitmap", 3, TRUE, "labs/phase_5_fs/easy-fs/src/bitmap.rs"),
      Ex("lab2-layout", 3, FALSE, NoFile)>>)

phase5En_3 ==
  Lesson(5, 3, 4, 3, 3, <<<<Pa, Di>>, <<Ta, Pa>>, <<Co, Di, Ca>>, <<Ta, Pa, Co>>, <<Co, Ca>>>>,
    <<Ex("lab3-cache", 4, TRUE, "labs/phase_5_fs/easy-fs/src/block_cache.rs")>>)

phase5En_4 ==
  Lesson(5, 4, 4, 3, 4, <<<<Co, Ca>>, <<Di, Ta, Co, Ca>>, <<Co, Pa>>, <<Di, Co, Ca>>, <<Li, Pa>>>>,
    <<Ex("lab4-getblock", 3, FALSE, "labs/phase_5_fs/easy-fs/src/layout.rs"),
      Ex("lab4-readat", 3, FALSE, "labs/phase_5_fs/easy-fs/src/layout.rs"),
      Ex("lab4-vfs", 3, FALSE, "labs/phase_5_fs/easy-fs/src/vfs.rs")>>)

\* A plausible bug: the id of an exercise is copied from the one above it.
StdioNamedOsinode ==
  Lesson(5, 5, 4, 4, 5, <<<<Co, Di, Ca>>, <<Co, Pa>>, <<Co, Ca>>, <<Co>>, <<Co, Ca>>, <<Di>>>>,
    <<Ex("lab5-osinode", 3, FALSE, "labs/phase_5_fs/src/fs/inode.rs"),
      Ex("lab5-osinode", 2, FALSE, "labs/phase_5_fs/src/fs/stdio.rs"),
      Ex("lab5-syscall", 3, TRUE, "labs/phase_5_fs/src/syscall/fs.rs"),
      Ex("lab5-integration", 3, FALSE, "labs/phase_5_fs/user/src/bin/test_fs.rs")>>)

phase5En_5 ==
  Lesson(5, 5, 4, 4, 5, <<<<Co, Di, Ca>>, <<Co, Pa>>, <<Co, Ca>>, <<Co>>, <<Co, Ca>>, <<Di>>>>,
    <<Ex("lab5-osinode", 3, FALSE, "labs/phase_5_fs/src/fs/inode.rs"),
      Ex("lab5-stdio", 2, FALSE, "labs/phase_5_fs/src/fs/stdio.rs"),
      Ex("lab5-syscall", 3, TRUE, "labs/phase_5_fs/src/syscall/fs.rs"),
      Ex("lab5-integration", 3, FALSE, "labs/phase_5_fs/user/src/bin/test_fs.rs")>>)

phase5En == [phaseId |-> 5, color |-> "#0891B2", accent |-> "#06B6D4",
  lessons |-> <<phase5En_1, phase5En_2, phase5En_3, phase5En_4, phase5En_5>>]

phase6ZhCN_1 ==
  Lesson(6, 1, 4, 4, 4, <<<<Pa, Di, Co, Ca>>, <<Pa, Ta, Ca>>, <<Di, Pa, Co>>, <<Pa, Ta, Co, Ca>>>>,
    <<Ex("lab1-fork", 4, TRUE, "labs/phase_6_shell/src/task/fork.rs"),
      Ex("lab1-exec", 4, TRUE, "labs/phase_6_shell/src/task/exec.rs"),
      Ex("lab1-waitpid", 3, FALSE, "labs/phase_6_shell/src/task/waitpid.rs")>>)

phase6ZhCN_2 ==
  Lesson(6, 2, 4, 4, 4, <<<<Di, Pa, Co, Ca>>, <<Ta, Pa, Co>>, <<Pa, Co, Di>>>>,
    <<Ex("lab2-fd", 3, FALSE, "labs/phase_6_shell/src/fs/fd_table.rs"),
      Ex("lab2-dup", 3, TRUE, "labs/phase_6_shell/src/task/mod.rs")>>)

phase6ZhCN_3 ==
  Lesson(6, 3, 4, 4, 4, <<<<Pa, Di, Ca>>, <<Pa, Ta, Co, Di>>, <<Pa, Co, Ca>>, <<Pa, Di>>>>,
    <<Ex("lab3-ring", 3, TRUE, "labs/phase_6_shell/src/fs/pipe.rs"),
      Ex("lab3-pipe", 4, FALSE, "labs/phase_6_shell/src/fs/pipe.rs")>>)

phase6ZhCN_4 ==
  Lesson(6, 4, 4, 4, 4, <<<<Di>>, <<Pa, Co>>, <<Co, Ca>>, <<Co, Ca>>>>,
    <<Ex("lab4-tokenize", 4, FALSE, "labs/phase_6_shell/src/user_shell.rs"),
      Ex("lab4-execute", 4, TRUE, "labs/phase_6_shell/src/user_shell.rs")>>)

phase6ZhCN_5 ==
  Lesson(6, 5, 4, 5, 4, <<<<Pa, Co, Ca>>, <<Di>>, <<Ta, Co, Ca>>, <<Co, Ca>>, <<Ta>>>>,
    <<Ex("lab5-init", 3, FALSE, "labs/phase_6_shell/user/src/bin/init.rs"),
      Ex("lab5-coreutils", 4, FALSE, "labs/phase_6_shell/user/src/bin/"),
      Ex("lab5-integration", 3, FALSE, "labs/phase_6_shell/")>>)

phase6ZhCN == [phaseId |-> 6, color |-> "#DB2777", accent |-> "#F472B6",
  lessons |-> <<phase6ZhCN_1, phase6ZhCN_2, phase6ZhCN_3, phase6ZhCN_4, phase6ZhCN_5>>]

phase6En_1 ==
  Lesson(6, 1, 4, 4, 4, <<<<Pa, Di, Co, Ca>>, <<Pa, Ta, Ca>>, <<Di, Pa, Co>>, <<Pa, Ta, Co, Ca>>>>,
    <<Ex("lab1-fork", 4, TRUE, "labs/phase_6_shell/src/task/fork.rs"),
      Ex("lab1-exec", 4, TRUE, "labs/phase_6_shell/src/task/exec.rs"),
      Ex("lab1-waitpid", 3, FALSE, "labs/phase_6_shell/src/task/waitpid.rs")>>)

phase6En_2 ==
  Lesson(6, 2, 4, 4, 4, <<<<Di, Pa, Co, Ca>>, <<Ta, Pa, Co>>, <<Pa, Co, Di>>>>,
    <<Ex("lab2-fd", 3, FALSE, "labs/phase_6_shell/src/fs/fd_table.rs"),
      Ex("lab2-dup", 3, TRUE, "labs/phase_6_shell/src/task/mod.rs")>>)

phase6En_3 ==
  Lesson(6, 3, 4, 4, 4, <<<<Pa, Di, Ca>>, <<Pa, Ta, Co, Di>>, <<Pa, Co, Ca>>, <<Pa, Di>>>>,
    <<Ex("lab3-ring", 3, TRUE, "labs/phase_6_shell/src/fs/pipe.rs"),
      Ex("lab3-pipe", 4, FALSE, "labs/phase_6_shell/src/fs/pipe.rs")>>)

phase6En_4 ==
  Lesson(6, 4, 4, 4, 4, <<<<Di>>, <<Pa, Co>>, <<Co, Ca>>, <<Co, Ca>>>>,
    <<Ex("lab4-tokenize", 4, FALSE, "labs/phase_6_shell/src/user_shell.rs"),
      Ex("lab4-execute", 4, TRUE, "labs/phase_6_shell/src/user_shell.rs")>>)

phase6En_5 ==
  Lesson(6, 5, 4, 5, 4, <<<<Pa, Co, Ca>>, <<Di>>, <<Ta, Co, Ca>>, <<Co, Ca>>, <<Ta>>>>,
    <<Ex("lab5-init", 3, FALSE, "labs/phase_6_shell/user/src/bin/init.rs"),
      Ex("lab5-coreutils", 4, FALSE, "labs/phase_6_shell/user/src/bin/"),
      Ex("lab5-integration", 3, FALSE, "labs/phase_6_shell/")>>)

phase6En == [phaseId |-> 6, color |-> "#DB2777", accent |-> "#F472B6",
  lessons |-> <<phase6En_1, phase6En_2, phase6En_3, phase6En_4, phase6En_5>>]

(***************************************************************************)
(* data/index.ts: zh-TW has no texts of its own and uses those of zh-CN.   *)
(***************************************************************************)
ZhCNContent ==
  LET c == <<phase0ZhCN, phase1ZhCN, phase2ZhCN, phase3ZhCN, phase4ZhCN, phase5ZhCN,
             phase6ZhCN>>
  IN  [p \in 0 .. 6 |-> c[p + 1]]

EnContent ==
  LET c == <<phase0En, phase1En, phase2En, phase3En, phase4En, phase5En, phase6En>>
  IN  [p \in 0 .. 6 |-> c[p + 1]]

PHASE_CONTENT ==
  [l \in {"zh-CN", "zh-TW", "en"} |-> IF l = "en" THEN EnContent ELSE ZhCNContent]
=============================================================================
