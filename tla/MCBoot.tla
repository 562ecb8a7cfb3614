------------------------------- MODULE MCBoot -------------------------------
(* Small instances of Boot for TLC: the values at and around every limit. *)
EXTENDS Boot

File(len, sects, start) ==
  [len |-> len, magic |-> TRUE, setup_sects |-> sects, code32_start |-> start]

\* No kernel, a file that ends in its header or before the kernel, and
\* kernels that are small, fill 128 MB of memory and are a byte too large.
MCKernel ==
  { [File(8192, 4, KERNEL_START) EXCEPT !.magic = FALSE],
    File(HEADER_END - 1, 4, KERNEL_START), File(14336, 27, KERNEL_START),
    File(2560 + 1, 0, 0), File(14336 + 127 * MB, 27, KERNEL_START),
    File(14336 + 127 * MB + 1, 27, KERNEL_START) }
=============================================================================
