------------------------------ MODULE FlashMap ------------------------------
(***************************************************************************)
(* The layout of program flash: where the bootloader and the application   *)
(* live and which pages a master may select.                               *)
(*                                                                         *)
(* On STM32 the bootloader is at the start of flash and the application    *)
(* follows it; on AVR the application starts at address 0 and the          *)
(* bootloader is at the end.  Addresses are unsigned integers of the width *)
(* of the platform's uintptr_t, so sums wrap at AddrMod.                   *)
(***************************************************************************)
EXTENDS Integers

CONSTANTS
  Platform,    \* "STM32" or "AVR": which target the image is built for
  PageSize,    \* CN_FLASH_PAGE_SIZE, in bytes
  AddrMod,     \* how many values a uintptr_t has
  FlashStart,  \* address of the first byte of flash (0 on AVR)
  FlashEnd,    \* address after the last byte of flash
  BootSize     \* CN_FLASH_BOOTLOADER_SIZE, in bytes

ASSUME LayoutAssumption ==
  /\ Platform \in {"STM32", "AVR"}
  /\ PageSize \in Nat \ {0}
  /\ AddrMod \in Nat \ {0}
  /\ FlashStart \in Nat
  /\ FlashEnd \in Nat
  /\ BootSize \in Nat \ {0}
  /\ FlashStart + BootSize < FlashEnd
  /\ FlashEnd <= AddrMod
  /\ (Platform = "STM32") <=> (FlashStart > 0)
  /\ \A n \in {FlashStart, FlashEnd, BootSize, AddrMod} : n % PageSize = 0

Aligned(a) == a % PageSize = 0

\* The page addresses of flash, and those of them the application owns.
Pages == {a \in FlashStart .. FlashEnd - 1 : Aligned(a)}

AppStart == IF Platform = "STM32" THEN FlashStart + BootSize ELSE 0
AppEnd   == IF Platform = "STM32" THEN FlashEnd ELSE FlashEnd - BootSize

AppPages  == {a \in Pages : AppStart <= a /\ a < AppEnd}

FlashSize == FlashEnd - FlashStart

\* `newPageAddr &= CN_FLASH_PAGE_MASK`, with the narrowing to uintptr_t: the
\* AVR mask 0xFF80 clears the upper half of the 32-bit word.
Unmasked(w) == w % AddrMod          \* mutant: the mask is left out
PageMask(w) == (((w % AddrMod) \div PageSize) * PageSize)

\* cnFlashPageWriteable, as coded: the upper bound is strict, and the sum is
\* computed in uintptr_t.
BelowEnd(a) == (a + PageSize) % AddrMod < AppEnd

PageWriteable(a) == a >= AppStart /\ BelowEnd(a)

=============================================================================
