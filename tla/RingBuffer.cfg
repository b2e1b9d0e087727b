CONSTANTS
  Byte = {a, b}
  BufferSize = 3
  MaxRequest = 4
SPECIFICATION Spec
INVARIANT MirrorOrder
PROPERTY FifoSpec
