---------------------------- MODULE EffectsChunky ----------------------------
(***************************************************************************)
(* Effects in which the processor draws chunky pixels and the blitter      *)
(* turns them into bitplanes.  Render starts the first blit; the handler   *)
(* of the interrupt of the blitter starts the next ones and makes the      *)
(* copper list show the result.  Render waits neither for them nor for a   *)
(* vertical blank.                                                         *)
(***************************************************************************)
EXTENDS Script

(* n blits from s to d, and the change of the copper list after the last.  *)
Blits(n, s, d) ==
  [i \in 1..n |-> Start({s}, d)[1]]
Show(s) == CopUpdateBitplanes(Buf("cp"), {s})

-----------------------------------------------------------------------------
(* effects/uvmap: pixels are drawn into the first planes of the bitmap that *)
(* the blits use for a buffer and for the result.                           *)
UVMapChunkyToPlanar ==
  Phases(Blits(6, Cur("screen"), Cur("screen")) \o Show(Cur("screen")))
UVMapMakeCopperList ==
  NewCopList({Buf("cp")}) \o CopSetupBitplanes(Buf("cp"), {Cur("screen")})
UVMapPixmapToTexture == Cpu({}, Bufs({"textureHi", "textureLo"}))
UVMapMakeUVMapRenderCode == Cpu({}, {Buf("UVMapRender")})
UVMapInit ==
  NewBitmap(Both("screen")) \o MemAlloc({Buf("UVMapRender")})
    \o UVMapMakeUVMapRenderCode \o MemAlloc(Bufs({"textureHi", "textureLo"}))
    \o UVMapPixmapToTexture \o EnableDMA({"blitter"})
    \o ForBoth("screen", BitmapClear) \o UVMapMakeCopperList
    \o CopListActivate(Buf("cp")) \o EnableDMA({"raster"}) \o EnableBlitInt
UVMapKill ==
  DisableDMA({"copper", "raster", "blitter"}) \o DisableBlitInt
    \o DeleteCopList({Buf("cp")}) \o MemFree(Bufs({"textureHi", "textureLo"}))
    \o MemFree({Buf("UVMapRender")}) \o DeleteBitmap(Both("screen"))
UVMapRender ==
  Cpu(Bufs({"UVMapRender", "textureHi", "textureLo"}), {Cur("screen")})
    \o UVMapChunkyToPlanar \o Swap(2)
UVMap == [Effect("uvmap", 0) EXCEPT !.init = UVMapInit, !.kill = UVMapKill,
            !.render = {UVMapRender}]

-----------------------------------------------------------------------------
(* effects/rotator *)
RotatorChunkyToPlanar ==
  Phases(Blits(6, Cur("screen"), Cur("screen")) \o Show(Cur("screen")))
RotatorMakeCopperList ==
  NewCopList({Buf("cp")}) \o CopSetupBitplanes(Buf("cp"), {Cur("screen")})
RotatorPixmapToTexture == Cpu({}, Bufs({"textureHi", "textureLo"}))
RotatorInit ==
  NewBitmap(Both("screen")) \o MemAlloc(Bufs({"textureHi", "textureLo"}))
    \o RotatorPixmapToTexture \o EnableDMA({"blitter"})
    \o ForBoth("screen", BitmapClear) \o RotatorMakeCopperList
    \o CopListActivate(Buf("cp")) \o EnableDMA({"raster"}) \o EnableBlitInt
RotatorKill ==
  DisableDMA({"copper", "raster", "blitter"}) \o DisableBlitInt
    \o DeleteCopList({Buf("cp")}) \o MemFree(Bufs({"textureHi", "textureLo"}))
    \o DeleteBitmap(Both("screen"))
RotatorRotator == Cpu(Bufs({"textureHi", "textureLo"}), {Cur("screen")})
RotatorRender == RotatorRotator \o RotatorChunkyToPlanar \o Swap(2)
Rotator == [Effect("rotator", 0) EXCEPT !.init = RotatorInit,
              !.kill = RotatorKill, !.render = {RotatorRender}]

-----------------------------------------------------------------------------
(* effects/uvmap-rgb: four blits within the chunky buffer, eight from it to *)
(* the bitmap.                                                              *)
UVMapRGBPixmapScramble == Cpu({}, {Buf("texture")})
UVMapRGBLoad == MemAlloc({Buf("texture")}) \o UVMapRGBPixmapScramble
UVMapRGBUnLoad == MemFree({Buf("texture")})
UVMapRGBChunkyToPlanar ==
  Phases(Blits(4, Cur("chunky"), Cur("chunky"))
           \o Blits(8, Cur("chunky"), Cur("screen")) \o Show(Cur("screen")))
UVMapRGBMakeCopperList ==
  NewCopList({Buf("cp")}) \o CopSetupBitplanes(Buf("cp"), {Cur("screen")})
UVMapRGBMakeUVMapRenderCode == Cpu({}, {Buf("UVMapRender")})
UVMapRGBInit ==
  NewBitmap(Both("screen")) \o MemAlloc(Both("chunky"))
    \o MemAlloc({Buf("UVMapRender")}) \o UVMapRGBMakeUVMapRenderCode
    \o EnableDMA({"blitter"}) \o ForBoth("screen", BitmapClear)
    \o UVMapRGBMakeCopperList \o CopListActivate(Buf("cp"))
    \o EnableDMA({"raster"}) \o EnableBlitInt
UVMapRGBKill ==
  DisableDMA({"copper", "raster"}) \o DisableBlitInt
    \o DeleteCopList({Buf("cp")}) \o MemFree({Buf("UVMapRender")})
    \o MemFree(Both("chunky")) \o DeleteBitmap(Both("screen"))
UVMapRGBRender ==
  Cpu(Bufs({"UVMapRender", "texture"}), {Cur("chunky")})
    \o UVMapRGBChunkyToPlanar \o Swap(2)
UVMapRGB == [Effect("uvmap-rgb", 0) EXCEPT !.load = UVMapRGBLoad,
               !.unload = UVMapRGBUnLoad, !.init = UVMapRGBInit,
               !.kill = UVMapRGBKill, !.render = {UVMapRGBRender}]
-----------------------------------------------------------------------------
(* effects/bumpmap-rgb: as uvmap-rgb; Kill leaves the blitter's channel on. *)
BumpMapDataScramble == Cpu({}, {Buf("shademap")})
BumpMapLoad ==
  MemAlloc({Buf("lightmap")}) \o Cpu({}, {Buf("lightmap")})
    \o MemAlloc({Buf("colormap")}) \o Cpu({}, {Buf("colormap")})
    \o MemAlloc({Buf("shademap")}) \o BumpMapDataScramble
BumpMapUnLoad == MemFree(Bufs({"colormap", "shademap", "lightmap"}))
BumpMapChunkyToPlanar ==
  Phases(Blits(4, Cur("chunky"), Cur("chunky"))
           \o Blits(8, Cur("chunky"), Cur("screen")) \o Show(Cur("screen")))
BumpMapMakeCopperList ==
  NewCopList({Buf("cp")}) \o CopSetupBitplanes(Buf("cp"), {Cur("screen")})
BumpMapInit ==
  NewBitmap(Both("screen")) \o MemAlloc(Both("chunky"))
    \o EnableDMA({"blitter"}) \o ForBoth("screen", BitmapClear)
    \o BumpMapMakeCopperList \o CopListActivate(Buf("cp"))
    \o EnableDMA({"raster"}) \o EnableBlitInt
BumpMapKill ==
  DisableDMA({"copper", "raster"}) \o DisableBlitInt
    \o DeleteCopList({Buf("cp")}) \o MemFree(Both("chunky"))
    \o DeleteBitmap(Both("screen"))
BumpMapBumpMapRender ==
  Cpu(Bufs({"lightmap", "colormap", "shademap"}), {Cur("chunky")})
BumpMapRender == BumpMapBumpMapRender \o BumpMapChunkyToPlanar \o Swap(2)
BumpMap == [Effect("bumpmap-rgb", 0) EXCEPT !.load = BumpMapLoad,
              !.unload = BumpMapUnLoad, !.init = BumpMapInit,
              !.kill = BumpMapKill, !.render = {BumpMapRender}]

-----------------------------------------------------------------------------
(* effects/uvlight: what Load allocates is never freed. *)
UVLightDataScramble == Cpu({}, {Buf("shademap")})
UVLightLoad ==
  MemAlloc({Buf("shademap")}) \o UVLightDataScramble
    \o MemAlloc({Buf("texture")}) \o Cpu({}, {Buf("texture")})
UVLightMakeUVMapRenderCode == Cpu({}, {Buf("UVMapRender")})
UVLightChunkyToPlanar ==
  Phases(Blits(4, Cur("chunky"), Cur("chunky"))
           \o Blits(8, Cur("chunky"), Cur("screen")) \o Show(Cur("screen")))
UVLightMakeCopperList ==
  NewCopList({Buf("cp")}) \o CopSetupBitplanes(Buf("cp"), {Cur("screen")})
UVLightInit ==
  NewBitmap(Both("screen")) \o MemAlloc(Both("chunky"))
    \o MemAlloc({Buf("UVMapRender")}) \o UVLightMakeUVMapRenderCode
    \o EnableDMA({"blitter"}) \o ForBoth("screen", BitmapClear)
    \o UVLightMakeCopperList \o CopListActivate(Buf("cp"))
    \o EnableDMA({"raster"}) \o EnableBlitInt
UVLightKill ==
  DisableDMA({"copper", "raster"}) \o DisableBlitInt
    \o DeleteCopList({Buf("cp")}) \o MemFree({Buf("UVMapRender")})
    \o MemFree(Both("chunky")) \o DeleteBitmap(Both("screen"))
UVLightRender ==
  Cpu(Bufs({"UVMapRender", "texture", "shademap"}), {Cur("chunky")})
    \o UVLightChunkyToPlanar \o Swap(2)
UVLight == [Effect("uvlight", 0) EXCEPT !.load = UVLightLoad,
              !.init = UVLightInit, !.kill = UVLightKill,
              !.render = {UVLightRender}]
-----------------------------------------------------------------------------
(* effects/ball: the picture is drawn into sprites, two sets in turn.  The *)
(* copper lists show a static background and one set each.  The control    *)
(* words that PositionSprite writes are none of those the blitter writes,  *)
(* and are left out.                                                       *)
BallMakeCopperList(i) ==
  NewCopList({Nth("cp", i)})
    \o CopSetupBitplanes(Nth("cp", i), {Nth("sprdat", i)})
BallPixmapToTexture(hi, lo) == Cpu({}, {hi, lo})
BallMakeUVMapRenderCode == Cpu({}, Bufs({"UVMapRender"}))
BallInit ==
  NewBitmap(Bufs({"bitmap"})) \o NewPixmap(Bufs({"chunky"}))
    \o MemAlloc(Bufs({"UVMapRender"})) \o BallMakeUVMapRenderCode
    \o NewPixmap(Bufs({"textureHi", "textureLo"}))
    \o BallPixmapToTexture(Buf("textureHi"), Buf("textureLo"))
    \o EnableDMA({"blitter"}) \o MemAlloc(Both("sprdat"))
    \o Cpu({}, Both("sprdat")) \o BallMakeCopperList(0)
    \o BallMakeCopperList(1) \o CopListActivate(Nth("cp", 0))
    \o EnableDMA({"raster", "sprite"})
BallKill ==
  DisableDMA({"copper", "raster", "blitter", "sprite"})
    \o DeleteCopList(Both("cp"))
    \o DeletePixmap(Bufs({"textureHi", "textureLo"}))
    \o MemFree(Bufs({"UVMapRender"})) \o MemFree(Both("sprdat"))
    \o DeletePixmap(Bufs({"chunky"})) \o DeleteBitmap(Bufs({"bitmap"}))
BallChunkyToPlanar ==
  Blit(Bufs({"chunky"}), Buf("bitmap")) \o Blit(Bufs({"bitmap"}), Buf("chunky"))
    \o Blit(Bufs({"chunky"}), Buf("bitmap"))
BallBitmapToSprite == Blit(Bufs({"bitmap"}), Cur("sprdat"))
BallRender ==
  Cpu(Bufs({"UVMapRender", "textureHi", "textureLo"}), Bufs({"chunky"}))
    \o BallChunkyToPlanar \o BallBitmapToSprite
    \o CopListActivate(Cur("cp")) \o TaskWaitVBlank \o Swap(2)
Ball == [Effect("ball", 0) EXCEPT !.init = BallInit, !.kill = BallKill,
           !.render = {BallRender}]
=============================================================================
